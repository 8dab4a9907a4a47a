------------------------ MODULE PipelineRecords_proofs ------------------------
(***************************************************************************)
(* What the stores record of an event: the retry counter, the analytics    *)
(* row, the daily count and the status column.  Each is written by calls   *)
(* that may fail or be made twice, so each theorem names what it excludes. *)
(***************************************************************************)
EXTENDS PipelineDelivery_proofs

-----------------------------------------------------------------------------
(* Where changes come from.                                                  *)

\* A goroutine's control changes by a step of its own, or when it starts anew.
LEMMA OwnSteps ==
    ASSUME TypeInv, [Next]_vars, NEW h \in Goroutines
    PROVE  \/ pc'[h] = pc[h] /\ held'[h] = held[h] /\ seen'[h] = seen[h]
           \/ Fetch(h)
           \/ Process(h)
           \/ pc'[h] = "fetch"
<1>1. ASSUME NEW g \in Goroutines, Fetch(g) \/ Process(g), g # h
      PROVE  pc'[h] = pc[h] /\ held'[h] = held[h] /\ seen'[h] = seen[h]
  BY <1>1 DEF Fetch, FetchMessage, Process, FindEvent, FindEventUnless, SetProcessing, SetProcessed,
     SetFailed, MarkFailed, UpdateStatus, WriteEvent, IncrementRetry, PublishRetry, PublishToDLQ,
     Publish, CommitMessages, Continue, TypeInv, TypeOK
<1>2. ASSUME NEW w \in Workers, Restart(w)
      PROVE  pc'[h] = "fetch" \/ (pc'[h] = pc[h] /\ held'[h] = held[h] /\ seen'[h] = seen[h])
  BY <1>2 DEF Restart
<1> QED
  BY <1>1, <1>2 DEF Next, Insert, PublishNew, Assign, Revoke, Crash, Exit, Shutdown, Idle, vars, procs

\* A message stays where it is in the log.
LEMMA LogsGrow ==
    ASSUME TypeInv, [Next]_vars, NEW p \in Partitions, NEW i \in 1..Len(log[p])
    PROVE  i \in 1..Len(log'[p]) /\ log'[p][i] = log[p][i]
<1>1. ASSUME NEW topic, topic \subseteq Partitions, NEW m \in Messages, Appended(topic, m)
      PROVE  i \in 1..Len(log'[p]) /\ log'[p][i] = log[p][i]
  <2>1. Len(log'[p]) >= Len(log[p]) /\ log' \in [Partitions -> Seq(Messages)]
    BY <1>1, AppendedTyped DEF TypeInv
  <2>2. Len(log[p]) \in Nat /\ Len(log'[p]) \in Nat
    BY <2>1 DEF TypeInv, TypeOK
  <2>3. log'[p][i] = log[p][i]
    BY <1>1, AppendedGrows DEF TypeInv, Grown
  <2> QED BY <2>1, <2>2, <2>3
<1>2. ASSUME NEW e \in Events, PublishNew(e) PROVE i \in 1..Len(log'[p]) /\ log'[p][i] = log[p][i]
  <2>1. [event |-> e, attempt |-> 1] \in Messages /\ EventPartitions \subseteq Partitions
    BY DEF Messages, Partitions
  <2> QED BY <1>1, <1>2, <2>1 DEF PublishNew
<1>3. ASSUME NEW g \in Goroutines, PublishRetry(g) \/ PublishToDLQ(g)
      PROVE  i \in 1..Len(log'[p]) /\ log'[p][i] = log[p][i]
  <2>1. Busy(g)
    BY <1>3 DEF PublishRetry, PublishToDLQ, Busy, Calls, ProcessorCalls
  <2>2. [event |-> Event(g), attempt |-> Message(g).attempt + 1] \in Messages /\ Message(g) \in Messages
    BY <2>1, HeldMessage DEF Messages
  <2>3. EventPartitions \subseteq Partitions /\ DLQPartitions \subseteq Partitions
    BY DEF Partitions
  <2> QED BY <1>1, <1>3, <2>2, <2>3 DEF PublishRetry, PublishToDLQ, Publish
<1> QED
  BY <1>2, <1>3 DEF Next, Process, Insert, Assign, Revoke, Fetch, FetchMessage, Crash, Exit, Restart,
     Shutdown, Idle, vars, broker, FindEvent, FindEventUnless, SetProcessing, SetProcessed, SetFailed,
     MarkFailed, UpdateStatus, WriteEvent, IncrementRetry, CommitMessages

\* The message of a goroutine that keeps what it holds stays the same.
LEMMA MessageStays ==
    ASSUME TypeInv, [Next]_vars, NEW h \in Goroutines, Busy(h), held'[h] = held[h]
    PROVE  Message(h)' = Message(h) /\ Event(h)' = Event(h)
<1>1. held[h].part \in Partitions /\ held[h].off \in 1..Len(log[held[h].part])
  BY HeldMessage
<1>2. log'[held[h].part][held[h].off] = log[held[h].part][held[h].off]
  BY <1>1, LogsGrow
<1> QED BY <1>2 DEF Message, Event

\* What was appended in a step: a first message, a retry or a dead letter.
LEMMA NewMessages ==
    ASSUME TypeInv, [Next]_vars, NEW p \in Partitions, NEW i \in 1..Len(log'[p])
    PROVE  \/ i \in 1..Len(log[p]) /\ log'[p][i] = log[p][i]
           \/ /\ p \in EventPartitions
              /\ \E e \in Events : PublishNew(e) /\ log'[p][i] = [event |-> e, attempt |-> 1]
           \/ /\ p \in EventPartitions
              /\ \E g \in Goroutines :
                   /\ PublishRetry(g)
                   /\ log'[p][i] = [event |-> Event(g), attempt |-> Message(g).attempt + 1]
           \/ /\ p \in DLQPartitions
              /\ \E g \in Goroutines : PublishToDLQ(g) /\ log'[p][i] = Message(g)
<1>1. ASSUME NEW topic, topic \subseteq Partitions, NEW m \in Messages, Appended(topic, m)
      PROVE  \/ i \in 1..Len(log[p]) /\ log'[p][i] = log[p][i]
             \/ p \in topic /\ log'[p][i] = m
  <2>1. PICK q \in topic : /\ Grown(log[q], log'[q], m)
                           /\ \A r \in Partitions : r # q => log'[r] = log[r]
    BY <1>1, AppendedGrows DEF TypeInv
  <2>2. Len(log[p]) \in Nat /\ (q = p => Len(log'[p]) \in Nat)
    BY <2>1 DEF TypeInv, TypeOK, Grown
  <2>3. CASE p = q
    <3>1. i \in 1..Len(log[p]) \/ i \in Len(log[p]) + 1..Len(log'[p])
      BY <2>2, <2>3
    <3> QED BY <2>1, <2>3, <3>1 DEF Grown
  <2>4. CASE p # q
    BY <2>1, <2>4
  <2> QED BY <2>3, <2>4
<1>2. CASE UNCHANGED log
  BY <1>2
<1>3. ASSUME NEW e \in Events, PublishNew(e)
      PROVE  \/ i \in 1..Len(log[p]) /\ log'[p][i] = log[p][i]
             \/ p \in EventPartitions /\ log'[p][i] = [event |-> e, attempt |-> 1]
  <2>1. [event |-> e, attempt |-> 1] \in Messages /\ EventPartitions \subseteq Partitions
    BY DEF Messages, Partitions
  <2> QED BY <1>1, <1>2, <1>3, <2>1 DEF PublishNew
<1>4. ASSUME NEW g \in Goroutines, PublishRetry(g)
      PROVE  \/ i \in 1..Len(log[p]) /\ log'[p][i] = log[p][i]
             \/ /\ p \in EventPartitions
                /\ log'[p][i] = [event |-> Event(g), attempt |-> Message(g).attempt + 1]
  <2>1. Busy(g)
    BY <1>4 DEF PublishRetry, Busy, Calls, ProcessorCalls
  <2>2. [event |-> Event(g), attempt |-> Message(g).attempt + 1] \in Messages
    BY <2>1, HeldMessage DEF Messages
  <2>3. EventPartitions \subseteq Partitions
    BY DEF Partitions
  <2> QED BY <1>1, <1>2, <1>4, <2>2, <2>3 DEF PublishRetry, Publish
<1>5. ASSUME NEW g \in Goroutines, PublishToDLQ(g)
      PROVE  \/ i \in 1..Len(log[p]) /\ log'[p][i] = log[p][i]
             \/ p \in DLQPartitions /\ log'[p][i] = Message(g)
  <2>1. Busy(g)
    BY <1>5 DEF PublishToDLQ, Busy, Calls, ProcessorCalls
  <2>2. Message(g) \in Messages /\ DLQPartitions \subseteq Partitions
    BY <2>1, HeldMessage DEF Partitions
  <2> QED BY <1>1, <1>2, <1>5, <2>2 DEF PublishToDLQ, Publish
<1>6. \/ UNCHANGED log
      \/ \E e \in Events : PublishNew(e)
      \/ \E g \in Goroutines : PublishRetry(g) \/ PublishToDLQ(g)
  BY DEF Next, Process, Insert, Assign, Revoke, Fetch, FetchMessage, Crash, Exit, Restart,
     Shutdown, Idle, vars, broker, FindEvent, FindEventUnless, SetProcessing, SetProcessed, SetFailed,
     MarkFailed, UpdateStatus, WriteEvent, IncrementRetry, CommitMessages
<1> QED BY <1>2, <1>3, <1>4, <1>5, <1>6

-----------------------------------------------------------------------------
(* The retry counter.                                                        *)

\* Counting itself does not fail: no fault, and no context that is done.
CountingWorks == "incrementRetry" \notin Faults /\ MaxShutdowns = 0

\* A goroutine past the counter has counted the attempt of its message.
Counted ==
    \A g \in Goroutines : pc[g] \in {"publishRetry", "setFailed", "publishDLQ"} =>
        retryCount[Event(g)] >= Message(g).attempt

RetryInv == RetryCountCoversAttempts /\ Counted

LEMMA RetryMonotone ==
    ASSUME TypeInv, [Next]_vars, NEW e \in Events
    PROVE  retryCount'[e] \in Nat /\ retryCount[e] \in Nat /\ retryCount'[e] >= retryCount[e]
<1>1. retryCount[e] \in Nat
  BY DEF TypeInv, TypeOK
<1>2. ASSUME NEW g \in Goroutines, IncrementRetry(g)
      PROVE  retryCount'[e] = retryCount[e] \/ retryCount'[e] = retryCount[e] + 1
  BY <1>2 DEF IncrementRetry, TypeInv, TypeOK
<1>3. UNCHANGED retryCount \/ \E g \in Goroutines : IncrementRetry(g)
  BY DEF Next, Process, Insert, PublishNew, Assign, Revoke, Fetch, FetchMessage,
     Crash, Exit, Restart, Shutdown, Idle, vars, store, FindEvent, FindEventUnless, SetProcessing,
     SetProcessed, SetFailed, MarkFailed, UpdateStatus, WriteEvent, PublishRetry, PublishToDLQ, Publish,
     CommitMessages
<1>4. retryCount'[e] = retryCount[e] \/ retryCount'[e] = retryCount[e] + 1
  BY <1>2, <1>3
<1> QED BY <1>1, <1>4

LEMMA LoggedMessage ==
    ASSUME TypeInv, NEW p \in Partitions, NEW i \in 1..Len(log[p])
    PROVE  log[p][i] \in Messages /\ log[p][i].event \in Events /\ log[p][i].attempt \in Nat
<1>1. log[p] \in Seq(Messages)
  BY DEF TypeInv, TypeOK
<1>2. log[p][i] \in Messages
  BY <1>1
<1> QED BY <1>2 DEF Messages

LEMMA RetryStep ==
    ASSUME CountingWorks, TypeInv, NeverStopped, RetryInv, [Next]_vars
    PROVE  RetryInv'
<1>1. \A e \in Events : /\ retryCount'[e] \in Nat /\ retryCount[e] \in Nat
                        /\ retryCount'[e] >= retryCount[e]
  BY RetryMonotone
<1>2. ASSUME NEW p \in Partitions, NEW i \in 1..Len(log'[p])
      PROVE  retryCount'[log'[p][i].event] >=
               IF p \in DLQPartitions THEN log'[p][i].attempt ELSE log'[p][i].attempt - 1
  <2>1. CASE i \in 1..Len(log[p]) /\ log'[p][i] = log[p][i]
    <3>1. log[p][i].event \in Events /\ log[p][i].attempt \in Nat
      BY <2>1, LoggedMessage
    <3>2. retryCount[log[p][i].event] >=
            IF p \in DLQPartitions THEN log[p][i].attempt ELSE log[p][i].attempt - 1
      BY <2>1 DEF RetryInv, RetryCountCoversAttempts
    <3> QED BY <1>1, <2>1, <3>1, <3>2
  <2>2. ASSUME NEW e \in Events, p \in EventPartitions, log'[p][i] = [event |-> e, attempt |-> 1]
        PROVE  p \notin DLQPartitions /\ retryCount'[log'[p][i].event] >= log'[p][i].attempt - 1
    <3>1. log'[p][i].event = e /\ log'[p][i].attempt = 1
      BY <2>2
    <3> QED BY <1>1, <2>2, <3>1, PipelineAssumption
  <2>3. ASSUME NEW g \in Goroutines, PublishRetry(g) \/ PublishToDLQ(g)
        PROVE  /\ Event(g) \in Events /\ Message(g).attempt \in Nat
               /\ retryCount'[Event(g)] >= Message(g).attempt
    <3>1. pc[g] \in {"publishRetry", "publishDLQ"} /\ Busy(g)
      BY <2>3 DEF PublishRetry, PublishToDLQ, Busy, Calls, ProcessorCalls
    <3>2. Event(g) \in Events /\ Message(g).attempt \in Nat
      BY <3>1, HeldMessage
    <3>3. retryCount[Event(g)] >= Message(g).attempt
      BY <3>1 DEF RetryInv, Counted
    <3> QED BY <1>1, <3>2, <3>3
  <2>4. ASSUME NEW g \in Goroutines, p \in EventPartitions, PublishRetry(g),
               log'[p][i] = [event |-> Event(g), attempt |-> Message(g).attempt + 1]
        PROVE  /\ p \notin DLQPartitions
               /\ retryCount'[log'[p][i].event] >= log'[p][i].attempt - 1
    <3>1. log'[p][i].event = Event(g) /\ log'[p][i].attempt = Message(g).attempt + 1
      BY <2>4
    <3> QED BY <2>3, <2>4, <3>1, PipelineAssumption
  <2>5. ASSUME NEW g \in Goroutines, p \in DLQPartitions, PublishToDLQ(g), log'[p][i] = Message(g)
        PROVE  retryCount'[log'[p][i].event] >= log'[p][i].attempt
    BY <2>3, <2>5 DEF Event
  <2> QED BY <2>1, <2>2, <2>4, <2>5, NewMessages
<1>3. ASSUME NEW h \in Goroutines, pc'[h] \in {"publishRetry", "setFailed", "publishDLQ"}
      PROVE  retryCount'[Event(h)'] >= Message(h)'.attempt
  <2>1. ASSUME Busy(h), held'[h] = held[h]
        PROVE  /\ Message(h)' = Message(h) /\ Event(h)' = Event(h)
               /\ Event(h) \in Events /\ Message(h).attempt \in Nat
               /\ retryCount'[Event(h)] \in Nat /\ retryCount[Event(h)] \in Nat
               /\ retryCount'[Event(h)] >= retryCount[Event(h)]
    BY <1>1, <2>1, MessageStays, HeldMessage
  <2>2. CASE pc[h] \in {"publishRetry", "setFailed", "publishDLQ"} /\ held'[h] = held[h]
    <3>1. Busy(h) /\ retryCount[Event(h)] >= Message(h).attempt
      BY <2>2 DEF Busy, Calls, ProcessorCalls, RetryInv, Counted
    <3> QED BY <2>1, <2>2, <3>1
  <2>3. CASE IncrementRetry(h)
    <3>1. Busy(h) /\ pc[h] \in ProcessorCalls /\ held'[h] = held[h]
      BY <2>3 DEF IncrementRetry, Busy, Calls, ProcessorCalls
    <3>2. held[h].part \in EventPartitions /\ held[h].off \in 1..Len(log[held[h].part])
      BY <3>1, HeldMessage DEF TypeInv, HeldOK, PartitionsOf
    <3>3. retryCount[Event(h)] >= Message(h).attempt - 1
      BY <3>2, PipelineAssumption DEF RetryInv, RetryCountCoversAttempts, Message, Event, Partitions
    <3>4. retryCount'[Event(h)] = retryCount[Event(h)] + 1
      <4>1. ~FailsUnsent(h)
        BY <2>3 DEF IncrementRetry, FailsUnsent, CountingWorks, NeverStopped
      <4>2. retryCount' = [retryCount EXCEPT ![Event(h)] = @ + 1]
        BY <2>3, <4>1 DEF IncrementRetry, FailsLate
      <4>3. retryCount \in [Events -> Nat] /\ Event(h) \in Events
        BY <2>1, <3>1 DEF TypeInv, TypeOK
      <4> QED BY <4>2, <4>3
    <3> QED BY <2>1, <3>1, <3>3, <3>4
  <2>4. \/ pc[h] \in {"publishRetry", "setFailed", "publishDLQ"} /\ held'[h] = held[h]
        \/ IncrementRetry(h)
    <3>1. CASE Process(h)
      BY <1>3, <3>1 DEF Process, FindEvent, FindEventUnless, SetProcessing, SetProcessed, SetFailed,
         MarkFailed, UpdateStatus, WriteEvent, IncrementRetry, PublishRetry, PublishToDLQ, Publish,
         CommitMessages, Continue, TypeInv, TypeOK
    <3>2. CASE Fetch(h)
      BY <1>3, <3>2, FetchShape
    <3> QED BY <1>3, <3>1, <3>2, OwnSteps
  <2> QED BY <2>2, <2>3, <2>4
<1> QED
  BY <1>2, <1>3 DEF RetryInv, RetryCountCoversAttempts, Counted

\* Unless counting itself fails, retry_count never falls behind the attempts
\* that are queued or dead, across crashes, rebalances and duplicates.
THEOREM RetryCountAlwaysCovers ==
    ASSUME CountingWorks PROVE Spec => []RetryCountCoversAttempts
<1>1. Init => TypeInv /\ NeverStopped /\ RetryInv
  BY TypeInit DEF Init, NeverStopped, RetryInv, RetryCountCoversAttempts, Counted, Partitions
<1>2. TypeInv /\ NeverStopped /\ RetryInv /\ [Next]_vars => TypeInv' /\ NeverStopped' /\ RetryInv'
  BY TypeStep, NeverStoppedStep, RetryStep DEF CountingWorks
<1>3. RetryInv => RetryCountCoversAttempts
  BY DEF RetryInv
<1> QED BY <1>1, <1>2, <1>3, PTL DEF Spec

-----------------------------------------------------------------------------
(* The analytics row.                                                        *)

\* A goroutine that may still set an event processed has written its row; one
\* whose context is done may not have, and can set nothing any more.
WrittenInv ==
    /\ ProcessedWasWritten
    /\ \A g \in Goroutines : pc[g] = "setProcessed" /\ ctx[g] # "cancelled" =>
         \E r \in rows : r.event = Event(g)

LEMMA RowsKept == [Next]_vars => rows \subseteq rows'
BY DEF Next, Process, Insert, PublishNew, Assign, Revoke, Fetch, FetchMessage, Crash, Exit, Restart,
   Shutdown, Idle, vars, store, FindEvent, FindEventUnless, SetProcessing, SetProcessed, SetFailed,
   MarkFailed, UpdateStatus, WriteEvent, IncrementRetry, PublishRetry, PublishToDLQ, Publish,
   CommitMessages

LEMMA WrittenStep ==
    ASSUME "writeEvent" \notin Faults, TypeInv, WrittenInv, [Next]_vars
    PROVE  WrittenInv'
<1>1. rows \subseteq rows'
  BY RowsKept
<1>2. ASSUME NEW e \in Events, status'[e] = "processed"
      PROVE  \/ status[e] = "processed"
             \/ \E g \in Goroutines : pc[g] = "setProcessed" /\ ctx[g] # "cancelled" /\ Event(g) = e
  <2>1. ASSUME NEW g \in Goroutines, NEW new, NEW ok, NEW err, UpdateStatus(g, new, ok, err)
        PROVE  \/ status'[e] = status[e]
               \/ ctx[g] # "cancelled" /\ Event(g) = e /\ status'[e] = new
    BY <2>1 DEF UpdateStatus, Succeeds, FailsLate, TypeInv, TypeOK
  <2>2. ASSUME NEW g \in Goroutines, SetProcessing(g) \/ SetFailed(g) \/ MarkFailed(g)
        PROVE  status[e] = "processed"
    BY <1>2, <2>1, <2>2 DEF SetProcessing, SetFailed, MarkFailed
  <2>3. ASSUME NEW g \in Goroutines, SetProcessed(g)
        PROVE  \/ status[e] = "processed"
               \/ pc[g] = "setProcessed" /\ ctx[g] # "cancelled" /\ Event(g) = e
    BY <1>2, <2>1, <2>3 DEF SetProcessed
  <2>4. ASSUME NEW f \in Events, Insert(f) PROVE status[e] = "processed"
    BY <1>2, <2>4 DEF Insert, TypeInv, TypeOK
  <2>5. CASE UNCHANGED status
    BY <1>2, <2>5
  <2> QED
    BY <2>2, <2>3, <2>4, <2>5 DEF Next, Process, PublishNew, Assign, Revoke, Fetch, FetchMessage,
       Crash, Exit, Restart, Shutdown, Idle, vars, store, FindEvent, FindEventUnless, WriteEvent,
       IncrementRetry, PublishRetry, PublishToDLQ, Publish, CommitMessages
<1>3. ASSUME NEW h \in Goroutines, pc'[h] = "setProcessed", ctx'[h] # "cancelled"
      PROVE  \E r \in rows' : r.event = Event(h)'
  <2>1. CASE WriteEvent(h)
    <3>1. Busy(h) /\ held'[h] = held[h] /\ ctx[h] = "live"
      BY <1>3, <2>1 DEF WriteEvent, Busy, Calls, ProcessorCalls, Continue, TypeInv, TypeOK
    <3>2. ~FailsUnsent(h)
      BY <2>1, <3>1 DEF WriteEvent, FailsUnsent
    <3>3. rows' = rows \cup {[event |-> Event(h), status |-> seen[h]]}
      BY <2>1, <3>2 DEF WriteEvent, FailsLate
    <3> DEFINE row == [event |-> Event(h), status |-> seen[h]]
    <3>4. row \in rows' /\ row.event = Event(h)
      BY <3>3
    <3> HIDE DEF row
    <3> QED BY <3>1, <3>4, MessageStays
  <2>2. CASE pc[h] = "setProcessed" /\ held'[h] = held[h] /\ ctx[h] # "cancelled"
    <3>1. Busy(h) /\ \E r \in rows : r.event = Event(h)
      BY <2>2 DEF WrittenInv, Busy, Calls, ProcessorCalls
    <3> QED BY <1>1, <2>2, <3>1, MessageStays
  <2>3. ASSUME ctx[h] = "cancelled" PROVE FALSE
    <3>1. ASSUME NEW g \in Goroutines, NEW n, Continue(g, n) PROVE ctx'[h] = "cancelled"
      BY <2>3, <3>1 DEF Continue, TypeInv, TypeOK
    <3>2. ASSUME NEW w \in Workers, Restart(w) PROVE pc'[h] = "fetch" \/ ctx'[h] = "cancelled"
      BY <2>3, <3>2 DEF Restart
    <3>3. ASSUME NEW w \in Workers, Shutdown(w) PROVE ctx'[h] = "cancelled"
      <4>1. h[1] # w
        BY <2>3, <3>3 DEF Shutdown, Goroutines
      <4> QED BY <2>3, <3>3, <4>1 DEF Shutdown
    <3>4. ASSUME NEW g \in Goroutines, Process(g) \/ Fetch(g) PROVE \E n : Continue(g, n)
      BY <3>4 DEF Process, Fetch, FetchMessage, FindEvent, FindEventUnless, SetProcessing,
         SetProcessed, SetFailed, MarkFailed, UpdateStatus, WriteEvent, IncrementRetry, PublishRetry,
         PublishToDLQ, Publish, CommitMessages
    <3>5. UNCHANGED ctx => FALSE
      BY <1>3, <2>3
    <3> QED
      BY <1>3, <3>1, <3>2, <3>3, <3>4, <3>5
         DEF Next, Insert, PublishNew, Assign, Revoke, Crash, Exit, Idle, vars, procs
  <2>4. WriteEvent(h) \/ (pc[h] = "setProcessed" /\ held'[h] = held[h])
    <3>1. CASE Process(h)
      BY <1>3, <3>1 DEF Process, FindEvent, FindEventUnless, SetProcessing, SetProcessed, SetFailed,
         MarkFailed, UpdateStatus, WriteEvent, IncrementRetry, AfterIncrement, PublishRetry,
         PublishToDLQ, Publish, CommitMessages, Continue, TypeInv, TypeOK
    <3>2. CASE Fetch(h)
      BY <1>3, <3>2, FetchShape
    <3> QED BY <1>3, <3>1, <3>2, OwnSteps
  <2> QED BY <2>1, <2>2, <2>3, <2>4
<1>4. ASSUME NEW e \in Events, status'[e] = "processed" PROVE \E r \in rows' : r.event = e
  BY <1>1, <1>2, <1>4 DEF WrittenInv, ProcessedWasWritten
<1> QED BY <1>3, <1>4 DEF WrittenInv, ProcessedWasWritten

\* Unless the write itself fails, a processed event has its row in events_log,
\* even when the worker is told to stop between the write and the status.
THEOREM ProcessedAlwaysWritten ==
    ASSUME "writeEvent" \notin Faults PROVE Spec => []ProcessedWasWritten
<1>1. Init => TypeInv /\ WrittenInv
  BY TypeInit DEF Init, WrittenInv, ProcessedWasWritten
<1>2. TypeInv /\ WrittenInv /\ [Next]_vars => TypeInv' /\ WrittenInv'
  BY TypeStep, WrittenStep
<1>3. WrittenInv => ProcessedWasWritten
  BY DEF WrittenInv
<1> QED BY <1>1, <1>2, <1>3, PTL DEF Spec

-----------------------------------------------------------------------------
(* The daily count and the status column, where nothing is delivered twice.  *)

\* No worker is killed, stopped or preempted, and the broker's acknowledgements
\* arrive: whatever else fails, a message is handled once.
DeliversOnce ==
    /\ MaxCrashes = 0 /\ MaxRevocations = 0 /\ MaxShutdowns = 0
    /\ "duplicate" \notin Faults

\* A partition without an owner never had one.
NeverGivenUp == \A p \in Partitions : owner[p] = NoOwner => position[p] = 0 /\ committed[p] = 0

\* A place of a log carries its event: its message is still to be fetched, or a
\* goroutine is at work on it.
EventAt(x) == log[x.part][x.off].event
Working(g) == pc[g] \in Calls \ {"commit"}
Waits(x)   == position[x.part] < x.off /\ x.off <= Len(log[x.part])
Carries(x) == Waits(x) \/ \E g \in Goroutines : Working(g) /\ held[g] = x

\* An event is carried in one place only, and in none before its first publish.
CarriedOnce ==
    /\ \A x, y \in Positions : Carries(x) /\ Carries(y) /\ EventAt(x) = EventAt(y) => x = y
    /\ \A e \in toPublish : \A p \in Partitions : \A i \in 1..Len(log[p]) : log[p][i].event # e

\* What the store may say of event e when the next call made for it is call.
StatusesAt(call) ==
    IF call \in {"writeEvent", "setProcessed"} THEN {"processing"}
    ELSE {"pending", "processing"} \cup (IF call \in {"publishDLQ", "markFailed"} THEN {"failed"} ELSE {})

Stage(call, e) == status[e] \in StatusesAt(call) /\ (call # "setProcessed" => counted[e] = 0)

NextCall(x) == IF x.part \in EventPartitions THEN "findEvent" ELSE "markFailed"

StagesOK ==
    /\ \A x \in Positions : Waits(x) => Stage(NextCall(x), EventAt(x))
    /\ \A g \in Goroutines : Working(g) => Stage(pc[g], Event(g))
    /\ \A e \in toPublish : Stage("findEvent", e)
    /\ \A e \in Events : status[e] = "absent" => counted[e] = 0

\* Whatever is in the dead letter topic was in the events topic before.
DeadWereQueued == \A p \in DLQPartitions : \A i \in 1..Len(log[p]) : Queued(log[p][i].event)

OnceInv ==
    /\ NeverStopped /\ RowsExist /\ OwnersHold
    /\ NeverGivenUp /\ CarriedOnce /\ StagesOK /\ DeadWereQueued /\ CountedOnce

\* The steps that are left.
LEMMA OnceSteps ==
    ASSUME DeliversOnce, TypeInv, NeverStopped, [Next]_vars
    PROVE  \/ \E e \in Events : Insert(e) \/ PublishNew(e)
           \/ \E p \in Partitions, g \in Goroutines : Assign(p, g)
           \/ \E g \in Goroutines : Fetch(g) \/ Process(g)
           \/ UNCHANGED vars
<1>1. ASSUME NEW p \in Partitions, Revoke(p) PROVE FALSE
  BY <1>1 DEF Revoke, DeliversOnce, TypeInv, TypeOK
<1>2. ASSUME NEW w \in Workers, Crash(w) PROVE FALSE
  BY <1>2 DEF Crash, DeliversOnce, TypeInv, TypeOK
<1>3. ASSUME NEW w \in Workers, Shutdown(w) PROVE FALSE
  BY <1>3 DEF Shutdown, DeliversOnce, TypeInv, TypeOK
<1>4. ASSUME NEW w \in Workers, Exit(w) PROVE FALSE
  <2>1. <<w, "processor">> \in {w} \X Roles /\ <<w, "processor">> \in Goroutines
    BY DEF Goroutines, Roles
  <2> QED BY <1>4, <2>1 DEF Exit, NeverStopped
<1> QED BY <1>1, <1>2, <1>3, <1>4 DEF Next, Idle

LEMMA GivenUpStep ==
    ASSUME DeliversOnce, TypeInv, NeverStopped, OwnersHold, NeverGivenUp, [Next]_vars
    PROVE  NeverGivenUp'
<1> USE DEF NeverGivenUp
<1>1. ASSUME NEW p \in Partitions, NEW g \in Goroutines, Assign(p, g) PROVE NeverGivenUp'
  BY <1>1, PipelineAssumption DEF Assign, TypeInv, TypeOK
<1>2. ASSUME NEW g \in Goroutines, Fetch(g) PROVE NeverGivenUp'
  <2>1. PICK p \in Partitions : /\ owner[p] = g /\ UNCHANGED <<committed, owner>>
                                /\ position' = [position EXCEPT ![p] = @ + 1]
    BY <1>2, FetchShape
  <2> QED BY <2>1, PipelineAssumption DEF TypeInv, TypeOK
<1>3. ASSUME NEW g \in Goroutines, Process(g) PROVE NeverGivenUp'
  <2>1. Busy(g) /\ UNCHANGED <<position, owner>>
    BY <1>3, ProcessShape
  <2>2. CASE pc[g] # "commit"
    BY <1>3, <2>1, <2>2, ProcessShape
  <2>3. CASE pc[g] = "commit"
    <3>1. committed' \in {committed, [committed EXCEPT ![held[g].part] = held[g].off]}
      BY <1>3, <2>3, CommitShape
    <3>2. owner[held[g].part] # NoOwner
      BY <2>1, PipelineAssumption DEF OwnersHold, DeliversOnce
    <3> QED BY <2>1, <3>1, <3>2 DEF TypeInv, TypeOK
  <2> QED BY <2>2, <2>3
<1>4. ASSUME UNCHANGED <<owner, position, committed>> PROVE NeverGivenUp'
  BY <1>4
<1> QED
  BY <1>1, <1>2, <1>3, <1>4, OnceSteps DEF Insert, PublishNew, vars, broker

LEMMA DeadStep == ASSUME TypeInv, DeadWereQueued, [Next]_vars PROVE DeadWereQueued'
<1> SUFFICES ASSUME NEW p \in DLQPartitions, NEW i \in 1..Len(log'[p]),
                    NEW e, e = log'[p][i].event
             PROVE  Queued(e)'
  BY DEF DeadWereQueued
<1>1. ASSUME Queued(e) PROVE Queued(e)'
  <2>1. PICK q \in EventPartitions : \E j \in 1..Len(log[q]) : log[q][j].event = e
    BY <1>1 DEF Queued
  <2> PICK j \in 1..Len(log[q]) : log[q][j].event = e
    BY <2>1
  <2>2. j \in 1..Len(log'[q]) /\ log'[q][j] = log[q][j]
    BY LogsGrow DEF Partitions
  <2> QED BY <2>2 DEF Queued
<1>2. p \in Partitions /\ p \notin EventPartitions
  BY PipelineAssumption DEF Partitions
<1>3. CASE i \in 1..Len(log[p]) /\ log'[p][i] = log[p][i]
  BY <1>1, <1>3 DEF DeadWereQueued
<1>4. ASSUME NEW g \in Goroutines, PublishToDLQ(g), log'[p][i] = Message(g)
      PROVE  Queued(e)'
  <2>1. Busy(g) /\ pc[g] \in ProcessorCalls
    BY <1>4 DEF PublishToDLQ, Busy, Calls, ProcessorCalls
  <2>2. held[g].part \in EventPartitions /\ held[g].off \in 1..Len(log[held[g].part])
    BY <2>1, HeldMessage DEF TypeInv, HeldOK, PartitionsOf
  <2>3. Queued(e)
    BY <1>4, <2>2 DEF Queued, Message
  <2> QED BY <1>1, <2>3
<1> QED BY <1>2, <1>3, <1>4, NewMessages

\* A carried event has its message, and no other place carries the event of a
\* goroutine at work.
LEMMA CarriedEvent ==
    ASSUME TypeInv, NEW x \in Positions, Carries(x)
    PROVE  x.part \in Partitions /\ x.off \in 1..Len(log[x.part]) /\ EventAt(x) \in Events
<1>1. x.part \in Partitions /\ x.off \in Nat \ {0} /\ Len(log[x.part]) \in Nat
  BY DEF Positions, TypeInv, TypeOK
<1>2. CASE Waits(x)
  BY <1>1, <1>2, LoggedMessage DEF Waits, EventAt
<1>3. ASSUME NEW g \in Goroutines, Working(g), held[g] = x
      PROVE  x.off \in 1..Len(log[x.part]) /\ EventAt(x) \in Events
  BY <1>3, HeldMessage DEF Working, Busy, EventAt, Event, Message
<1> QED BY <1>1, <1>2, <1>3 DEF Carries, Waits

LEMMA SoleCarrier ==
    ASSUME DeliversOnce, TypeInv, OwnersHold, CarriedOnce, NEW g \in Goroutines, Working(g)
    PROVE  /\ Event(g) \in Events /\ held[g] \in Positions /\ Carries(held[g])
           /\ EventAt(held[g]) = Event(g)
           /\ \A x \in Positions : Waits(x) => x # held[g] /\ EventAt(x) # Event(g)
           /\ \A h \in Goroutines : Working(h) /\ h # g => held[h] # held[g] /\ Event(h) # Event(g)
           /\ Event(g) \notin toPublish
<1>1. \A h \in Goroutines : Working(h) => /\ Busy(h) /\ held[h] \in Positions
                                          /\ Carries(held[h]) /\ EventAt(held[h]) = Event(h)
  BY DEF Working, Busy, Carries, EventAt, Event, Message, TypeInv, HeldOK
<1>2. \A h \in Goroutines : Busy(h) => /\ owner[held[h].part] = h
                                       /\ position[held[h].part] = held[h].off
  BY DEF OwnersHold, DeliversOnce
<1>3. \A x \in Positions : Carries(x) /\ EventAt(x) = Event(g) => x = held[g]
  BY <1>1 DEF CarriedOnce
<1>4. ASSUME NEW x \in Positions, Waits(x) PROVE x # held[g]
  <2>1. position[x.part] < x.off /\ position[x.part] \in Nat /\ x.off \in Nat
    BY <1>4 DEF Waits, Positions, TypeInv, TypeOK
  <2>2. position[held[g].part] = held[g].off
    BY <1>1, <1>2
  <2>3. position[x.part] # x.off
    BY <2>1
  <2> QED BY <2>2, <2>3
<1>5. \A x \in Positions : Waits(x) => x # held[g] /\ EventAt(x) # Event(g)
  BY <1>3, <1>4 DEF Carries
<1>6. \A h \in Goroutines : Working(h) /\ h # g => held[h] # held[g]
  BY <1>1, <1>2
<1>7. \A h \in Goroutines : Working(h) /\ h # g => Event(h) # Event(g)
  BY <1>1, <1>3, <1>6
<1>8. Event(g) \in Events /\ held[g].part \in Partitions /\ held[g].off \in 1..Len(log[held[g].part])
  BY <1>1, HeldMessage
<1>9. Event(g) \notin toPublish
  BY <1>8 DEF CarriedOnce, Event, Message
<1> QED BY <1>1, <1>5, <1>6, <1>7, <1>8, <1>9

LEMMA CarriedFrame ==
    ASSUME CarriedOnce, UNCHANGED log, toPublish' \subseteq toPublish,
           \A x \in Positions : Carries(x)' => Carries(x)
    PROVE  CarriedOnce'
<1>1. \A x : EventAt(x)' = EventAt(x)
  BY DEF EventAt
<1> QED BY <1>1 DEF CarriedOnce

\* A call of g that publishes nothing, and goes on to what its event is ready for.
LEMMA CallKeeps ==
    ASSUME DeliversOnce, TypeInv, OwnersHold, CarriedOnce, StagesOK, CountedOnce,
           NEW g \in Goroutines, Working(g), UNCHANGED <<log, position, held, toPublish>>,
           \A h \in Goroutines : h # g => pc'[h] = pc[h],
           \A e \in Events : e # Event(g) => status'[e] = status[e] /\ counted'[e] = counted[e],
           status'[Event(g)] # "absent", counted'[Event(g)] <= 1,
           Working(g)' => status'[Event(g)] \in StatusesAt(pc'[g])
                          /\ (pc'[g] # "setProcessed" => counted'[Event(g)] = 0)
    PROVE  CarriedOnce' /\ StagesOK' /\ CountedOnce'
<1>1. \A x : EventAt(x)' = EventAt(x) /\ (Waits(x)' <=> Waits(x)) /\ NextCall(x)' = NextCall(x)
  BY DEF EventAt, Waits, NextCall
<1>2. \A h \in Goroutines : Event(h)' = Event(h)
  BY DEF Event, Message
<1>3. \A h \in Goroutines : h # g => (Working(h)' <=> Working(h))
  BY DEF Working
<1>4. \A x \in Positions : Carries(x)' => Carries(x)
  BY <1>1, <1>3 DEF Carries
<1>5. CarriedOnce'
  BY <1>4, CarriedFrame
<1>6. ASSUME NEW call, NEW e \in Events, e # Event(g), Stage(call, e)
      PROVE  status'[e] \in StatusesAt(call) /\ (call # "setProcessed" => counted'[e] = 0)
  BY <1>6 DEF Stage
<1>7. ASSUME NEW x \in Positions, Waits(x)
      PROVE  status'[EventAt(x)] \in StatusesAt(NextCall(x))
             /\ (NextCall(x) # "setProcessed" => counted'[EventAt(x)] = 0)
  <2>1. EventAt(x) \in Events /\ EventAt(x) # Event(g)
    BY <1>7, CarriedEvent, SoleCarrier DEF Carries
  <2> QED BY <1>6, <1>7, <2>1 DEF StagesOK
<1>8. ASSUME NEW h \in Goroutines, Working(h)'
      PROVE  status'[Event(h)] \in StatusesAt(pc'[h])
             /\ (pc'[h] # "setProcessed" => counted'[Event(h)] = 0)
  <2>1. CASE h = g
    BY <1>8, <2>1
  <2>2. CASE h # g
    <3>1. Working(h) /\ Event(h) \in Events /\ Event(h) # Event(g)
      BY <1>3, <1>8, <2>2, SoleCarrier
    <3> QED BY <1>6, <2>2, <3>1 DEF StagesOK
  <2> QED BY <2>1, <2>2
<1>9. ASSUME NEW e \in toPublish
      PROVE  status'[e] \in StatusesAt("findEvent") /\ counted'[e] = 0
  <2>1. e \in Events /\ e # Event(g)
    BY SoleCarrier DEF TypeInv, TypeOK
  <2>2. Stage("findEvent", e)
    BY DEF StagesOK
  <2> QED BY <1>6, <2>1, <2>2
<1>10. \A e \in Events : (status'[e] = "absent" => counted'[e] = 0) /\ counted'[e] <= 1
  BY DEF StagesOK, CountedOnce
<1>11. StagesOK'
  BY <1>1, <1>2, <1>7, <1>8, <1>9, <1>10 DEF StagesOK, Stage
<1> QED BY <1>5, <1>10, <1>11 DEF CountedOnce

\* m was put at n, the end of a partition of the topic, and nowhere else.
PutAt(n, topic, m) ==
    /\ n.part \in topic
    /\ log'[n.part][n.off] = m
    /\ \A x \in Positions : x # n =>
         /\ Waits(x)' => Waits(x)
         /\ x.off <= Len(log[x.part]) => EventAt(x)' = EventAt(x)
    /\ n.off > Len(log[n.part])
    /\ \A p \in Partitions : \A i \in 1..Len(log'[p]) :
         \/ p = n.part /\ i = n.off
         \/ i \in 1..Len(log[p]) /\ log'[p][i] = log[p][i]

\* Publishing without a duplicate.
LEMMA AppendedOnce ==
    ASSUME DeliversOnce, TypeInv, NEW topic, topic \subseteq Partitions, NEW m \in Messages,
           Appended(topic, m), UNCHANGED position
    PROVE  \E n \in Positions : PutAt(n, topic, m)
<1>1. PICK p \in topic : log' = [log EXCEPT ![p] = Append(@, m)]
  BY DEF Appended, DeliversOnce
<1>2. p \in Partitions /\ log[p] \in Seq(Messages) /\ Len(log[p]) \in Nat
  BY DEF TypeInv, TypeOK
<1>3. /\ log'[p] = Append(log[p], m)
      /\ \A q \in Partitions : q # p => log'[q] = log[q]
  BY <1>1, <1>2 DEF TypeInv, TypeOK
<1>4. /\ Len(log'[p]) = Len(log[p]) + 1 /\ log'[p][Len(log[p]) + 1] = m
      /\ \A i \in 1..Len(log[p]) : log'[p][i] = log[p][i]
  BY <1>2, <1>3
<1> DEFINE n == [part |-> p, off |-> Len(log[p]) + 1]
<1>5. n \in Positions /\ n.part = p /\ n.off = Len(log[p]) + 1
  BY <1>2 DEF Positions
<1> HIDE DEF n
<1>6. ASSUME NEW x \in Positions, x # n
      PROVE  /\ Waits(x)' => Waits(x)
             /\ x.off <= Len(log[x.part]) => EventAt(x)' = EventAt(x)
  <2>1. x.part \in Partitions /\ x.off \in Nat \ {0} /\ x = [part |-> x.part, off |-> x.off]
    BY DEF Positions
  <2>2. CASE x.part # p
    BY <1>3, <2>1, <2>2 DEF Waits, EventAt
  <2>3. CASE x.part = p
    <3>1. x.off # Len(log[p]) + 1
      BY <1>6, <2>1, <2>3 DEF n
    <3>2. x.off <= Len(log[p]) + 1 => x.off \in 1..Len(log[p])
      BY <1>2, <2>1, <3>1
    <3>3. x.off <= Len(log[p]) => x.off \in 1..Len(log[p])
      BY <1>2, <2>1
    <3>4. x.off \in 1..Len(log[p]) => x.off <= Len(log[p])
      BY <1>2
    <3> QED BY <1>4, <2>3, <3>2, <3>3, <3>4 DEF Waits, EventAt
  <2> QED BY <2>2, <2>3
<1>7. \A q \in Partitions : \A i \in 1..Len(log'[q]) :
        \/ q = n.part /\ i = n.off
        \/ i \in 1..Len(log[q]) /\ log'[q][i] = log[q][i]
  <2> SUFFICES ASSUME NEW q \in Partitions, NEW i \in 1..Len(log'[q]), ~(q = n.part /\ i = n.off)
               PROVE  i \in 1..Len(log[q]) /\ log'[q][i] = log[q][i]
    OBVIOUS
  <2>1. CASE q # p
    BY <1>3, <2>1
  <2>2. CASE q = p
    <3>1. i \in 1..Len(log[p])
      BY <1>2, <1>4, <1>5, <2>2
    <3> QED BY <1>4, <2>2, <3>1
  <2> QED BY <2>1, <2>2
<1> QED BY <1>2, <1>4, <1>5, <1>6, <1>7 DEF PutAt

\* A message published for event m.event, which no place will carry but the new
\* one, and which is ready for the first call of the topic.
LEMMA PublishKeeps ==
    ASSUME DeliversOnce, TypeInv, CarriedOnce, StagesOK, CountedOnce,
           NEW topic \in {EventPartitions, DLQPartitions}, NEW m \in Messages,
           Appended(topic, m), UNCHANGED <<status, counted, position, held>>,
           toPublish' \subseteq toPublish, m.event \notin toPublish',
           \A h \in Goroutines : Working(h)' => Working(h) /\ pc'[h] = pc[h],
           \A x \in Positions : Waits(x) => EventAt(x) # m.event,
           \A h \in Goroutines : Working(h)' => Event(h) # m.event,
           \A n : n.part \in topic => Stage(NextCall(n), m.event)
    PROVE  CarriedOnce' /\ StagesOK' /\ CountedOnce'
<1>1. topic \subseteq Partitions
  BY DEF Partitions
<1>2. UNCHANGED position
  OBVIOUS
<1> PICK n \in Positions : PutAt(n, topic, m)
  BY <1>1, <1>2, AppendedOnce
<1>3. ASSUME NEW h \in Goroutines, Working(h)'
      PROVE  /\ Working(h) /\ pc'[h] = pc[h] /\ held[h] \in Positions /\ held[h] # n
             /\ EventAt(held[h]) = Event(h)
             /\ Event(h)' = Event(h) /\ EventAt(held[h])' = Event(h)
  <2>1. Working(h) /\ pc'[h] = pc[h] /\ Busy(h) /\ held[h] \in Positions
    BY <1>3 DEF Working, Busy, TypeInv, HeldOK
  <2>2. /\ held[h].part \in Partitions /\ held[h].off \in 1..Len(log[held[h].part])
        /\ held[h].off \in Nat /\ Len(log[held[h].part]) \in Nat
    BY <2>1, HeldMessage DEF TypeInv, TypeOK
  <2>3. held[h].off <= Len(log[held[h].part])
    BY <2>2
  <2>4. held[h] # n
    BY <2>2, <2>3 DEF PutAt
  <2>5. EventAt(held[h])' = EventAt(held[h])
    BY <2>1, <2>3, <2>4 DEF PutAt
  <2> QED BY <2>1, <2>4, <2>5 DEF EventAt, Event, Message
<1>4. ASSUME NEW x \in Positions, Waits(x)', x # n
      PROVE  Waits(x) /\ EventAt(x)' = EventAt(x) /\ EventAt(x) # m.event
  BY <1>4 DEF Waits, PutAt
<1>5. EventAt(n)' = m.event
  BY DEF EventAt, PutAt
<1>6. ASSUME NEW x \in Positions, Carries(x)', x # n
      PROVE  Carries(x) /\ EventAt(x)' = EventAt(x) /\ EventAt(x) # m.event
  <2>1. CASE Waits(x)'
    BY <1>4, <1>6, <2>1 DEF Carries
  <2>2. ASSUME NEW h \in Goroutines, Working(h)', held'[h] = x
        PROVE  Carries(x) /\ EventAt(x)' = EventAt(x) /\ EventAt(x) # m.event
    BY <1>3, <2>2 DEF Carries
  <2> QED BY <1>6, <2>1, <2>2 DEF Carries
<1>7. ASSUME NEW x \in Positions, NEW y \in Positions, Carries(x)', Carries(y)',
             EventAt(x)' = EventAt(y)'
      PROVE  x = y
  <2>1. CASE x = n
    BY <1>5, <1>6, <1>7, <2>1
  <2>2. CASE y = n
    BY <1>5, <1>6, <1>7, <2>2
  <2>3. CASE x # n /\ y # n
    BY <1>6, <1>7, <2>3 DEF CarriedOnce
  <2> QED BY <2>1, <2>2, <2>3
<1>8. ASSUME NEW e \in toPublish', NEW p \in Partitions, NEW i \in 1..Len(log'[p])
      PROVE  log'[p][i].event # e
  BY <1>8 DEF CarriedOnce, PutAt
<1>9. ASSUME NEW x \in Positions, Waits(x)' PROVE Stage(NextCall(x), EventAt(x))'
  <2>1. CASE x = n
    BY <1>5, <2>1 DEF Stage, NextCall, PutAt
  <2>2. CASE x # n
    BY <1>4, <1>9, <2>2 DEF StagesOK, Stage, NextCall
  <2> QED BY <2>1, <2>2
<1>10. ASSUME NEW h \in Goroutines, Working(h)' PROVE Stage(pc[h], Event(h))'
  BY <1>3, <1>10 DEF StagesOK, Stage
<1>11. (\A e \in toPublish : Stage("findEvent", e))'
  BY DEF StagesOK, Stage
<1>12. CarriedOnce'
  BY <1>7, <1>8 DEF CarriedOnce
<1>13. StagesOK'
  BY <1>9, <1>10, <1>11 DEF StagesOK
<1> QED BY <1>12, <1>13 DEF CountedOnce

\* Nothing is published, and no call is made.
LEMMA CarriersMove ==
    ASSUME CarriedOnce, StagesOK, CountedOnce, UNCHANGED <<log, status, counted>>,
           toPublish' \subseteq toPublish,
           \A x \in Positions : Carries(x)' => Carries(x),
           \A x \in Positions : Waits(x)' => Waits(x),
           \A h \in Goroutines : Working(h)' =>
               \/ pc'[h] = pc[h] /\ held'[h] = held[h]
               \/ \E x \in Positions : Waits(x) /\ held'[h] = x /\ pc'[h] = NextCall(x)
    PROVE  CarriedOnce' /\ StagesOK' /\ CountedOnce'
<1>1. CarriedOnce'
  BY CarriedFrame
<1>2. \A call, e : Stage(call, e)' <=> Stage(call, e)
  BY DEF Stage
<1>3. \A x : EventAt(x)' = EventAt(x) /\ NextCall(x)' = NextCall(x)
  BY DEF EventAt, NextCall
<1>4. ASSUME NEW h \in Goroutines, Working(h)' PROVE Stage(pc'[h], Event(h)')
  <2>1. CASE pc'[h] = pc[h] /\ held'[h] = held[h]
    BY <1>4, <2>1 DEF StagesOK, Event, Message, Working
  <2>2. ASSUME NEW x \in Positions, Waits(x), held'[h] = x, pc'[h] = NextCall(x)
        PROVE  Stage(pc'[h], Event(h)')
    BY <2>2 DEF StagesOK, EventAt, Event, Message
  <2> QED BY <1>4, <2>1, <2>2
<1>5. \A h \in Goroutines : Working(h)' => Stage(pc[h], Event(h))'
  BY <1>4 DEF Stage
<1>6. StagesOK'
  BY <1>2, <1>3, <1>5 DEF StagesOK
<1> QED BY <1>1, <1>6 DEF CountedOnce

-----------------------------------------------------------------------------
\* One call of UpdateStatus: where it leaves the goroutine and the event.
LEMMA UpdateShape ==
    ASSUME TypeInv, NEW g \in Goroutines, Busy(g), NEW new, NEW ok, NEW err,
           UpdateStatus(g, new, ok, err)
    PROVE  /\ \/ pc'[g] = ok /\ status'[Event(g)] = new
              \/ pc'[g] = err /\ status'[Event(g)] \in {status[Event(g)], new}
           /\ \A h \in Goroutines : h # g => pc'[h] = pc[h]
           /\ \A e \in Events : e # Event(g) => status'[e] = status[e]
           /\ UNCHANGED <<log, position, held, toPublish, counted>>
<1>1. Event(g) \in Events
  BY HeldMessage
<1> QED BY <1>1 DEF UpdateStatus, Continue, TypeInv, TypeOK, broker

\* The calls that publish nothing keep the invariant.
LEMMA OnceCall ==
    ASSUME DeliversOnce, TypeInv, OnceInv, NEW g \in Goroutines,
           \/ FindEvent(g) \/ WriteEvent(g) \/ IncrementRetry(g)
           \/ SetProcessing(g) \/ SetProcessed(g) \/ SetFailed(g) \/ MarkFailed(g)
    PROVE  CarriedOnce' /\ StagesOK' /\ CountedOnce'
<1>1. Working(g) /\ Busy(g)
  BY DEF FindEvent, FindEventUnless, WriteEvent, IncrementRetry, SetProcessing, SetProcessed, SetFailed,
         MarkFailed, Working, Busy, Calls, ProcessorCalls
<1>2. Event(g) \in Events
  BY <1>1, HeldMessage
<1>3. /\ status[Event(g)] \in StatusesAt(pc[g]) /\ counted[Event(g)] \in Nat
      /\ pc[g] # "setProcessed" => counted[Event(g)] = 0
      /\ counted[Event(g)] <= 1
  BY <1>1, <1>2 DEF OnceInv, StagesOK, Stage, CountedOnce, TypeInv, TypeOK
<1> DEFINE Ready(call, s, n) == s \in StatusesAt(call) /\ (call # "setProcessed" => n = 0)
<1>4. ASSUME UNCHANGED <<log, position, held, toPublish>>,
             \A h \in Goroutines : h # g => pc'[h] = pc[h],
             \A e \in Events : e # Event(g) => status'[e] = status[e] /\ counted'[e] = counted[e],
             status'[Event(g)] # "absent", counted'[Event(g)] <= 1,
             Working(g)' => Ready(pc'[g], status'[Event(g)], counted'[Event(g)])
      PROVE  CarriedOnce' /\ StagesOK' /\ CountedOnce'
  <2> HIDE DEF OnceInv
  <2> QED BY <1>1, <1>4, CallKeeps DEF OnceInv
<1> HIDE DEF Ready
<1>5. CASE FindEvent(g)
  <2>1. pc[g] = "findEvent" /\ status[Event(g)] \in {"pending", "processing"}
    BY <1>3, <1>5 DEF FindEvent, FindEventUnless, StatusesAt
  <2>2. pc'[g] \in {"setProcessing", "incrementRetry"} /\ \A h \in Goroutines : h # g => pc'[h] = pc[h]
    BY <1>5, <2>1 DEF FindEvent, FindEventUnless, Continue, TypeInv, TypeOK, Terminal
  <2>3. UNCHANGED <<log, position, held, toPublish, status, counted>>
    BY <1>5 DEF FindEvent, FindEventUnless, broker, store
  <2>4. Ready(pc'[g], status'[Event(g)], counted'[Event(g)])
    BY <1>3, <2>1, <2>2, <2>3 DEF Ready, StatusesAt
  <2> QED BY <1>3, <1>4, <2>1, <2>2, <2>3, <2>4
<1>6. CASE WriteEvent(g)
  <2>1. pc[g] = "writeEvent" /\ status[Event(g)] = "processing" /\ counted[Event(g)] = 0
    BY <1>3, <1>6 DEF WriteEvent, StatusesAt
  <2>2. pc'[g] = "setProcessed" /\ \A h \in Goroutines : h # g => pc'[h] = pc[h]
    BY <1>6 DEF WriteEvent, Continue, TypeInv, TypeOK
  <2>3. UNCHANGED <<log, position, held, toPublish, status>>
    BY <1>6 DEF WriteEvent, broker
  <2>4. counted' = counted \/ counted' = [counted EXCEPT ![Event(g)] = @ + 1]
    BY <1>6 DEF WriteEvent
  <2>5. /\ \A e \in Events : e # Event(g) => counted'[e] = counted[e]
        /\ counted'[Event(g)] \in {0, 1}
    BY <1>2, <2>1, <2>4 DEF TypeInv, TypeOK
  <2>6. Ready(pc'[g], status'[Event(g)], counted'[Event(g)])
    BY <2>1, <2>2, <2>3 DEF Ready, StatusesAt
  <2>7. counted'[Event(g)] <= 1
    BY <2>5
  <2> QED BY <1>4, <2>1, <2>2, <2>3, <2>5, <2>6, <2>7
<1>7. CASE IncrementRetry(g)
  <2>1. pc[g] = "incrementRetry" /\ status[Event(g)] \in {"pending", "processing"}
    BY <1>3, <1>7 DEF IncrementRetry, StatusesAt
  <2>2. pc'[g] \in {"setFailed", "publishRetry"} /\ \A h \in Goroutines : h # g => pc'[h] = pc[h]
    BY <1>7 DEF IncrementRetry, AfterIncrement, Continue, TypeInv, TypeOK
  <2>3. UNCHANGED <<log, position, held, toPublish, status, counted>>
    BY <1>7 DEF IncrementRetry, broker
  <2>4. Ready(pc'[g], status'[Event(g)], counted'[Event(g)])
    BY <1>3, <2>1, <2>2, <2>3 DEF Ready, StatusesAt
  <2> QED BY <1>3, <1>4, <2>1, <2>2, <2>3, <2>4
<1>8. ASSUME NEW new \in Statuses \ {"absent"}, NEW ok, NEW err, UpdateStatus(g, new, ok, err),
             ok \in Calls \ {"commit"} => Ready(ok, new, counted[Event(g)]),
             err \in Calls \ {"commit"} => Ready(err, new, counted[Event(g)])
                                           /\ Ready(err, status[Event(g)], counted[Event(g)])
      PROVE  CarriedOnce' /\ StagesOK' /\ CountedOnce'
  <2>1. /\ \/ pc'[g] = ok /\ status'[Event(g)] = new
           \/ pc'[g] = err /\ status'[Event(g)] \in {status[Event(g)], new}
        /\ \A h \in Goroutines : h # g => pc'[h] = pc[h]
        /\ \A e \in Events : e # Event(g) => status'[e] = status[e]
        /\ UNCHANGED <<log, position, held, toPublish, counted>>
    BY <1>1, <1>8, UpdateShape
  <2>2. status'[Event(g)] # "absent"
    BY <1>3, <2>1 DEF StatusesAt
  <2>3. Working(g)' => Ready(pc'[g], status'[Event(g)], counted'[Event(g)])
    BY <1>8, <2>1 DEF Working
  <2> QED BY <1>3, <1>4, <2>1, <2>2, <2>3
<1>9. CASE SetProcessing(g)
  <2>1. pc[g] = "setProcessing" /\ UpdateStatus(g, "processing", "writeEvent", "incrementRetry")
    BY <1>9 DEF SetProcessing
  <2>2. /\ Ready("writeEvent", "processing", counted[Event(g)])
        /\ Ready("incrementRetry", "processing", counted[Event(g)])
        /\ Ready("incrementRetry", status[Event(g)], counted[Event(g)])
    BY <1>3, <2>1 DEF Ready, StatusesAt
  <2> QED BY <1>8, <2>1, <2>2 DEF Statuses
<1>10. CASE SetProcessed(g)
  BY <1>8, <1>10 DEF SetProcessed, Statuses
<1>11. CASE SetFailed(g)
  <2>1. pc[g] = "setFailed" /\ UpdateStatus(g, "failed", "publishDLQ", "publishDLQ")
    BY <1>11 DEF SetFailed
  <2>2. /\ Ready("publishDLQ", "failed", counted[Event(g)])
        /\ Ready("publishDLQ", status[Event(g)], counted[Event(g)])
    BY <1>3, <2>1 DEF Ready, StatusesAt
  <2> QED BY <1>8, <2>1, <2>2 DEF Statuses
<1>12. CASE MarkFailed(g)
  BY <1>8, <1>12 DEF MarkFailed, Statuses
<1> QED BY <1>5, <1>6, <1>7, <1>9, <1>10, <1>11, <1>12

LEMMA OncePublish ==
    ASSUME DeliversOnce, TypeInv, OnceInv, NEW g \in Goroutines,
           NEW topic \in {EventPartitions, DLQPartitions}, NEW m \in Messages,
           m.event = Event(g), Publish(g, topic, m),
           \/ pc[g] = "publishRetry" /\ topic = EventPartitions
           \/ pc[g] = "publishDLQ" /\ topic = DLQPartitions
    PROVE  CarriedOnce' /\ StagesOK' /\ CountedOnce'
<1>1. Working(g) /\ Busy(g)
  BY DEF Working, Busy, Calls, ProcessorCalls
<1>2. \A h \in Goroutines : pc'[h] = IF h = g THEN "commit" ELSE pc[h]
  BY DEF Publish, Continue, TypeInv, TypeOK
<1>3. UNCHANGED <<status, counted, position, held, toPublish>>
  BY DEF Publish, store
<1>4. \A h \in Goroutines : Working(h)' => Working(h) /\ pc'[h] = pc[h] /\ h # g
  BY <1>2 DEF Working
<1>5. /\ \A x \in Positions : Waits(x) => EventAt(x) # Event(g)
      /\ \A h \in Goroutines : Working(h) /\ h # g => Event(h) # Event(g)
      /\ Event(g) \notin toPublish
  BY <1>1, SoleCarrier DEF OnceInv
<1>6. Stage(pc[g], Event(g))
  BY <1>1 DEF OnceInv, StagesOK
<1>7. CASE Appended(topic, m)
  <2>1. ASSUME NEW n, n.part \in topic PROVE Stage(NextCall(n), m.event)
    BY <1>6, <2>1, PipelineAssumption DEF Stage, NextCall, StatusesAt
  <2>2. CarriedOnce /\ StagesOK /\ CountedOnce
    BY DEF OnceInv
  <2>3. /\ UNCHANGED <<status, counted, position, held>>
        /\ toPublish' \subseteq toPublish /\ m.event \notin toPublish'
        /\ \A h \in Goroutines : Working(h)' => Working(h) /\ pc'[h] = pc[h]
        /\ \A x \in Positions : Waits(x) => EventAt(x) # m.event
        /\ \A h \in Goroutines : Working(h)' => Event(h) # m.event
    BY <1>3, <1>4, <1>5
  <2> QED BY <1>7, <2>1, <2>2, <2>3, PublishKeeps
<1>8. CASE UNCHANGED log
  <2>1. \A x : Waits(x)' <=> Waits(x)
    BY <1>3, <1>8 DEF Waits
  <2>2. \A x \in Positions : Carries(x)' => Carries(x)
    BY <1>3, <1>4, <2>1 DEF Carries
  <2>3. CarriedOnce /\ StagesOK /\ CountedOnce
    BY DEF OnceInv
  <2>4. \A h \in Goroutines : Working(h)' => pc'[h] = pc[h] /\ held'[h] = held[h]
    BY <1>3, <1>4
  <2> QED BY <1>3, <1>8, <2>1, <2>2, <2>3, <2>4, CarriersMove
<1> QED BY <1>7, <1>8 DEF Publish

LEMMA OnceInsert ==
    ASSUME TypeInv, OnceInv, NEW e \in Events, Insert(e)
    PROVE  CarriedOnce' /\ StagesOK' /\ CountedOnce'
<1>1. /\ UNCHANGED <<log, position, pc, held, counted>> /\ toPublish' = toPublish \cup {e}
      /\ status[e] = "absent" /\ status'[e] = "pending"
      /\ \A f \in Events : f # e => status'[f] = status[f]
  BY DEF Insert, broker, procs, TypeInv, TypeOK
<1>2. \A x : EventAt(x)' = EventAt(x) /\ (Waits(x)' <=> Waits(x)) /\ NextCall(x)' = NextCall(x)
  BY <1>1 DEF EventAt, Waits, NextCall
<1>3. \A h \in Goroutines : (Working(h)' <=> Working(h)) /\ Event(h)' = Event(h)
  BY <1>1 DEF Working, Event, Message
<1>4. \A x : Carries(x)' <=> Carries(x)
  BY <1>1, <1>2, <1>3 DEF Carries
<1>5. \A p \in Partitions : \A i \in 1..Len(log[p]) : log[p][i].event # e
  BY <1>1 DEF OnceInv, RowsExist
<1>6. CarriedOnce'
  BY <1>1, <1>2, <1>4, <1>5 DEF OnceInv, CarriedOnce
<1>7. \A x \in Positions : Carries(x) => EventAt(x) \in Events /\ EventAt(x) # e
  BY <1>5, CarriedEvent DEF EventAt
<1>8. \A h \in Goroutines : Working(h) => Event(h) \in Events /\ Event(h) # e
  BY <1>5, HeldMessage DEF Working, Busy, Event, Message
<1>9. \A call : \A f \in Events : f # e /\ Stage(call, f) => Stage(call, f)'
  BY <1>1 DEF Stage
<1>10. \A x \in Positions : Waits(x)' => Stage(NextCall(x), EventAt(x))'
  <2> SUFFICES ASSUME NEW x \in Positions, Waits(x) PROVE Stage(NextCall(x), EventAt(x))'
    BY <1>2
  <2>1. EventAt(x) \in Events /\ EventAt(x) # e /\ Stage(NextCall(x), EventAt(x))
    BY <1>7 DEF Carries, OnceInv, StagesOK
  <2>2. status'[EventAt(x)] = status[EventAt(x)]
    BY <1>1, <2>1
  <2> QED BY <1>1, <1>2, <2>1, <2>2 DEF Stage
<1>11. \A h \in Goroutines : Working(h)' => Stage(pc[h], Event(h))'
  <2> SUFFICES ASSUME NEW h \in Goroutines, Working(h) PROVE Stage(pc[h], Event(h))'
    BY <1>3
  <2>1. Event(h) \in Events /\ Event(h) # e /\ Stage(pc[h], Event(h))
    BY <1>8 DEF OnceInv, StagesOK
  <2>2. status'[Event(h)] = status[Event(h)]
    BY <1>1, <2>1
  <2> QED BY <1>1, <1>3, <2>1, <2>2 DEF Stage
<1>12. counted[e] = 0
  BY <1>1 DEF OnceInv, StagesOK
<1>13. ASSUME NEW f \in toPublish' PROVE status'[f] \in StatusesAt("findEvent") /\ counted'[f] = 0
  <2>1. CASE f = e
    BY <1>1, <1>12, <2>1 DEF StatusesAt
  <2>2. CASE f # e
    <3>1. f \in toPublish /\ f \in Events
      BY <1>1, <2>2 DEF TypeInv, TypeOK
    <3> QED BY <1>1, <2>2, <3>1 DEF OnceInv, StagesOK, Stage
  <2> QED BY <2>1, <2>2
<1>14. \A f \in Events : status'[f] = "absent" => counted'[f] = 0
  BY <1>1 DEF OnceInv, StagesOK
<1>15. StagesOK'
  BY <1>10, <1>11, <1>13, <1>14 DEF StagesOK, Stage
<1> QED BY <1>1, <1>6, <1>15 DEF OnceInv, CountedOnce

LEMMA OncePublishNew ==
    ASSUME DeliversOnce, TypeInv, OnceInv, NEW e \in Events, PublishNew(e)
    PROVE  CarriedOnce' /\ StagesOK' /\ CountedOnce'
<1> DEFINE m == [event |-> e, attempt |-> 1]
<1>1. m \in Messages /\ m.event = e
  BY DEF Messages
<1>2. /\ UNCHANGED <<status, counted, position, pc, held>>
      /\ e \in toPublish /\ toPublish' = toPublish \ {e}
      /\ Appended(EventPartitions, m) \/ UNCHANGED log
  BY DEF PublishNew, store, procs
<1> HIDE DEF m
<1>3. CarriedOnce /\ StagesOK /\ CountedOnce /\ OwnersHold
  BY DEF OnceInv
<1>4. \A h \in Goroutines : (Working(h)' <=> Working(h)) /\ pc'[h] = pc[h] /\ held'[h] = held[h]
  BY <1>2 DEF Working
<1>5. CASE Appended(EventPartitions, m)
  <2>1. \A x \in Positions : Waits(x) => EventAt(x) # e
    BY <1>2, <1>3, CarriedEvent DEF Carries, CarriedOnce, EventAt
  <2>2. \A h \in Goroutines : Working(h) => Event(h) # e
    BY <1>2, <1>3, SoleCarrier
  <2>3. \A n : n.part \in EventPartitions => Stage(NextCall(n), e)
    BY <1>2, <1>3 DEF NextCall, StagesOK
  <2>4. /\ UNCHANGED <<status, counted, position, held>>
        /\ toPublish' \subseteq toPublish /\ m.event \notin toPublish'
        /\ \A h \in Goroutines : Working(h)' => Working(h) /\ pc'[h] = pc[h]
        /\ \A x \in Positions : Waits(x) => EventAt(x) # m.event
        /\ \A h \in Goroutines : Working(h)' => Event(h) # m.event
        /\ \A n : n.part \in EventPartitions => Stage(NextCall(n), m.event)
    BY <1>1, <1>2, <1>4, <2>1, <2>2, <2>3
  <2> QED BY <1>1, <1>3, <1>5, <2>4, PublishKeeps
<1>6. CASE UNCHANGED log
  <2>1. \A x : Waits(x)' <=> Waits(x)
    BY <1>2, <1>6 DEF Waits
  <2>2. \A x \in Positions : Carries(x)' => Carries(x)
    BY <1>2, <1>4, <2>1 DEF Carries
  <2> QED BY <1>2, <1>3, <1>4, <1>6, <2>1, <2>2, CarriersMove
<1> QED BY <1>2, <1>5, <1>6

LEMMA OnceFetch ==
    ASSUME TypeInv, OnceInv, NEW g \in Goroutines, Fetch(g)
    PROVE  CarriedOnce' /\ StagesOK' /\ CountedOnce'
<1>1. PICK p \in PartitionsOf(g) :
        /\ owner[p] = g /\ position[p] < Len(log[p])
        /\ position' = [position EXCEPT ![p] = @ + 1]
        /\ held' = [held EXCEPT ![g] = [part |-> p, off |-> position[p] + 1]]
  BY DEF Fetch, FetchMessage
<1>2. p \in Partitions /\ position[p] \in Nat /\ Len(log[p]) \in Nat
  BY DEF PartitionsOf, Partitions, TypeInv, TypeOK
<1> DEFINE x == [part |-> p, off |-> position[p] + 1]
<1>3. x \in Positions /\ x.part = p /\ x.off = position[p] + 1
  BY <1>2 DEF Positions
<1>4. held'[g] = x /\ \A h \in Goroutines : h # g => held'[h] = held[h]
  BY <1>1 DEF TypeInv, TypeOK
<1> HIDE DEF x
<1>5. UNCHANGED <<log, status, counted, toPublish>>
  BY DEF Fetch, FetchMessage, store
<1>6. /\ pc'[g] = NextCall(x)
      /\ \A h \in Goroutines : h # g => pc'[h] = pc[h]
  <2>1. (g[2] = "processor" <=> p \in EventPartitions)
    BY PipelineAssumption DEF PartitionsOf
  <2>2. Continue(g, IF g[2] = "processor" THEN "findEvent" ELSE "markFailed")
    BY DEF Fetch, FetchMessage
  <2> QED BY <1>3, <2>1, <2>2 DEF Continue, NextCall, TypeInv, TypeOK
<1>7. Waits(x)
  BY <1>1, <1>2, <1>3 DEF Waits
<1>8. ASSUME NEW y \in Positions, Waits(y)' PROVE Waits(y)
  <2>1. y.part \in Partitions /\ y.off \in Nat
    BY DEF Positions
  <2>2. position'[y.part] = position[y.part] \/ position'[y.part] = position[y.part] + 1
    BY <1>1, <2>1 DEF TypeInv, TypeOK
  <2>3. position[y.part] \in Nat
    BY <2>1 DEF TypeInv, TypeOK
  <2>4. position[y.part] < y.off
    BY <1>8, <2>1, <2>2, <2>3 DEF Waits
  <2> QED BY <1>5, <1>8, <2>4 DEF Waits
<1>9. ASSUME NEW y \in Positions, Carries(y)' PROVE Carries(y)
  <2>1. ASSUME NEW h \in Goroutines, Working(h)', held'[h] = y PROVE Carries(y)
    <3>1. CASE h = g
      BY <1>4, <1>7, <2>1, <3>1 DEF Carries
    <3>2. CASE h # g
      BY <1>4, <1>6, <2>1, <3>2 DEF Carries, Working
    <3> QED BY <3>1, <3>2
  <2> QED BY <1>8, <1>9, <2>1 DEF Carries
<1>10. ASSUME NEW h \in Goroutines
       PROVE \/ pc'[h] = pc[h] /\ held'[h] = held[h]
             \/ \E y \in Positions : Waits(y) /\ held'[h] = y /\ pc'[h] = NextCall(y)
  BY <1>3, <1>4, <1>6, <1>7
<1>11. CarriedOnce /\ StagesOK /\ CountedOnce
  BY DEF OnceInv
<1> QED BY <1>5, <1>8, <1>9, <1>10, <1>11, CarriersMove

LEMMA OnceStep == ASSUME DeliversOnce, TypeInv, OnceInv, [Next]_vars PROVE OnceInv'
<1>1. NeverStopped' /\ RowsExist' /\ OwnersHold' /\ NeverGivenUp' /\ DeadWereQueued'
  BY NeverStoppedStep, RowsStep, OwnersStep, GivenUpStep, DeadStep DEF OnceInv, DeliversOnce
<1>2. CarriedOnce /\ StagesOK /\ CountedOnce
  BY DEF OnceInv
<1>3. ASSUME UNCHANGED <<log, status, counted, position, held, toPublish>>,
             \A h \in Goroutines : pc'[h] = pc[h] \/ pc'[h] \notin Calls
      PROVE  CarriedOnce' /\ StagesOK' /\ CountedOnce'
  <2>1. \A x : Waits(x)' <=> Waits(x)
    BY <1>3 DEF Waits
  <2>2. \A h \in Goroutines : Working(h)' => Working(h) /\ pc'[h] = pc[h] /\ held'[h] = held[h]
    BY <1>3 DEF Working
  <2>3. \A x \in Positions : Carries(x)' => Carries(x)
    BY <1>3, <2>1, <2>2 DEF Carries
  <2> QED BY <1>2, <1>3, <2>1, <2>2, <2>3, CarriersMove
<1>4. ASSUME NEW p \in Partitions, NEW g \in Goroutines, Assign(p, g)
      PROVE  CarriedOnce' /\ StagesOK' /\ CountedOnce'
  <2>1. position' = position
    BY <1>4 DEF Assign, OnceInv, NeverGivenUp, TypeInv, TypeOK
  <2> QED BY <1>3, <1>4, <2>1 DEF Assign, store, procs
<1>5. ASSUME NEW g \in Goroutines, CommitMessages(g)
      PROVE  CarriedOnce' /\ StagesOK' /\ CountedOnce'
  <2>1. /\ pc[g] = "commit" /\ pc'[g] \notin Calls
        /\ \A h \in Goroutines : h # g => pc'[h] = pc[h] /\ held'[h] = held[h]
        /\ UNCHANGED <<log, status, counted, position, toPublish>>
    BY <1>5 DEF CommitMessages, Continue, TypeInv, TypeOK, store, Calls, ProcessorCalls
  <2>2. \A x : Waits(x)' <=> Waits(x)
    BY <2>1 DEF Waits
  <2>3. \A h \in Goroutines : Working(h)' => Working(h) /\ pc'[h] = pc[h] /\ held'[h] = held[h]
    BY <2>1 DEF Working
  <2>4. \A x \in Positions : Carries(x)' => Carries(x)
    BY <2>2, <2>3 DEF Carries
  <2> QED BY <1>2, <2>1, <2>2, <2>3, <2>4, CarriersMove
<1>6. ASSUME NEW g \in Goroutines, Process(g)
      PROVE  CarriedOnce' /\ StagesOK' /\ CountedOnce'
  <2>1. CASE PublishRetry(g)
    <3> DEFINE m == [event |-> Event(g), attempt |-> Message(g).attempt + 1]
    <3>1. Busy(g) /\ pc[g] = "publishRetry" /\ Publish(g, EventPartitions, m)
      BY <2>1 DEF PublishRetry, Busy, Calls, ProcessorCalls
    <3>2. m \in Messages /\ m.event = Event(g)
      BY <3>1, HeldMessage DEF Messages
    <3> HIDE DEF m
    <3> QED BY <3>1, <3>2, OncePublish
  <2>2. CASE PublishToDLQ(g)
    <3>1. Busy(g) /\ pc[g] = "publishDLQ" /\ Publish(g, DLQPartitions, Message(g))
      BY <2>2 DEF PublishToDLQ, Busy, Calls, ProcessorCalls
    <3>2. Message(g) \in Messages /\ Message(g).event = Event(g)
      BY <3>1, HeldMessage DEF Event
    <3> QED BY <3>1, <3>2, OncePublish
  <2> QED BY <1>5, <1>6, <2>1, <2>2, OnceCall DEF Process
<1>7. ASSUME UNCHANGED vars PROVE CarriedOnce' /\ StagesOK' /\ CountedOnce'
  <2>1. /\ UNCHANGED <<log, status, counted, position, held, toPublish>>
        /\ pc' = pc
    BY <1>7 DEF vars, store, broker, procs
  <2>2. \A h \in Goroutines : pc'[h] = pc[h] \/ pc'[h] \notin Calls
    BY <2>1
  <2> QED BY <1>3, <2>1, <2>2
<1>8. CarriedOnce' /\ StagesOK' /\ CountedOnce'
  <2> DEFINE Goal == CarriedOnce' /\ StagesOK' /\ CountedOnce'
  <2>1. NeverStopped
    BY DEF OnceInv
  <2>2. \A e \in Events : Insert(e) \/ PublishNew(e) => Goal
    BY OnceInsert, OncePublishNew
  <2>3. \A g \in Goroutines : Fetch(g) => Goal
    BY OnceFetch
  <2>5. \A p \in Partitions, g \in Goroutines : Assign(p, g) => Goal
    BY <1>4
  <2>6. \A g \in Goroutines : Process(g) => Goal
    BY <1>6
  <2>7. UNCHANGED vars => Goal
    BY <1>7
  <2>4. \/ \E e \in Events : Insert(e) \/ PublishNew(e)
        \/ \E p \in Partitions, g \in Goroutines : Assign(p, g)
        \/ \E g \in Goroutines : Fetch(g) \/ Process(g)
        \/ UNCHANGED vars
    BY <2>1, OnceSteps
  <2> HIDE DEF Goal
  <2>8. Goal
    BY <2>2, <2>3, <2>4, <2>5, <2>6, <2>7
  <2> QED BY <2>8 DEF Goal
<1> QED BY <1>1, <1>8 DEF OnceInv

LEMMA OnceInvariant == ASSUME DeliversOnce PROVE Spec => [](TypeInv /\ OnceInv)
<1>1. Init => TypeInv /\ OnceInv
  <2> SUFFICES ASSUME Init PROVE OnceInv
    BY TypeInit
  <2>1. NeverStopped /\ OwnersHold /\ RowsExist
    BY DeliveryInit DEF DeliveryInv
  <2>2. /\ \A p \in Partitions : log[p] = << >> /\ position[p] = 0 /\ committed[p] = 0
        /\ toPublish = {} /\ \A g \in Goroutines : pc[g] = "fetch"
        /\ \A e \in Events : counted[e] = 0
    BY DEF Init
  <2>3. \A x \in Positions : ~Carries(x)
    BY <2>2 DEF Carries, Waits, Working, Positions, Calls, ProcessorCalls
  <2>4. CarriedOnce
    BY <2>2, <2>3 DEF CarriedOnce
  <2>5. StagesOK
    BY <2>2, <2>3 DEF StagesOK, Carries, Working, Calls, ProcessorCalls
  <2>6. NeverGivenUp /\ CountedOnce
    BY <2>2 DEF NeverGivenUp, CountedOnce
  <2>7. DeadWereQueued
    BY <2>2 DEF DeadWereQueued, Partitions
  <2> QED BY <2>1, <2>4, <2>5, <2>6, <2>7 DEF OnceInv
<1>2. TypeInv /\ OnceInv /\ [Next]_vars => TypeInv' /\ OnceInv'
  BY TypeStep, OnceStep
<1> QED BY <1>1, <1>2, PTL DEF Spec

\* Where nothing is delivered twice, the daily statistics count no event twice,
\* however its calls fail and however often it is retried.
THEOREM AlwaysCountedOnce == ASSUME DeliversOnce PROVE Spec => []CountedOnce
<1>1. OnceInv => CountedOnce
  BY DEF OnceInv
<1> QED BY <1>1, OnceInvariant, PTL

-----------------------------------------------------------------------------
(* The refinement of EventLifecycle, step by step.                           *)

QueuedEvents == {e \in Events : Queued(e)}

\* A step that publishes nothing to the events topic leaves the queued events.
LEMMA QueuedFrame ==
    ASSUME \A p \in EventPartitions : log'[p] = log[p]
    PROVE  QueuedEvents' = QueuedEvents
BY DEF QueuedEvents, Queued

\* An event a goroutine works on was queued.
LEMMA WorkedOnIsQueued ==
    ASSUME TypeInv, DeadWereQueued, NEW g \in Goroutines, Busy(g)
    PROVE  Event(g) \in QueuedEvents
<1>1. /\ held[g].part \in Partitions /\ held[g].off \in 1..Len(log[held[g].part])
      /\ Event(g) \in Events
  BY HeldMessage
<1>2. Queued(Event(g))
  <2>1. CASE held[g].part \in EventPartitions
    BY <1>1, <2>1 DEF Queued, Event, Message
  <2>2. CASE held[g].part \in DLQPartitions
    BY <1>1, <2>2 DEF DeadWereQueued, Event, Message
  <2> QED BY <1>1, <2>1, <2>2 DEF Partitions
<1> QED BY <1>1, <1>2 DEF QueuedEvents

\* A message for an event that was queued before adds none to the queued ones.
LEMMA QueuedGrows ==
    ASSUME TypeInv, NEW m \in Messages, Appended(EventPartitions, m)
    PROVE  QueuedEvents' = QueuedEvents \cup {m.event}
<1>1. EventPartitions \subseteq Partitions
  BY DEF Partitions
<1>2. PICK p \in EventPartitions : /\ Grown(log[p], log'[p], m)
                                   /\ \A q \in Partitions : q # p => log'[q] = log[q]
  BY <1>1, AppendedGrows DEF TypeInv
<1>3. Len(log[p]) \in Nat /\ Len(log'[p]) \in Nat /\ m.event \in Events
  BY <1>1, <1>2 DEF TypeInv, TypeOK, Grown, Messages
<1>4. \A i \in 1..Len(log'[p]) : \/ i \in 1..Len(log[p]) /\ log'[p][i] = log[p][i]
                                 \/ log'[p][i] = m
  <2>1. \A i \in 1..Len(log'[p]) : i \in 1..Len(log[p]) \/ i \in Len(log[p]) + 1..Len(log'[p])
    BY <1>3
  <2> QED BY <1>2, <2>1 DEF Grown
<1>5. /\ \A i \in 1..Len(log[p]) : i \in 1..Len(log'[p]) /\ log'[p][i] = log[p][i]
      /\ Len(log'[p]) \in 1..Len(log'[p]) /\ log'[p][Len(log'[p])] = m
  BY <1>2, <1>3 DEF Grown
<1>6. \A e : Queued(e)' <=> Queued(e) \/ e = m.event
  <2>1. ASSUME NEW e, Queued(e)' PROVE Queued(e) \/ e = m.event
    BY <1>1, <1>2, <1>4, <2>1 DEF Queued
  <2>2. ASSUME NEW e, Queued(e) PROVE Queued(e)'
    BY <1>1, <1>2, <1>5, <2>2 DEF Queued
  <2>3. Queued(m.event)'
    BY <1>5 DEF Queued
  <2> QED BY <2>1, <2>2, <2>3
<1> QED BY <1>3, <1>6 DEF QueuedEvents

\* One call that sets the status of its event: the abstract step it is.
LEMMA StatusRefines ==
    ASSUME DeliversOnce, TypeInv, OnceInv, NEW g \in Goroutines,
           SetProcessing(g) \/ SetProcessed(g) \/ SetFailed(g) \/ MarkFailed(g)
    PROVE  [Lifecycle!Next]_<<status, QueuedEvents>>
<1> DEFINE e == Event(g)
<1>1. Busy(g) /\ Working(g)
  BY DEF SetProcessing, SetProcessed, SetFailed, MarkFailed, Busy, Working, Calls, ProcessorCalls
<1>2. e \in Events /\ e \in QueuedEvents /\ status \in [Events -> Statuses]
  BY <1>1, HeldMessage, WorkedOnIsQueued DEF OnceInv, TypeInv, TypeOK
<1>3. status[e] \in StatusesAt(pc[g])
  BY <1>1 DEF OnceInv, StagesOK, Stage
<1> HIDE DEF e
<1>4. QueuedEvents' = QueuedEvents
  <2>1. UNCHANGED log
    BY DEF SetProcessing, SetProcessed, SetFailed, MarkFailed, UpdateStatus, broker
  <2> QED BY <2>1, QueuedFrame
<1>5. CASE UNCHANGED status
  BY <1>4, <1>5
<1>6. ASSUME NEW to, status' = [status EXCEPT ![e] = to], status[e] = to PROVE UNCHANGED status
  BY <1>2, <1>6
<1>7. CASE SetProcessing(g) /\ status' = [status EXCEPT ![e] = "processing"]
  <2>1. status[e] = "pending" \/ status[e] = "processing"
    BY <1>3, <1>7 DEF SetProcessing, StatusesAt
  <2>2. CASE status[e] = "pending"
    <3>1. Lifecycle!Move(e, {"pending"}, "processing")
      BY <1>4, <1>7, <2>2 DEF Lifecycle!Move, QueuedEvents
    <3> QED BY <1>2, <3>1 DEF Lifecycle!Start, Lifecycle!Next, QueuedEvents
  <2> QED BY <1>5, <1>6, <1>7, <2>1, <2>2
<1>8. CASE SetProcessed(g) /\ status' = [status EXCEPT ![e] = "processed"]
  <2>1. status[e] \in {"processing"}
    BY <1>3, <1>8 DEF SetProcessed, StatusesAt
  <2>2. Lifecycle!Move(e, {"processing"}, "processed")
    BY <1>4, <1>8, <2>1 DEF Lifecycle!Move, QueuedEvents
  <2> QED BY <1>2, <2>2 DEF Lifecycle!Finish, Lifecycle!Next, QueuedEvents
<1>9. CASE (SetFailed(g) \/ MarkFailed(g)) /\ status' = [status EXCEPT ![e] = "failed"]
  <2>1. status[e] \in {"pending", "processing"} \/ status[e] = "failed"
    BY <1>3, <1>9 DEF SetFailed, MarkFailed, StatusesAt
  <2>2. CASE status[e] \in {"pending", "processing"}
    <3>1. Lifecycle!Move(e, {"pending", "processing"}, "failed")
      BY <1>4, <1>9, <2>2 DEF Lifecycle!Move, QueuedEvents
    <3> QED BY <1>2, <3>1 DEF Lifecycle!Fail, Lifecycle!Next, QueuedEvents
  <2> QED BY <1>5, <1>6, <1>9, <2>1, <2>2
<1> QED
  BY <1>5, <1>7, <1>8, <1>9 DEF SetProcessing, SetProcessed, SetFailed, MarkFailed, UpdateStatus, e

LEMMA StepRefines ==
    ASSUME DeliversOnce, TypeInv, OnceInv, [Next]_vars
    PROVE  [Lifecycle!Next]_<<status, QueuedEvents>>
<1>1. ASSUME UNCHANGED <<status, log>> PROVE [Lifecycle!Next]_<<status, QueuedEvents>>
  BY <1>1, QueuedFrame
<1>2. ASSUME NEW e \in Events, Insert(e) PROVE [Lifecycle!Next]_<<status, QueuedEvents>>
  <2>1. /\ status[e] = "absent" /\ status' = [status EXCEPT ![e] = "pending"]
        /\ QueuedEvents' = QueuedEvents
    BY <1>2, QueuedFrame DEF Insert, broker
  <2>2. Lifecycle!Accept(e)
    BY <2>1 DEF Lifecycle!Accept, Lifecycle!Move, QueuedEvents
  <2> QED BY <2>2 DEF Lifecycle!Next
<1>3. ASSUME NEW e \in Events, PublishNew(e) PROVE [Lifecycle!Next]_<<status, QueuedEvents>>
  <2> DEFINE m == [event |-> e, attempt |-> 1]
  <2>1. m \in Messages /\ m.event = e
    BY DEF Messages
  <2>2. /\ status' = status /\ status[e] # "absent"
        /\ Appended(EventPartitions, m) \/ UNCHANGED log
    BY <1>3 DEF PublishNew, store, OnceInv, RowsExist
  <2> HIDE DEF m
  <2>3. CASE Appended(EventPartitions, m)
    <3>1. QueuedEvents' = QueuedEvents \cup {e}
      BY <2>1, <2>3, QueuedGrows
    <3>2. Lifecycle!Enqueue(e)
      BY <2>2, <3>1 DEF Lifecycle!Enqueue, QueuedEvents
    <3> QED BY <3>2 DEF Lifecycle!Next
  <2> QED BY <1>1, <2>2, <2>3
<1>4. ASSUME NEW g \in Goroutines, PublishRetry(g)
      PROVE  [Lifecycle!Next]_<<status, QueuedEvents>>
  <2> DEFINE m == [event |-> Event(g), attempt |-> Message(g).attempt + 1]
  <2>1. Busy(g) /\ Publish(g, EventPartitions, m)
    BY <1>4 DEF PublishRetry, Busy, Calls, ProcessorCalls
  <2>2. m \in Messages /\ m.event = Event(g) /\ Event(g) \in QueuedEvents
    BY <2>1, HeldMessage, WorkedOnIsQueued DEF Messages, OnceInv
  <2> HIDE DEF m
  <2>3. status' = status /\ (Appended(EventPartitions, m) \/ UNCHANGED log)
    BY <2>1 DEF Publish, store
  <2>4. CASE Appended(EventPartitions, m)
    BY <2>2, <2>3, <2>4, QueuedGrows
  <2> QED BY <1>1, <2>3, <2>4
<1>5. ASSUME NEW g \in Goroutines, PublishToDLQ(g)
      PROVE  [Lifecycle!Next]_<<status, QueuedEvents>>
  <2>1. status' = status /\ (Appended(DLQPartitions, Message(g)) \/ UNCHANGED log)
    BY <1>5 DEF PublishToDLQ, Publish, store
  <2>2. CASE Appended(DLQPartitions, Message(g))
    <3>1. Busy(g) /\ DLQPartitions \subseteq Partitions
      BY <1>5 DEF PublishToDLQ, Busy, Calls, ProcessorCalls, Partitions
    <3>2. PICK p \in DLQPartitions : \A q \in Partitions : q # p => log'[q] = log[q]
      BY <2>2, <3>1, HeldMessage, AppendedGrows DEF TypeInv
    <3>3. \A q \in EventPartitions : log'[q] = log[q]
      BY <3>2, PipelineAssumption DEF Partitions
    <3> QED BY <2>1, <3>3, QueuedFrame
  <2> QED BY <1>1, <2>1, <2>2
<1>6. ASSUME NEW g \in Goroutines, Process(g) PROVE [Lifecycle!Next]_<<status, QueuedEvents>>
  <2>1. \/ UNCHANGED <<status, log>>
        \/ PublishRetry(g) \/ PublishToDLQ(g)
        \/ SetProcessing(g) \/ SetProcessed(g) \/ SetFailed(g) \/ MarkFailed(g)
    BY <1>6 DEF Process, FindEvent, FindEventUnless, WriteEvent, IncrementRetry, CommitMessages,
       store, broker
  <2> QED BY <1>1, <1>4, <1>5, <2>1, StatusRefines
<1>7. ASSUME NEW p \in Partitions, NEW g \in Goroutines, Assign(p, g) \/ Fetch(g)
      PROVE  UNCHANGED <<status, log>>
  BY <1>7 DEF Assign, Fetch, FetchMessage, store
<1>8. CASE UNCHANGED vars
  BY <1>1, <1>8 DEF vars, store, broker
<1>9. \/ \E e \in Events : Insert(e) \/ PublishNew(e)
      \/ \E p \in Partitions, g \in Goroutines : Assign(p, g)
      \/ \E g \in Goroutines : Fetch(g) \/ Process(g)
      \/ UNCHANGED vars
  BY OnceSteps DEF OnceInv
<1>10. ASSUME NEW g \in Goroutines, Fetch(g) PROVE UNCHANGED <<status, log>>
  BY <1>10 DEF Fetch, FetchMessage, store
<1> QED BY <1>1, <1>2, <1>3, <1>6, <1>7, <1>8, <1>9, <1>10

\* Where nothing is delivered twice, the pipeline is an EventLifecycle: the
\* status column only moves forward and settles once, however calls fail.
THEOREM PipelineImplementsLifecycle == ASSUME DeliversOnce PROVE Spec => ImplementsLifecycle
<1>1. Init => Lifecycle!Init
  BY DEF Init, Lifecycle!Init, Queued, Partitions
<1>2. TypeInv /\ OnceInv /\ [Next]_vars => [Lifecycle!Next]_Lifecycle!vars
  BY StepRefines DEF Lifecycle!vars, QueuedEvents
<1> QED BY <1>1, <1>2, OnceInvariant, PTL DEF Spec, ImplementsLifecycle, Lifecycle!Spec
=============================================================================
