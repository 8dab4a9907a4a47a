------------------------- MODULE EventPipeline_proofs -------------------------
(***************************************************************************)
(* Proofs about EventPipeline for every number of events, workers and      *)
(* partitions, every MaxRetries, every set of faults and every bound.      *)
(***************************************************************************)
EXTENDS EventPipeline, TLAPS

\* A goroutine in the middle of a message: the message is in the log of a
\* partition of its own topic, and its calls are those of its role.
HeldOK ==
    \A g \in Goroutines : Busy(g) =>
        /\ held[g] \in Positions
        /\ held[g].part \in PartitionsOf(g)
        /\ held[g].off <= Len(log[held[g].part])
        /\ (pc[g] \in ProcessorCalls => g[2] = "processor")

TypeInv == TypeOK /\ HeldOK

-----------------------------------------------------------------------------
\* What TypeInv says of the message a busy goroutine works on.
LEMMA HeldMessage ==
    ASSUME TypeInv, NEW g \in Goroutines, Busy(g)
    PROVE  /\ held[g].part \in Partitions /\ held[g].part \in PartitionsOf(g)
           /\ held[g].off \in Nat /\ held[g].off \in 1..Len(log[held[g].part])
           /\ Message(g) \in Messages
           /\ Event(g) \in Events
           /\ Message(g).attempt \in Nat
<1>1. /\ held[g] \in Positions /\ held[g].part \in PartitionsOf(g)
      /\ held[g].off <= Len(log[held[g].part])
  BY DEF TypeInv, HeldOK
<1>2. held[g].part \in Partitions /\ held[g].off \in Nat \ {0}
  BY <1>1 DEF Positions
<1>3. log[held[g].part] \in Seq(Messages)
  BY <1>2 DEF TypeInv, TypeOK
<1>4. held[g].off \in 1..Len(log[held[g].part])
  BY <1>1, <1>2, <1>3
<1>5. Message(g) \in Messages
  BY <1>3, <1>4 DEF Message
<1> QED
  BY <1>1, <1>2, <1>4, <1>5 DEF Event, Messages

\* What a partition log became after messages equal to m were appended.
Grown(old, new, m) ==
    /\ new \in Seq(Messages)
    /\ Len(new) > Len(old)
    /\ \A i \in 1..Len(old) : new[i] = old[i]
    /\ \A i \in Len(old) + 1..Len(new) : new[i] = m

\* Publishing appends to one partition of the topic, and leaves the others.
LEMMA AppendedGrows ==
    ASSUME TypeOK, NEW topic, topic \subseteq Partitions, NEW m \in Messages,
           Appended(topic, m)
    PROVE  /\ log' \in [Partitions -> Seq(Messages)]
           /\ \E p \in topic : /\ Grown(log[p], log'[p], m)
                               /\ \A q \in Partitions : q # p => log'[q] = log[q]
<1>1. log \in [Partitions -> Seq(Messages)]
  BY DEF TypeOK
<1>2. ASSUME NEW p \in topic, log' = [log EXCEPT ![p] = Append(@, m)]
      PROVE  /\ log' \in [Partitions -> Seq(Messages)]
             /\ Grown(log[p], log'[p], m)
             /\ \A q \in Partitions : q # p => log'[q] = log[q]
  BY <1>1, <1>2 DEF Grown
<1>3. ASSUME NEW p \in topic, log' = [log EXCEPT ![p] = Append(Append(@, m), m)]
      PROVE  /\ log' \in [Partitions -> Seq(Messages)]
             /\ Grown(log[p], log'[p], m)
             /\ \A q \in Partitions : q # p => log'[q] = log[q]
  BY <1>1, <1>3 DEF Grown
<1> QED
  BY <1>2, <1>3 DEF Appended

\* The part of it that typing needs.
LEMMA AppendedTyped ==
    ASSUME TypeOK, NEW topic, topic \subseteq Partitions, NEW m \in Messages,
           Appended(topic, m)
    PROVE  /\ log' \in [Partitions -> Seq(Messages)]
           /\ \A p \in Partitions : Len(log'[p]) >= Len(log[p])
<1>1. /\ log' \in [Partitions -> Seq(Messages)]
      /\ \E p \in topic : /\ Grown(log[p], log'[p], m)
                          /\ \A q \in Partitions : q # p => log'[q] = log[q]
  BY AppendedGrows
<1>2. \A p \in Partitions : Len(log[p]) \in Nat /\ Len(log'[p]) \in Nat
  BY <1>1 DEF TypeOK
<1> QED
  BY <1>1, <1>2 DEF Grown

\* Going on to a next call keeps pc and ctx typed.
LEMMA ContinueTyped ==
    ASSUME TypeOK, NEW g \in Goroutines, NEW next \in Calls \cup {"fetch", "returned"},
           Continue(g, next)
    PROVE  /\ pc' \in [Goroutines -> Calls \cup {"fetch", "returned"}]
           /\ ctx' \in [Goroutines -> {"live", "cancelling", "cancelled"}]
           /\ pc'[g] = next
           /\ \A h \in Goroutines : h # g => pc'[h] = pc[h]
BY DEF TypeOK, Continue

LEMMA TypeInit == Init => TypeInv
BY PipelineAssumption
   DEF Init, TypeInv, TypeOK, HeldOK, Statuses, Busy, Calls, ProcessorCalls, NoMessage

\* Every step keeps TypeInv.
LEMMA TypeStep == TypeInv /\ [Next]_vars => TypeInv'
<1> SUFFICES ASSUME TypeInv, [Next]_vars PROVE TypeInv'
  OBVIOUS
<1> USE PipelineAssumption
<1> USE DEF TypeInv
<1>1. ASSUME NEW e \in Events, Insert(e) PROVE TypeInv'
  BY <1>1 DEF Insert, TypeOK, HeldOK, Busy, broker, procs, disruptions, Statuses
<1>2. ASSUME NEW e \in Events, PublishNew(e) PROVE TypeInv'
  <2>1. [event |-> e, attempt |-> 1] \in Messages
    BY DEF Messages
  <2>2. /\ log' \in [Partitions -> Seq(Messages)]
        /\ \A p \in Partitions : Len(log'[p]) >= Len(log[p])
    <3>1. CASE Appended(EventPartitions, [event |-> e, attempt |-> 1])
      BY <2>1, <3>1, AppendedTyped, EventPartitions \subseteq Partitions DEF Partitions
    <3>2. CASE UNCHANGED log
      BY <3>2 DEF TypeOK
    <3> QED
      BY <1>2, <3>1, <3>2 DEF PublishNew
  <2>3. TypeOK'
    BY <1>2, <2>2 DEF PublishNew, TypeOK, store, procs, disruptions
  <2>4. HeldOK'
    BY <1>2, <2>2 DEF PublishNew, HeldOK, TypeOK, Busy, procs, Positions
  <2> QED
    BY <2>3, <2>4
<1>3. ASSUME NEW p \in Partitions, NEW g \in Goroutines, Assign(p, g) PROVE TypeInv'
  BY <1>3 DEF Assign, TypeOK, HeldOK, Busy, store, procs, disruptions
<1>4. ASSUME NEW p \in Partitions, Revoke(p) PROVE TypeInv'
  BY <1>4 DEF Revoke, TypeOK, HeldOK, Busy, store, procs
<1>5. ASSUME NEW g \in Goroutines, Fetch(g) PROVE TypeInv'
  <2> DEFINE next == IF g[2] = "processor" THEN "findEvent" ELSE "markFailed"
  <2>1. PICK p \in PartitionsOf(g) :
          /\ position[p] < Len(log[p])
          /\ position' = [position EXCEPT ![p] = @ + 1]
          /\ committed' = [committed EXCEPT ![p] = @]
          /\ held' = [held EXCEPT ![g] = [part |-> p, off |-> position[p] + 1]]
    BY <1>5 DEF Fetch, FetchMessage
  <2>2. p \in Partitions
    BY DEF PartitionsOf, Partitions
  <2>3. Continue(g, next) /\ UNCHANGED <<store, log, owner, seen, toPublish, disruptions>>
    BY <1>5 DEF Fetch, FetchMessage
  <2>4. /\ pc' \in [Goroutines -> Calls \cup {"fetch", "returned"}]
        /\ ctx' \in [Goroutines -> {"live", "cancelling", "cancelled"}]
        /\ pc'[g] = next
        /\ \A h \in Goroutines : h # g => pc'[h] = pc[h]
    <3> next \in Calls
      BY DEF Calls, ProcessorCalls
    <3> QED
      BY <2>3, ContinueTyped
  <2>5. [part |-> p, off |-> position[p] + 1] \in Positions
    BY <2>2 DEF Positions, TypeOK
  <2>6. TypeOK'
    <3>1. position' \in [Partitions -> Nat] /\ committed' \in [Partitions -> Nat]
      BY <2>1, <2>2 DEF TypeOK
    <3>2. held' \in [Goroutines -> Positions \cup {NoMessage}]
      BY <2>1, <2>5 DEF TypeOK
    <3> QED
      BY <2>3, <2>4, <3>1, <3>2 DEF TypeOK, store, disruptions
  <2>7. HeldOK'
    BY <2>1, <2>2, <2>3, <2>4, <2>5 DEF HeldOK, TypeOK, Busy, ProcessorCalls
  <2> QED
    BY <2>6, <2>7
<1>6. ASSUME NEW g \in Goroutines, FindEvent(g) PROVE TypeInv'
  <2> DEFINE next == IF status[Event(g)] \in Terminal \cup {"absent"}
                     THEN "commit" ELSE "setProcessing"
  <2>1. Busy(g) /\ pc[g] \in ProcessorCalls
    BY <1>6 DEF FindEvent, FindEventUnless, Busy, Calls, ProcessorCalls
  <2>2. seen' \in [Goroutines -> Statuses]
    BY <1>6, <2>1, HeldMessage DEF FindEvent, FindEventUnless, TypeOK
  <2>3. \E n \in Calls : Continue(g, n)
    BY <1>6 DEF FindEvent, FindEventUnless, Calls, ProcessorCalls
  <2>4. /\ pc' \in [Goroutines -> Calls \cup {"fetch", "returned"}]
        /\ ctx' \in [Goroutines -> {"live", "cancelling", "cancelled"}]
        /\ \A h \in Goroutines : h # g => pc'[h] = pc[h]
    BY <2>3, ContinueTyped
  <2>5. UNCHANGED <<store, broker, held, toPublish, disruptions>>
    BY <1>6 DEF FindEvent, FindEventUnless
  <2>6. TypeOK'
    BY <2>2, <2>4, <2>5 DEF TypeOK, store, broker, disruptions
  <2>7. HeldOK'
    BY <2>1, <2>4, <2>5 DEF HeldOK, Busy, broker
  <2> QED
    BY <2>6, <2>7
<1>7. ASSUME NEW g \in Goroutines, NEW new \in Statuses,
             NEW ok \in ProcessorCalls \cup {"commit"}, NEW err \in ProcessorCalls \cup {"commit"},
             Busy(g), UpdateStatus(g, new, ok, err), 
             (ok # "commit" \/ err # "commit") => pc[g] \in ProcessorCalls
      PROVE TypeInv'
  <2>1. Event(g) \in Events
    BY <1>7, HeldMessage
  <2>2. status' \in [Events -> Statuses]
    BY <1>7, <2>1 DEF UpdateStatus, TypeOK
  <2>3. PICK n \in {ok, err} : Continue(g, n)
    BY <1>7 DEF UpdateStatus
  <2>4. /\ pc' \in [Goroutines -> Calls \cup {"fetch", "returned"}]
        /\ ctx' \in [Goroutines -> {"live", "cancelling", "cancelled"}]
        /\ pc'[g] = n
        /\ \A h \in Goroutines : h # g => pc'[h] = pc[h]
    BY <1>7, <2>3, ContinueTyped DEF Calls
  <2>5. UNCHANGED <<retryCount, rows, counted, broker, held, seen, toPublish, disruptions>>
    BY <1>7 DEF UpdateStatus
  <2>6. TypeOK'
    BY <2>2, <2>4, <2>5 DEF TypeOK, broker, disruptions
  <2>7. HeldOK'
    BY <1>7, <2>4, <2>5 DEF HeldOK, Busy, broker, ProcessorCalls
  <2> QED
    BY <2>6, <2>7
<1>8. ASSUME NEW g \in Goroutines, WriteEvent(g) PROVE TypeInv'
  <2>1. Busy(g) /\ pc[g] \in ProcessorCalls /\ Continue(g, "setProcessed")
    BY <1>8 DEF WriteEvent, Busy, Calls, ProcessorCalls
  <2>2. Event(g) \in Events
    BY <2>1, HeldMessage
  <2>3. /\ rows' \subseteq [event : Events, status : Statuses]
        /\ counted' \in [Events -> Nat]
    BY <1>8, <2>2 DEF WriteEvent, TypeOK
  <2>4. /\ pc' \in [Goroutines -> Calls \cup {"fetch", "returned"}]
        /\ ctx' \in [Goroutines -> {"live", "cancelling", "cancelled"}]
        /\ \A h \in Goroutines : h # g => pc'[h] = pc[h]
    BY <2>1, ContinueTyped DEF Calls, ProcessorCalls
  <2>5. UNCHANGED <<status, retryCount, broker, held, seen, toPublish, disruptions>>
    BY <1>8 DEF WriteEvent
  <2>6. TypeOK'
    BY <2>3, <2>4, <2>5 DEF TypeOK, broker, disruptions
  <2>7. HeldOK'
    BY <2>1, <2>4, <2>5 DEF HeldOK, Busy, broker
  <2> QED
    BY <2>6, <2>7
<1>9. ASSUME NEW g \in Goroutines, IncrementRetry(g) PROVE TypeInv'
  <2>1. Busy(g) /\ pc[g] \in ProcessorCalls /\ Continue(g, AfterIncrement(g))
    BY <1>9 DEF IncrementRetry, Busy, Calls, ProcessorCalls
  <2>2. Event(g) \in Events
    BY <2>1, HeldMessage
  <2>3. retryCount' \in [Events -> Nat]
    <3>1. \/ UNCHANGED retryCount
          \/ retryCount' = [retryCount EXCEPT ![Event(g)] = @ + 1]
      BY <1>9 DEF IncrementRetry
    <3>2. retryCount \in [Events -> Nat]
      BY DEF TypeOK
    <3>3. \A n \in Nat : n + 1 \in Nat
      OBVIOUS
    <3> HIDE DEF TypeInv
    <3> QED
      BY <2>2, <3>1, <3>2, <3>3
  <2>4. /\ pc' \in [Goroutines -> Calls \cup {"fetch", "returned"}]
        /\ ctx' \in [Goroutines -> {"live", "cancelling", "cancelled"}]
        /\ \A h \in Goroutines : h # g => pc'[h] = pc[h]
    BY <2>1, ContinueTyped DEF Calls, ProcessorCalls, AfterIncrement
  <2>5. UNCHANGED <<status, rows, counted, broker, held, seen, toPublish, disruptions>>
    BY <1>9 DEF IncrementRetry
  <2>6. TypeOK'
    BY <2>3, <2>4, <2>5 DEF TypeOK, broker, disruptions
  <2>7. HeldOK'
    BY <2>1, <2>4, <2>5 DEF HeldOK, Busy, broker
  <2> QED
    BY <2>6, <2>7
<1>10. ASSUME NEW g \in Goroutines, NEW topic, topic \subseteq Partitions, NEW m \in Messages,
              Busy(g), Publish(g, topic, m)
       PROVE TypeInv'
  <2>1. /\ log' \in [Partitions -> Seq(Messages)]
        /\ \A p \in Partitions : Len(log'[p]) >= Len(log[p])
    <3>1. CASE Appended(topic, m)
      BY <1>10, <3>1, AppendedTyped
    <3>2. CASE UNCHANGED log
      BY <3>2 DEF TypeOK
    <3> QED
      BY <1>10, <3>1, <3>2 DEF Publish
  <2>2. Continue(g, "commit")
    BY <1>10 DEF Publish
  <2>3. /\ pc' \in [Goroutines -> Calls \cup {"fetch", "returned"}]
        /\ ctx' \in [Goroutines -> {"live", "cancelling", "cancelled"}]
        /\ pc'[g] = "commit"
        /\ \A h \in Goroutines : h # g => pc'[h] = pc[h]
    BY <2>2, ContinueTyped DEF Calls
  <2>4. UNCHANGED <<store, committed, position, owner, held, seen, toPublish, disruptions>>
    BY <1>10 DEF Publish
  <2>5. TypeOK'
    BY <2>1, <2>3, <2>4 DEF TypeOK, store, disruptions
  <2>6. HeldOK'
    <3> SUFFICES ASSUME NEW h \in Goroutines, Busy(h)'
                 PROVE  /\ held[h] \in Positions
                        /\ held[h].part \in PartitionsOf(h)
                        /\ held[h].off <= Len(log'[held[h].part])
                        /\ (pc'[h] \in ProcessorCalls => h[2] = "processor")
      BY <2>4 DEF HeldOK
    <3>1. Busy(h)
      BY <1>10, <2>3 DEF Busy
    <3>2. /\ held[h].part \in Partitions /\ held[h].off \in Nat
          /\ held[h].off <= Len(log[held[h].part])
      BY <3>1, HeldMessage
    <3>3. /\ Len(log[held[h].part]) \in Nat
          /\ Len(log'[held[h].part]) \in Nat
      BY <2>1, <3>2 DEF TypeOK
    <3>4. held[h].off <= Len(log'[held[h].part])
      BY <2>1, <3>2, <3>3
    <3> QED
      BY <2>3, <3>1, <3>4 DEF HeldOK, ProcessorCalls
  <2> QED
    BY <2>5, <2>6
<1>11. ASSUME NEW g \in Goroutines, CommitMessages(g) PROVE TypeInv'
  <2>1. Busy(g) /\ \E n \in {"fetch", "returned"} : Continue(g, n)
    BY <1>11 DEF CommitMessages, Busy, Calls
  <2>2. committed' \in [Partitions -> Nat]
    BY <1>11, <2>1, HeldMessage DEF CommitMessages, TypeOK
  <2>3. /\ pc' \in [Goroutines -> Calls \cup {"fetch", "returned"}]
        /\ ctx' \in [Goroutines -> {"live", "cancelling", "cancelled"}]
        /\ pc'[g] \notin Calls
        /\ \A h \in Goroutines : h # g => pc'[h] = pc[h]
    BY <2>1, ContinueTyped DEF Calls, ProcessorCalls
  <2>4. /\ UNCHANGED <<store, log, position, owner, toPublish, disruptions>>
        /\ held' = [held EXCEPT ![g] = NoMessage]
        /\ seen' = [seen EXCEPT ![g] = "absent"]
    BY <1>11 DEF CommitMessages
  <2>5. TypeOK'
    BY <2>2, <2>3, <2>4 DEF TypeOK, store, disruptions, Statuses
  <2>6. HeldOK'
    BY <2>3, <2>4 DEF HeldOK, TypeOK, Busy
  <2> QED
    BY <2>5, <2>6
<1>12. ASSUME NEW w \in Workers, Restart(w), crashes' \in 0..MaxCrashes,
              UNCHANGED <<revocations, shutdowns>>
       PROVE TypeInv'
  <2>1. TypeOK'
    BY <1>12 DEF Restart, TypeOK, store, Statuses
  <2>2. HeldOK'
    BY <1>12 DEF Restart, HeldOK, Busy, Calls, ProcessorCalls, PartitionsOf, Positions
  <2> QED
    BY <2>1, <2>2
<1>13. ASSUME NEW w \in Workers, Shutdown(w) PROVE TypeInv'
  <2>1. TypeOK'
    BY <1>13 DEF Shutdown, TypeOK, store, broker
  <2>2. HeldOK'
    BY <1>13 DEF Shutdown, HeldOK, Busy, broker
  <2> QED
    BY <2>1, <2>2
<1>14. ASSUME NEW g \in Goroutines, Process(g) PROVE TypeInv'
  <2>1. CASE SetProcessing(g)
    BY <1>7, <2>1 DEF SetProcessing, Busy, Calls, ProcessorCalls, Statuses
  <2>2. CASE SetProcessed(g)
    BY <1>7, <2>2 DEF SetProcessed, Busy, Calls, ProcessorCalls, Statuses
  <2>3. CASE SetFailed(g)
    BY <1>7, <2>3 DEF SetFailed, Busy, Calls, ProcessorCalls, Statuses
  <2>4. CASE MarkFailed(g)
    BY <1>7, <2>4 DEF MarkFailed, Busy, Calls, ProcessorCalls, Statuses
  <2>5. CASE PublishRetry(g)
    <3>1. Busy(g)
      BY <2>5 DEF PublishRetry, Busy, Calls, ProcessorCalls
    <3>2. [event |-> Event(g), attempt |-> Message(g).attempt + 1] \in Messages
      BY <3>1, HeldMessage DEF Messages
    <3> QED
      BY <1>10, <2>5, <3>1, <3>2 DEF PublishRetry, Partitions
  <2>6. CASE PublishToDLQ(g)
    <3>1. Busy(g)
      BY <2>6 DEF PublishToDLQ, Busy, Calls, ProcessorCalls
    <3>2. Message(g) \in Messages
      BY <3>1, HeldMessage
    <3> QED
      BY <1>10, <2>6, <3>1, <3>2 DEF PublishToDLQ, Partitions
  <2> QED
    BY <1>6, <1>8, <1>9, <1>11, <1>14, <2>1, <2>2, <2>3, <2>4, <2>5, <2>6 DEF Process
<1>15. ASSUME NEW w \in Workers, Crash(w) PROVE TypeInv'
  BY <1>12, <1>15 DEF Crash, TypeOK
<1>16. ASSUME NEW w \in Workers, Exit(w) PROVE TypeInv'
  BY <1>12, <1>16 DEF Exit, TypeOK, disruptions
<1>17. CASE UNCHANGED vars
  BY <1>17 DEF vars, store, broker, procs, disruptions, TypeOK, HeldOK, Busy
<1> QED
  BY <1>1, <1>2, <1>3, <1>4, <1>5, <1>13, <1>14, <1>15, <1>16, <1>17 DEF Next, Idle

\* Every reachable state is typed: in particular a busy goroutine's message
\* exists, so that the reads of the log in the actions are defined.
THEOREM TypeCorrect == Spec => []TypeOK
<1>1. Init => TypeInv
  BY TypeInit
<1>2. TypeInv /\ [Next]_vars => TypeInv'
  BY TypeStep
<1>3. TypeInv => TypeOK
  BY DEF TypeInv
<1> QED
  BY <1>1, <1>2, <1>3, PTL DEF Spec

-----------------------------------------------------------------------------
\* What the attempt bound rests on: handleFailure has compared the attempt
\* before a goroutine gets to the calls that publish.
AttemptInv ==
    /\ AttemptsBounded
    /\ \A g \in Goroutines :
         /\ pc[g] = "publishRetry" => Message(g).attempt < MaxRetries
         /\ pc[g] \in {"setFailed", "publishDLQ"} => Message(g).attempt >= MaxRetries

\* A step that publishes nothing and brings no goroutine to those calls.
LEMMA AttemptFrame ==
    ASSUME AttemptInv, UNCHANGED log,
           \A h \in Goroutines : pc'[h] \in {"publishRetry", "setFailed", "publishDLQ"} =>
               pc'[h] = pc[h] /\ held'[h] = held[h]
    PROVE  AttemptInv'
BY DEF AttemptInv, AttemptsBounded, Message

\* The message a goroutine holds is not changed by what others publish.
LEMMA HeldMessageStays ==
    ASSUME TypeInv, NEW topic, topic \subseteq Partitions, NEW m \in Messages,
           Appended(topic, m), UNCHANGED held, NEW h \in Goroutines, Busy(h)
    PROVE  Message(h)' = Message(h)
<1>1. /\ held[h].part \in Partitions
      /\ held[h].off \in 1..Len(log[held[h].part])
  BY HeldMessage
<1>2. \A p \in Partitions : \A i \in 1..Len(log[p]) : log'[p][i] = log[p][i]
  BY AppendedGrows DEF TypeInv, Grown
<1> QED
  BY <1>1, <1>2 DEF Message

\* A step that publishes one message, which respects the bound.
LEMMA AttemptAppended ==
    ASSUME TypeInv, AttemptInv, NEW topic, topic \subseteq Partitions, NEW m \in Messages,
           Appended(topic, m), UNCHANGED held,
           topic \subseteq EventPartitions => m.attempt \in 1..MaxAttempts,
           topic \subseteq DLQPartitions => m.attempt = MaxAttempts,
           topic = EventPartitions \/ topic = DLQPartitions,
           \A h \in Goroutines : pc'[h] \in {"publishRetry", "setFailed", "publishDLQ"} =>
               pc'[h] = pc[h]
    PROVE  AttemptInv'
<1>1. PICK p \in topic : /\ Grown(log[p], log'[p], m)
                         /\ \A q \in Partitions : q # p => log'[q] = log[q]
  BY AppendedGrows DEF TypeInv
<1>2. Len(log[p]) \in Nat /\ Len(log'[p]) \in Nat
  BY <1>1 DEF TypeInv, TypeOK, Grown
<1>3. \A i \in 1..Len(log'[p]) : \/ log'[p][i] = m
                                 \/ i \in 1..Len(log[p]) /\ log'[p][i] = log[p][i]
  <2> SUFFICES ASSUME NEW i \in 1..Len(log'[p]), i \notin 1..Len(log[p])
               PROVE  log'[p][i] = m
    BY <1>1 DEF Grown
  <2>1. i \in Len(log[p]) + 1..Len(log'[p])
    BY <1>2
  <2> QED
    BY <1>1, <2>1 DEF Grown
<1>4. \A q \in EventPartitions : \A i \in 1..Len(log'[q]) : log'[q][i].attempt \in 1..MaxAttempts
  BY <1>1, <1>3, PipelineAssumption DEF AttemptInv, AttemptsBounded, Partitions
<1>5. \A q \in DLQPartitions : \A i \in 1..Len(log'[q]) : log'[q][i].attempt = MaxAttempts
  BY <1>1, <1>3, PipelineAssumption DEF AttemptInv, AttemptsBounded, Partitions
<1>6. \A h \in Goroutines : pc'[h] \in {"publishRetry", "setFailed", "publishDLQ"} =>
        Message(h)' = Message(h)
  BY HeldMessageStays DEF Busy, Calls, ProcessorCalls
<1> QED
  BY <1>4, <1>5, <1>6 DEF AttemptInv, AttemptsBounded

LEMMA AttemptStep == TypeInv /\ AttemptInv /\ [Next]_vars => AttemptInv'
<1> SUFFICES ASSUME TypeInv, AttemptInv, [Next]_vars PROVE AttemptInv'
  OBVIOUS
<1>1. MaxAttempts \in Nat \ {0} /\ (MaxRetries > 0 => MaxAttempts = MaxRetries)
  BY PipelineAssumption DEF MaxAttempts
<1>2. \A g \in Goroutines, next \in Calls \cup {"fetch", "returned"} : Continue(g, next) =>
        \A h \in Goroutines : pc'[h] = IF h = g THEN next ELSE pc[h]
  BY DEF Continue, TypeInv, TypeOK
<1>3. ASSUME NEW e \in Events, Insert(e) PROVE AttemptInv'
  BY <1>3, AttemptFrame DEF Insert, broker, procs
<1>4. ASSUME NEW e \in Events, PublishNew(e) PROVE AttemptInv'
  <2> DEFINE m == [event |-> e, attempt |-> 1]
  <2>1. m \in Messages /\ m.attempt \in 1..MaxAttempts
    BY <1>1 DEF Messages
  <2>2. UNCHANGED <<pc, held>>
    BY <1>4 DEF PublishNew, procs
  <2>3. CASE Appended(EventPartitions, m)
    <3>1. EventPartitions \subseteq Partitions
      BY DEF Partitions
    <3>2. EventPartitions \subseteq DLQPartitions => m.attempt = MaxAttempts
      BY <2>3, PipelineAssumption DEF Appended
    <3> HIDE DEF m
    <3> QED
      BY <2>1, <2>2, <2>3, <3>1, <3>2, AttemptAppended
  <2>4. CASE UNCHANGED log
    BY <2>2, <2>4, AttemptFrame
  <2> QED
    BY <1>4, <2>3, <2>4 DEF PublishNew
<1>5. ASSUME NEW p \in Partitions, NEW g \in Goroutines, Assign(p, g) PROVE AttemptInv'
  BY <1>5, AttemptFrame DEF Assign, procs
<1>6. ASSUME NEW p \in Partitions, Revoke(p) PROVE AttemptInv'
  BY <1>6, AttemptFrame DEF Revoke, procs
<1>7. ASSUME NEW g \in Goroutines, Fetch(g) PROVE AttemptInv'
  <2>1. /\ \E n \in {"findEvent", "markFailed"} : Continue(g, n)
        /\ UNCHANGED log
        /\ \A h \in Goroutines : h # g => held'[h] = held[h]
    BY <1>7 DEF Fetch, FetchMessage, TypeInv, TypeOK
  <2> QED
    BY <1>2, <2>1, AttemptFrame DEF Calls, ProcessorCalls
<1>8. ASSUME NEW g \in Goroutines, FindEvent(g) PROVE AttemptInv'
  <2>1. /\ \E n \in {"commit", "setProcessing", "incrementRetry"} : Continue(g, n)
        /\ UNCHANGED <<log, held>>
    BY <1>8 DEF FindEvent, FindEventUnless, broker
  <2> QED
    BY <1>2, <2>1, AttemptFrame DEF Calls, ProcessorCalls
<1>9. ASSUME NEW g \in Goroutines, SetProcessing(g) \/ WriteEvent(g) \/ SetProcessed(g) \/ MarkFailed(g)
      PROVE AttemptInv'
  <2>1. /\ \E n \in {"writeEvent", "incrementRetry", "setProcessed", "commit"} : Continue(g, n)
        /\ UNCHANGED <<log, held>>
    BY <1>9 DEF SetProcessing, WriteEvent, SetProcessed, MarkFailed, UpdateStatus, broker
  <2> QED
    BY <1>2, <2>1, AttemptFrame DEF Calls, ProcessorCalls
<1>10. ASSUME NEW g \in Goroutines, IncrementRetry(g) PROVE AttemptInv'
  <2>1. Continue(g, AfterIncrement(g)) /\ UNCHANGED <<log, held>> /\ Busy(g)
    BY <1>10 DEF IncrementRetry, broker, Busy, Calls, ProcessorCalls
  <2>2. \A h \in Goroutines : Message(h)' = Message(h)
    BY <2>1 DEF Message
  <2>3. Message(g).attempt \in Nat
    BY <2>1, HeldMessage
  <2> QED
    BY <1>2, <2>1, <2>2, <2>3, PipelineAssumption
       DEF AttemptInv, AttemptsBounded, AfterIncrement, Calls, ProcessorCalls
<1>11. ASSUME NEW g \in Goroutines, SetFailed(g) PROVE AttemptInv'
  <2>1. Continue(g, "publishDLQ") /\ UNCHANGED <<log, held>> /\ pc[g] = "setFailed"
    BY <1>11 DEF SetFailed, UpdateStatus, broker
  <2>2. \A h \in Goroutines : Message(h)' = Message(h)
    BY <2>1 DEF Message
  <2> QED
    BY <1>2, <2>1, <2>2 DEF AttemptInv, AttemptsBounded, Calls, ProcessorCalls
<1>12. ASSUME NEW g \in Goroutines, PublishRetry(g) PROVE AttemptInv'
  <2> DEFINE m == [event |-> Event(g), attempt |-> Message(g).attempt + 1]
  <2>1. /\ Busy(g) /\ pc[g] = "publishRetry" /\ g[2] = "processor"
        /\ Publish(g, EventPartitions, m)
    BY <1>12 DEF PublishRetry, Busy, Calls, ProcessorCalls, TypeInv, HeldOK
  <2>2. /\ held[g].part \in EventPartitions /\ held[g].off \in 1..Len(log[held[g].part])
        /\ Event(g) \in Events /\ Message(g).attempt \in Nat
    BY <2>1, HeldMessage DEF PartitionsOf
  <2>3. Message(g).attempt \in 1..MaxAttempts /\ Message(g).attempt < MaxRetries
    BY <2>1, <2>2 DEF AttemptInv, AttemptsBounded, Message
  <2>4. m \in Messages /\ m.attempt \in 1..MaxAttempts
    BY <1>1, <2>2, <2>3, PipelineAssumption DEF Messages
  <2>5. Continue(g, "commit") /\ UNCHANGED held
    BY <2>1 DEF Publish
  <2>6. CASE Appended(EventPartitions, m)
    <3>1. EventPartitions \subseteq Partitions
      BY DEF Partitions
    <3>2. EventPartitions \subseteq DLQPartitions => m.attempt = MaxAttempts
      BY <2>6, PipelineAssumption DEF Appended
    <3> HIDE DEF m
    <3> QED
      BY <1>2, <2>4, <2>5, <2>6, <3>1, <3>2, AttemptAppended DEF Calls
  <2>7. CASE UNCHANGED log
    BY <1>2, <2>5, <2>7, AttemptFrame DEF Calls
  <2> QED
    BY <2>1, <2>6, <2>7 DEF Publish
<1>13. ASSUME NEW g \in Goroutines, PublishToDLQ(g) PROVE AttemptInv'
  <2>1. /\ Busy(g) /\ pc[g] = "publishDLQ" /\ g[2] = "processor"
        /\ Publish(g, DLQPartitions, Message(g))
    BY <1>13 DEF PublishToDLQ, Busy, Calls, ProcessorCalls, TypeInv, HeldOK
  <2>2. /\ held[g].part \in EventPartitions /\ held[g].off \in 1..Len(log[held[g].part])
        /\ Message(g) \in Messages /\ Message(g).attempt \in Nat
    BY <2>1, HeldMessage DEF PartitionsOf
  <2>3. Message(g).attempt \in 1..MaxAttempts /\ Message(g).attempt >= MaxRetries
    BY <2>1, <2>2 DEF AttemptInv, AttemptsBounded, Message
  <2>4. Message(g).attempt = MaxAttempts
    BY <2>2, <2>3, PipelineAssumption DEF MaxAttempts
  <2>5. Continue(g, "commit") /\ UNCHANGED held
    BY <2>1 DEF Publish
  <2>6. CASE Appended(DLQPartitions, Message(g))
    <3>1. DLQPartitions \subseteq Partitions
      BY DEF Partitions
    <3> QED
      BY <1>2, <2>2, <2>3, <2>4, <2>5, <2>6, <3>1, AttemptAppended DEF Calls
  <2>7. CASE UNCHANGED log
    BY <1>2, <2>5, <2>7, AttemptFrame DEF Calls
  <2> QED
    BY <2>1, <2>6, <2>7 DEF Publish
<1>14. ASSUME NEW g \in Goroutines, CommitMessages(g) PROVE AttemptInv'
  <2>1. /\ \E n \in {"fetch", "returned"} : Continue(g, n)
        /\ UNCHANGED log
        /\ \A h \in Goroutines : h # g => held'[h] = held[h]
    BY <1>14 DEF CommitMessages, TypeInv, TypeOK
  <2> QED
    BY <1>2, <2>1, AttemptFrame DEF Calls, ProcessorCalls
<1>15. ASSUME NEW w \in Workers, Restart(w) PROVE AttemptInv'
  BY <1>15, AttemptFrame DEF Restart
<1>16. ASSUME NEW w \in Workers, Shutdown(w) PROVE AttemptInv'
  BY <1>16, AttemptFrame DEF Shutdown, broker
<1>17. CASE UNCHANGED vars
  BY <1>17, AttemptFrame DEF vars, broker, procs
<1> QED
  BY <1>3, <1>4, <1>5, <1>6, <1>7, <1>8, <1>9, <1>10, <1>11, <1>12, <1>13, <1>14, <1>15, <1>16, <1>17
     DEF Next, Process, Crash, Exit, Idle

\* However calls fail, messages are duplicated and workers crash, are preempted
\* or stop, no message is a later attempt than MaxRetries allows, and whatever
\* is in the dead letter topic has used every attempt.
THEOREM AttemptsAlwaysBounded == Spec => []AttemptsBounded
<1>1. Init => TypeInv /\ AttemptInv
  BY TypeInit DEF Init, AttemptInv, AttemptsBounded, Partitions
<1>2. TypeInv /\ AttemptInv /\ [Next]_vars => TypeInv' /\ AttemptInv'
  BY TypeStep, AttemptStep
<1>3. AttemptInv => AttemptsBounded
  BY DEF AttemptInv
<1> QED
  BY <1>1, <1>2, <1>3, PTL DEF Spec
=============================================================================
