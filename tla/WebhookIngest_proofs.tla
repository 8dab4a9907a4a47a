------------------------- MODULE WebhookIngest_proofs -------------------------
(***************************************************************************)
(* Proofs about WebhookIngest, for any number of requests, keys, crashes   *)
(* and ticks, and any set of calls that may fail.                          *)
(*                                                                         *)
(* RequestsOK is what a request in flight has done already, EntriesOK and  *)
(* RepliesOK say where the entries and the replies come from, and PriorOK  *)
(* that an acceptance seen at arrival is final.  Together they are         *)
(* inductive; the invariants the runs check follow from them.              *)
(***************************************************************************)
EXTENDS WebhookIngest, TLAPS

RequestsOK ==
    /\ \A r \in Requests : pc[r] \in {"publish", "set", "respond"} => r \in persisted
    /\ \A r \in Requests : reply[r].code # 0 => pc[r] = "done"

EntriesOK ==
    \A k \in Keys : idem[k] # NoEntry =>
        /\ idem[k].event \in persisted
        /\ key[idem[k].event] = k

RepliesOK ==
    \A r \in Requests :
        /\ reply[r].code = 200 => /\ idem[key[r]] # NoEntry
                                  /\ reply[r].event = idem[key[r]].event
        /\ reply[r].code = 202 => /\ reply[r].event = r
                                  /\ r \in persisted

\* Past the lookup, or accepted.
Fresh(r) == pc[r] \in {"insert", "publish", "set", "respond"} \/ reply[r].code = 202

PriorOK ==
    \A r \in Requests : \A s \in prior[r] :
        /\ reply[s].code = 202
        /\ Fresh(r) /\ idem[key[r]] # NoEntry /\ idem[key[r]].event = s =>
               idem[key[r]].expires <= now

IngestInv ==
    /\ TypeOK
    /\ PublishedArePersisted
    /\ RequestsOK
    /\ EntriesOK
    /\ RepliesOK
    /\ PriorOK

-----------------------------------------------------------------------------
LEMMA IngestInit == Init => IngestInv
<1> SUFFICES ASSUME Init PROVE IngestInv
  OBVIOUS
<1> USE IngestAssumption DEF Init
<1>1. TypeOK
  BY DEF TypeOK, Calls
<1>2. PublishedArePersisted
  BY DEF PublishedArePersisted
<1>3. RequestsOK /\ EntriesOK /\ RepliesOK /\ PriorOK
  BY DEF RequestsOK, EntriesOK, RepliesOK, PriorOK, Fresh
<1> QED BY <1>1, <1>2, <1>3 DEF IngestInv

Codes == {0, 200, 202, 400, 500}

\* What a step that goes on, or replies, does to pc and reply.
LEMMA GotoTyped ==
    ASSUME TypeOK, NEW r \in Requests,
           NEW next \in Calls \cup {"unsent", "respond", "done"}, Goto(r, next)
    PROVE  /\ pc' \in [Requests -> Calls \cup {"unsent", "respond", "done"}]
           /\ pc'[r] = next
           /\ \A q \in Requests : q # r => pc'[q] = pc[q]
BY DEF TypeOK, Goto

LEMMA ReplyTyped ==
    ASSUME TypeOK, NEW r \in Requests, NEW code \in Codes, NEW event \in Requests,
           reply' = [reply EXCEPT ![r] = [code |-> code, event |-> event]]
    PROVE  /\ reply' \in [Requests -> [code : Codes, event : Requests]]
           /\ reply'[r] = [code |-> code, event |-> event]
           /\ \A q \in Requests : q # r => reply'[q] = reply[q]
<1>1. [code |-> code, event |-> event] \in [code : Codes, event : Requests]
  OBVIOUS
<1>2. reply \in [Requests -> [code : Codes, event : Requests]]
  BY DEF TypeOK, Codes
<1> QED BY <1>1, <1>2

\* An entry that is there has an event and a time.
LEMMA EntryTyped ==
    ASSUME TypeOK, NEW k \in Keys, idem[k] # NoEntry
    PROVE  idem[k] \in Entries /\ idem[k].event \in Requests /\ idem[k].expires \in Nat
BY DEF TypeOK, Entries

\* The event of a live entry is that of a request.
LEMMA LiveTyped ==
    ASSUME TypeOK, NEW r \in Requests, Live(idem[key[r]])
    PROVE  key[r] \in Keys /\ idem[key[r]].event \in Requests
<1>1. key[r] \in Keys
  BY DEF TypeOK
<1> QED BY <1>1, EntryTyped DEF Live

-----------------------------------------------------------------------------
\* Types are kept by every action.
LEMMA IngestTypeStep == IngestInv /\ [Next]_vars => TypeOK'
<1> SUFFICES ASSUME TypeOK, [Next]_vars PROVE TypeOK'
  BY DEF IngestInv
<1> USE IngestAssumption
<1> DEFINE PcOK    == pc' \in [Requests -> Calls \cup {"unsent", "respond", "done"}]
           ReplyOK == reply' \in [Requests -> [code : Codes, event : Requests]]
<1>0. UNCHANGED reply => ReplyOK
  BY DEF TypeOK, Codes
<1>c. 200 \in Codes /\ 202 \in Codes /\ 400 \in Codes /\ 500 \in Codes
  BY DEF Codes
<1>1. ASSUME NEW r \in Requests, Arrive(r) PROVE TypeOK'
  <2>1. ReplyOK
    BY <1>c, <1>0, <1>1, ReplyTyped DEF Arrive, Reply
  <2>2. PcOK
    BY <1>1, GotoTyped DEF Arrive, Calls
  <2>3. prior' \in [Requests -> SUBSET Requests]
    BY <1>1 DEF Arrive, TypeOK
  <2> QED BY <1>1, <2>1, <2>2, <2>3 DEF Arrive, db, TypeOK, Codes
<1>2. ASSUME NEW r \in Requests, Get(r) PROVE TypeOK'
  <2>1. ReplyOK
    <3>1. CASE /\ Live(idem[key[r]])
               /\ reply' = [reply EXCEPT ![r] = [code |-> 200, event |-> idem[key[r]].event]]
      BY <1>c, <3>1, LiveTyped, ReplyTyped
    <3>2. CASE reply' = [reply EXCEPT ![r] = [code |-> 500, event |-> r]]
      BY <1>c, <3>2, ReplyTyped
    <3> QED BY <1>0, <1>2, <3>1, <3>2 DEF Get, Reply
  <2>2. PcOK
    BY <1>2, GotoTyped DEF Get, Calls
  <2> QED BY <1>2, <2>1, <2>2 DEF Get, db, TypeOK, Codes
<1>3. ASSUME NEW r \in Requests, Insert(r) PROVE TypeOK'
  <2>1. ReplyOK
    BY <1>c, <1>0, <1>3, ReplyTyped DEF Insert, Reply
  <2>2. PcOK
    BY <1>3, GotoTyped DEF Insert, Calls
  <2>3. persisted' \subseteq Requests
    BY <1>3 DEF Insert, TypeOK
  <2> QED BY <1>3, <2>1, <2>2, <2>3 DEF Insert, TypeOK, Codes
<1>4. ASSUME NEW r \in Requests, Publish(r) PROVE TypeOK'
  BY <1>4 DEF Publish, TypeOK, Goto, Calls
<1>5. ASSUME NEW r \in Requests, Set(r) PROVE TypeOK'
  <2>1. PcOK
    BY <1>5, GotoTyped DEF Set, Calls
  <2>2. now + TTL \in Nat /\ key[r] \in Keys
    BY DEF TypeOK
  <2>3. promise' \in [Requests -> Nat]
    BY <1>5, <2>2 DEF Set, TypeOK
  <2>4. [event |-> r, expires |-> now + TTL] \in Entries
    BY <2>2 DEF Entries
  <2>5. idem' \in [Keys -> Entries \cup {NoEntry}]
    BY <1>5, <2>2, <2>4 DEF Set, Stored, TypeOK
  <2> QED BY <1>5, <2>1, <2>3, <2>5 DEF Set, TypeOK
<1>6. ASSUME NEW r \in Requests, Respond(r) PROVE TypeOK'
  <2>1. ReplyOK
    BY <1>c, <1>6, ReplyTyped DEF Respond, Reply
  <2>2. PcOK
    BY <1>6, GotoTyped DEF Respond, Calls
  <2> QED BY <1>6, <2>1, <2>2 DEF Respond, db, TypeOK, Codes
<1>7. CASE Tick
  BY <1>7 DEF Tick, db, TypeOK
<1>8. CASE Crash
  BY <1>8 DEF Crash, db, TypeOK
<1>9. CASE UNCHANGED vars
  BY <1>9 DEF vars, db, TypeOK
<1> QED
  BY <1>1, <1>2, <1>3, <1>4, <1>5, <1>6, <1>7, <1>8, <1>9 DEF Next, Handle, Idle

\* PostgreSQL first: a request in flight has inserted its event before it
\* publishes it, and only a finished request has a reply.
LEMMA RequestsStep ==
    IngestInv /\ [Next]_vars => PublishedArePersisted' /\ RequestsOK'
<1> SUFFICES ASSUME TypeOK, PublishedArePersisted, RequestsOK, [Next]_vars
             PROVE  PublishedArePersisted' /\ RequestsOK'
  BY DEF IngestInv
<1> USE DEF TypeOK, Calls, Goto, Reply, PublishedArePersisted, RequestsOK
<1>1. ASSUME NEW r \in Requests, Arrive(r) PROVE PublishedArePersisted' /\ RequestsOK'
  BY <1>1 DEF Arrive, db
<1>2. ASSUME NEW r \in Requests, Get(r) PROVE PublishedArePersisted' /\ RequestsOK'
  BY <1>2 DEF Get, db
<1>3. ASSUME NEW r \in Requests, Insert(r) PROVE PublishedArePersisted' /\ RequestsOK'
  BY <1>3 DEF Insert
<1>4. ASSUME NEW r \in Requests, Publish(r) PROVE PublishedArePersisted' /\ RequestsOK'
  BY <1>4 DEF Publish
<1>5. ASSUME NEW r \in Requests, Set(r) PROVE PublishedArePersisted' /\ RequestsOK'
  BY <1>5 DEF Set
<1>6. ASSUME NEW r \in Requests, Respond(r) PROVE PublishedArePersisted' /\ RequestsOK'
  BY <1>6 DEF Respond, db
<1>7. CASE Tick
  BY <1>7 DEF Tick, db
<1>8. CASE Crash
  BY <1>8 DEF Crash, db, InFlight
<1>9. CASE UNCHANGED vars
  BY <1>9 DEF vars, db
<1> QED
  BY <1>1, <1>2, <1>3, <1>4, <1>5, <1>6, <1>7, <1>8, <1>9 DEF Next, Handle, Idle

\* Entries are only added, under the key of the request that adds them.
LEMMA EntriesStep ==
    IngestInv /\ [Next]_vars =>
        /\ EntriesOK'
        /\ \A k \in Keys : idem[k] # NoEntry => idem'[k] = idem[k]
<1> DEFINE Kept == \A k \in Keys : idem[k] # NoEntry => idem'[k] = idem[k]
<1> SUFFICES ASSUME IngestInv, [Next]_vars PROVE EntriesOK' /\ Kept
  OBVIOUS
<1>0. TypeOK /\ EntriesOK /\ RequestsOK
  BY DEF IngestInv
<1>1. persisted \subseteq persisted' /\ key' = key
  BY <1>0 DEF Next, Handle, Idle, vars, db, Arrive, Get, Insert, Publish, Set, Respond, Tick, Crash
<1>2. CASE UNCHANGED idem
  BY <1>0, <1>1, <1>2 DEF EntriesOK, TypeOK
<1>3. ASSUME NEW r \in Requests, Set(r),
             idem' = Stored(key[r], [event |-> r, expires |-> now + TTL])
      PROVE  EntriesOK' /\ Kept
  <2>1. r \in persisted /\ key[r] \in Keys
    BY <1>0, <1>3 DEF Set, RequestsOK, TypeOK
  <2>2. ASSUME NEW k \in Keys, idem[k] # NoEntry PROVE idem'[k] = idem[k]
    BY <1>0, <1>3, <2>2 DEF Stored, TypeOK
  <2>3. ASSUME NEW k \in Keys, idem[k] = NoEntry, idem'[k] # NoEntry
        PROVE  k = key[r] /\ idem'[k] = [event |-> r, expires |-> now + TTL]
    BY <1>0, <1>3, <2>3 DEF Stored, TypeOK
  <2>4. ASSUME NEW k \in Keys, idem'[k] # NoEntry
        PROVE  idem'[k].event \in persisted' /\ key'[idem'[k].event] = k
    <3>1. CASE idem[k] # NoEntry
      BY <1>0, <1>1, <2>2, <3>1 DEF EntriesOK
    <3>2. CASE idem[k] = NoEntry
      BY <1>1, <2>1, <2>3, <2>4, <3>2
    <3> QED BY <3>1, <3>2
  <2> QED BY <2>2, <2>4 DEF EntriesOK
<1> QED
  BY <1>2, <1>3 DEF Next, Handle, Idle, vars, db, Arrive, Get, Insert, Publish, Set, Respond,
                    Tick, Crash

\* How the reply of one request changes in a step: it is still to come, and is
\* a replay of a live entry, an acceptance, or an error.
ReplyChange(q) ==
    \/ reply'[q] = reply[q]
    \/ /\ pc[q] = "get" /\ Live(idem[key[q]]) /\ UNCHANGED idem
       /\ reply'[q] = [code |-> 200, event |-> idem[key[q]].event]
    \/ /\ pc[q] = "respond"
       /\ reply'[q] = [code |-> 202, event |-> q]
    \/ /\ pc[q] \in {"unsent", "get", "insert"}
       /\ \E code \in {400, 500} : reply'[q] = [code |-> code, event |-> q]

LEMMA ReplyChanges ==
    ASSUME TypeOK, [Next]_vars, NEW q \in Requests
    PROVE  ReplyChange(q) /\ key' = key /\ now' \in Nat /\ now' >= now
<1>1. reply \in [Requests -> [code : Codes, event : Requests]]
  BY DEF TypeOK, Codes
<1>2. ASSUME NEW r \in Requests, Arrive(r) PROVE ReplyChange(q)
  BY <1>1, <1>2 DEF Arrive, Reply, ReplyChange
<1>3. ASSUME NEW r \in Requests, Get(r) PROVE ReplyChange(q)
  BY <1>1, <1>3 DEF Get, Reply, ReplyChange, db
<1>4. ASSUME NEW r \in Requests, Insert(r) PROVE ReplyChange(q)
  BY <1>1, <1>4 DEF Insert, Reply, ReplyChange
<1>5. ASSUME NEW r \in Requests, Respond(r) PROVE ReplyChange(q)
  BY <1>1, <1>5 DEF Respond, Reply, ReplyChange
<1>6. ASSUME reply' = reply PROVE ReplyChange(q)
  <2>1. reply'[q] = reply[q]
    BY <1>6
  <2> QED BY <2>1 DEF ReplyChange
<1>7. ReplyChange(q)
  BY <1>2, <1>3, <1>4, <1>5, <1>6 DEF Next, Handle, Idle, vars, Publish, Set, Tick, Crash
<1>8. key' = key
  BY DEF Next, Handle, Idle, vars, Arrive, Get, Insert, Publish, Set, Respond, Tick, Crash
<1>9. now' = now \/ now' = now + 1
  BY DEF Next, Handle, Idle, vars, Arrive, Get, Insert, Publish, Set, Respond, Tick, Crash
<1>10. now' \in Nat /\ now' >= now
  BY <1>9 DEF TypeOK
<1> QED BY <1>7, <1>8, <1>10

\* A replay keeps naming the event of the entry, which is never replaced.
LEMMA RepliesStep == IngestInv /\ [Next]_vars => RepliesOK'
<1> SUFFICES ASSUME IngestInv, [Next]_vars, NEW q \in Requests
             PROVE  /\ reply'[q].code = 200 => /\ idem'[key'[q]] # NoEntry
                                               /\ reply'[q].event = idem'[key'[q]].event
                    /\ reply'[q].code = 202 => reply'[q].event = q /\ q \in persisted'
  BY DEF RepliesOK
<1>0. TypeOK /\ RequestsOK /\ RepliesOK
  BY DEF IngestInv
<1>1. key[q] \in Keys /\ key' = key /\ ReplyChange(q)
  BY <1>0, ReplyChanges DEF TypeOK
<1>2. persisted \subseteq persisted'
  BY <1>0 DEF Next, Handle, Idle, vars, db, Arrive, Get, Insert, Publish, Set, Respond, Tick, Crash
<1>3. idem[key[q]] # NoEntry => idem'[key[q]] = idem[key[q]]
  BY <1>1, EntriesStep
<1>4. CASE reply'[q] = reply[q]
  BY <1>0, <1>1, <1>2, <1>3, <1>4 DEF RepliesOK
<1>5. CASE /\ Live(idem[key[q]])
           /\ reply'[q] = [code |-> 200, event |-> idem[key[q]].event]
  BY <1>1, <1>3, <1>5 DEF Live
<1>6. CASE pc[q] = "respond" /\ reply'[q] = [code |-> 202, event |-> q]
  BY <1>0, <1>2, <1>6 DEF RequestsOK
<1>7. ASSUME NEW code \in {400, 500}, reply'[q] = [code |-> code, event |-> q]
      PROVE  reply'[q].code # 200 /\ reply'[q].code # 202
  BY <1>7
<1> QED BY <1>1, <1>4, <1>5, <1>6, <1>7 DEF ReplyChange

\* What was accepted before a request came stays accepted, and its entry, once
\* dead for this request, stays dead.
LEMMA PriorStep == IngestInv /\ [Next]_vars => PriorOK'
<1> SUFFICES ASSUME IngestInv, [Next]_vars, NEW r \in Requests, NEW s \in prior'[r]
             PROVE  /\ reply'[s].code = 202
                    /\ (Fresh(r) /\ idem[key[r]] # NoEntry /\ idem[key[r]].event = s =>
                          idem[key[r]].expires <= now)'
  BY DEF PriorOK
<1>0. TypeOK /\ RequestsOK /\ PriorOK
  BY DEF IngestInv
<1>1. prior'[r] \subseteq Requests /\ key[r] \in Keys
  BY <1>0, IngestTypeStep DEF TypeOK
<1>2. ReplyChange(r) /\ ReplyChange(s) /\ key' = key /\ now \in Nat /\ now' \in Nat /\ now' >= now
  BY <1>0, <1>1, ReplyChanges DEF TypeOK
<1>3. \/ /\ Arrive(r)
         /\ prior'[r] = {q \in Requests : key[q] = key[r] /\ reply[q].code = 202}
      \/ /\ prior'[r] = prior[r]
         /\ pc'[r] \in {pc[r], "done"} \/ Handle(r)
  <2>1. ASSUME NEW q \in Requests, Arrive(q), q # r
        PROVE  prior'[r] = prior[r] /\ pc'[r] = pc[r]
    BY <1>0, <2>1 DEF Arrive, Goto, TypeOK
  <2>2. CASE Arrive(r)
    BY <1>0, <2>2 DEF Arrive, TypeOK
  <2>3. ASSUME NEW q \in Requests, Handle(q)
        PROVE  prior'[r] = prior[r] /\ (q # r => pc'[r] = pc[r])
    BY <1>0, <2>3 DEF Handle, Get, Insert, Publish, Set, Respond, Goto, TypeOK
  <2>4. CASE Tick \/ Crash \/ UNCHANGED vars
    BY <1>0, <2>4 DEF Tick, Crash, vars, TypeOK
  <2> QED BY <2>1, <2>2, <2>3, <2>4 DEF Next, Idle
<1>4. reply[s].code = 202 /\ s \in Requests
  BY <1>0, <1>1, <1>3 DEF PriorOK
<1>5. pc[s] = "done"
  BY <1>0, <1>4 DEF RequestsOK
<1>6. reply'[s] = reply[s]
  BY <1>2, <1>5 DEF ReplyChange
<1>7. CASE Arrive(r)
  <2>1. pc[r] = "unsent" /\ reply[r].code = 0
    BY <1>0, <1>7 DEF Arrive, RequestsOK
  <2>2. reply'[r].code # 202
    BY <1>2, <2>1 DEF ReplyChange
  <2>3. pc'[r] \in {"get", "done"}
    BY <1>0, <1>7 DEF Arrive, Goto, TypeOK
  <2> QED BY <1>4, <1>6, <2>2, <2>3 DEF Fresh
<1>8. CASE prior'[r] = prior[r] /\ (pc'[r] \in {pc[r], "done"} \/ Handle(r))
  <2> SUFFICES ASSUME Fresh(r)', idem'[key[r]] # NoEntry, idem'[key[r]].event = s
               PROVE  idem'[key[r]].expires <= now'
    BY <1>2, <1>4, <1>6
  <2>1. idem[key[r]] # NoEntry
    <3> SUFFICES ASSUME idem[key[r]] = NoEntry PROVE FALSE
      OBVIOUS
    <3>1. PICK q \in Requests : /\ pc[q] = "set"
                                /\ idem' = Stored(key[q], [event |-> q, expires |-> now + TTL])
      BY DEF Next, Handle, Idle, vars, db, Arrive, Get, Insert, Publish, Set, Respond, Tick, Crash
    <3>2. idem'[key[r]] = [event |-> q, expires |-> now + TTL]
      BY <1>0, <1>1, <3>1 DEF Stored, TypeOK
    <3>3. q = s
      BY <3>2
    <3> QED BY <1>5, <3>1, <3>3
  <2>2. idem'[key[r]] = idem[key[r]] /\ idem[key[r]].expires \in Nat
    BY <1>0, <1>1, <2>1, EntriesStep, EntryTyped
  <2>3. CASE Fresh(r)
    BY <1>0, <1>2, <1>8, <2>1, <2>2, <2>3 DEF PriorOK
  <2>4. CASE ~Fresh(r)
    <3>1. reply[r].code # 202 /\ pc[r] \notin {"insert", "publish", "set", "respond"}
      BY <2>4 DEF Fresh
    <3>2. reply'[r].code # 202
      BY <1>2, <3>1 DEF ReplyChange
    <3>3. pc'[r] \in {"insert", "publish", "set", "respond"}
      BY <3>2 DEF Fresh
    <3>4. ~Live(idem[key[r]])
      BY <1>0, <1>8, <3>1, <3>3 DEF Handle, Get, Insert, Publish, Set, Respond, Goto, TypeOK
    <3> QED BY <1>2, <2>1, <2>2, <3>4 DEF Live
  <2> QED BY <2>3, <2>4
<1> QED BY <1>3, <1>7, <1>8

LEMMA IngestStep == IngestInv /\ [Next]_vars => IngestInv'
BY IngestTypeStep, RequestsStep, EntriesStep, RepliesStep, PriorStep DEF IngestInv

LEMMA IngestAlways == Spec => []IngestInv
BY IngestInit, IngestStep, PTL DEF Spec

-----------------------------------------------------------------------------
\* Every variable keeps its type.
THEOREM IngestTypeCorrect == Spec => []TypeOK
<1>1. IngestInv => TypeOK
  BY DEF IngestInv
<1> QED BY <1>1, IngestAlways, PTL

\* The row of an event is there before the queue has its message: a worker that
\* finds no row may drop the message.
THEOREM PersistedFirst == Spec => []PublishedArePersisted
<1>1. IngestInv => PublishedArePersisted
  BY DEF IngestInv
<1> QED BY <1>1, IngestAlways, PTL

\* All replies for a key that come from the store name one event, which exists.
THEOREM RepliesAlwaysAgree == Spec => []RepliesAgree
<1>1. IngestInv => RepliesAgree
  <2> SUFFICES ASSUME IngestInv PROVE RepliesAgree
    OBVIOUS
  <2>0. TypeOK /\ EntriesOK /\ RepliesOK
    BY DEF IngestInv
  <2>1. ASSUME NEW r \in Requests, reply[r].code \in {200, 202}
        PROVE  reply[r].event \in persisted /\ key[reply[r].event] = key[r]
    <3>1. key[r] \in Keys
      BY <2>0 DEF TypeOK
    <3> QED BY <2>0, <2>1, <3>1 DEF EntriesOK, RepliesOK
  <2>2. ASSUME NEW r \in Requests, NEW s \in Requests, key[r] = key[s],
               reply[r].code = 200, reply[s].code = 200
        PROVE  reply[r].event = reply[s].event
    BY <2>0, <2>2 DEF RepliesOK
  <2> QED BY <2>1, <2>2 DEF RepliesAgree
<1> QED BY <1>1, IngestAlways, PTL

\* A request is accepted again only when the entry of the earlier acceptance
\* has expired, however requests interleave and whichever calls fail.
THEOREM LiveEntriesAbsorb == Spec => []LiveEntryAbsorbs
<1>1. IngestInv => LiveEntryAbsorbs
  BY DEF IngestInv, PriorOK, Fresh, LiveEntryAbsorbs
<1> QED BY <1>1, IngestAlways, PTL

-----------------------------------------------------------------------------
\* A request past its publish, and the event of every entry, are in the queue.
SentOK ==
    /\ \A r \in Requests : pc[r] \in {"set", "respond"} \/ reply[r].code = 202 => r \in published
    /\ \A k \in Keys : idem[k] # NoEntry => idem[k].event \in published

LEMMA SentStep ==
    ASSUME "publish" \notin Faults
    PROVE  IngestInv /\ SentOK /\ [Next]_vars => SentOK'
<1> SUFFICES ASSUME IngestInv, SentOK, [Next]_vars PROVE SentOK'
  OBVIOUS
<1>0. TypeOK /\ RequestsOK
  BY DEF IngestInv
<1>1. published \subseteq published'
  BY DEF Next, Handle, Idle, vars, db, Arrive, Get, Insert, Publish, Set, Respond, Tick, Crash
<1>2. ASSUME NEW r \in Requests, pc'[r] \in {"set", "respond"} \/ reply'[r].code = 202
      PROVE  r \in published'
  <2>1. ReplyChange(r)
    BY <1>0, ReplyChanges
  <2>2. CASE reply'[r].code = 202
    <3>1. reply[r].code = 202 \/ pc[r] = "respond"
      BY <2>1, <2>2 DEF ReplyChange
    <3> QED BY <1>1, <3>1 DEF SentOK
  <2>3. CASE pc'[r] \in {"set", "respond"}
    <3>1. CASE pc[r] \in {"set", "respond"}
      BY <1>1, <3>1 DEF SentOK
    <3>2. CASE pc[r] \notin {"set", "respond"}
      <4>1. ASSUME NEW q \in Requests, Arrive(q) \/ Handle(q), q # r PROVE pc'[r] = pc[r]
        BY <1>0, <4>1 DEF Arrive, Handle, Get, Insert, Publish, Set, Respond, Goto, TypeOK
      <4>2. CASE Tick \/ Crash \/ UNCHANGED vars
        BY <1>0, <2>3, <3>2, <4>2 DEF Tick, Crash, vars, TypeOK
      <4>3. ASSUME Arrive(r) \/ Handle(r) PROVE r \in published'
        <5>1. Publish(r)
          BY <1>0, <2>3, <3>2, <4>3 DEF Arrive, Handle, Get, Insert, Set, Respond, Goto, TypeOK
        <5> QED BY <5>1 DEF Publish
      <4> QED BY <2>3, <3>2, <4>1, <4>2, <4>3 DEF Next, Idle
    <3> QED BY <3>1, <3>2
  <2> QED BY <1>2, <2>2, <2>3
<1>3. ASSUME NEW k \in Keys, idem'[k] # NoEntry PROVE idem'[k].event \in published'
  <2>1. CASE idem[k] # NoEntry
    BY <1>1, <2>1, EntriesStep DEF SentOK
  <2>2. CASE idem[k] = NoEntry
    <3>1. PICK r \in Requests : /\ pc[r] = "set"
                                /\ idem' = Stored(key[r], [event |-> r, expires |-> now + TTL])
      BY <1>3, <2>2 DEF Next, Handle, Idle, vars, db, Arrive, Get, Insert, Publish, Set, Respond,
                        Tick, Crash
    <3>2. idem'[k] = [event |-> r, expires |-> now + TTL]
      BY <1>0, <1>3, <2>2, <3>1 DEF Stored, TypeOK
    <3>3. r \in published
      BY <3>1 DEF SentOK
    <3> QED BY <1>1, <3>2, <3>3
  <2> QED BY <2>1, <2>2
<1> QED BY <1>2, <1>3 DEF SentOK

\* When publishing works, an event a client was told of is in the queue,
\* however requests interleave, crash, or fail elsewhere.
THEOREM AnsweredAlwaysPublished ==
    ASSUME "publish" \notin Faults
    PROVE  Spec => []AnsweredIsPublished
<1>1. Init => SentOK
  BY DEF Init, SentOK
<1>2. IngestInv /\ SentOK => AnsweredIsPublished
  <2> SUFFICES ASSUME IngestInv, SentOK, NEW r \in Requests, reply[r].code \in {200, 202}
               PROVE  reply[r].event \in published
    BY DEF AnsweredIsPublished
  <2>1. key[r] \in Keys /\ RepliesOK
    BY DEF IngestInv, TypeOK
  <2> QED BY <2>1 DEF RepliesOK, SentOK
<1> QED BY <1>1, <1>2, IngestAlways, SentStep, PTL DEF Spec

-----------------------------------------------------------------------------
(* What the store absorbs, when storing a key does not fail.                 *)

\* The step of a request is its own, but for the crash that ends it.
LEMMA OwnRequest ==
    ASSUME TypeOK, [Next]_vars, NEW r \in Requests
    PROVE  \/ Arrive(r)
           \/ Handle(r) /\ prior'[r] = prior[r]
           \/ /\ pc'[r] \in {pc[r], "done"} /\ prior'[r] = prior[r]
              /\ r \in persisted' => r \in persisted
<1>1. ASSUME NEW q \in Requests, Arrive(q) \/ Handle(q), q # r
      PROVE  pc'[r] = pc[r] /\ prior'[r] = prior[r] /\ (r \in persisted' => r \in persisted)
  BY <1>1 DEF Arrive, Handle, Get, Insert, Publish, Set, Respond, Goto, TypeOK, db
<1>2. Handle(r) => prior'[r] = prior[r]
  BY DEF Handle, Get, Insert, Publish, Set, Respond
<1>3. CASE Tick \/ Crash \/ UNCHANGED vars
  BY <1>3 DEF Tick, Crash, vars, TypeOK, db
<1> QED BY <1>1, <1>2, <1>3 DEF Next, Idle

\* The lookup of the request found no live entry.
Taken(r) == pc[r] \in {"insert", "publish", "set", "respond"} \/ r \in persisted

Expired(k) == idem[k] # NoEntry /\ idem[k].expires <= now

AbsorbInv ==
    /\ \A r \in Requests : pc[r] = "respond" \/ reply[r].code = 202 => idem[key[r]] # NoEntry
    /\ \A r \in Requests : pc[r] \in {"unsent", "get"} => r \notin persisted
    /\ \A r \in Requests : \A s \in prior[r] : key[s] = key[r]
    /\ \A r \in Requests : Taken(r) /\ prior[r] # {} => Expired(key[r])
    /\ \A k \in Keys : idem[k] # NoEntry => idem[k].expires >= TTL

LEMMA AbsorbStep ==
    ASSUME "set" \notin Faults, IngestInv, AbsorbInv, [Next]_vars
    PROVE  AbsorbInv'
<1>1. TypeOK /\ RequestsOK /\ PriorOK
  BY DEF IngestInv
<1>2. \A r \in Requests : ReplyChange(r) /\ key' = key /\ key[r] \in Keys
  BY <1>1, ReplyChanges DEF TypeOK
<1>3. now \in Nat /\ (\A r \in Requests : now' \in Nat /\ now' >= now)
  BY <1>1, ReplyChanges DEF TypeOK
<1>4. \A k \in Keys : idem[k] # NoEntry =>
        idem'[k] = idem[k] /\ idem[k].expires \in Nat /\ idem[k].expires >= TTL
  BY <1>1, EntriesStep, EntryTyped DEF AbsorbInv
<1>5. ASSUME NEW r \in Requests, Set(r)
      PROVE  idem' = Stored(key[r], [event |-> r, expires |-> now + TTL])
  BY <1>5 DEF Set
<1>6. ASSUME NEW r \in Requests, pc'[r] = "respond" \/ reply'[r].code = 202
      PROVE  idem'[key'[r]] # NoEntry
  <2>1. CASE pc[r] = "respond" \/ reply[r].code = 202
    BY <1>2, <1>4, <2>1 DEF AbsorbInv
  <2>2. CASE Set(r)
    <3>1. [event |-> r, expires |-> now + TTL] # NoEntry
      BY <1>3, IngestAssumption
    <3> QED BY <1>1, <1>2, <1>5, <2>2, <3>1 DEF Stored, TypeOK
  <2>3. (pc[r] = "respond" \/ reply[r].code = 202) \/ Set(r)
    <3>1. CASE reply'[r].code = 202
      <4>1. ReplyChange(r)
        BY <1>2
      <4> QED BY <3>1, <4>1 DEF ReplyChange
    <3>2. CASE pc'[r] = "respond"
      BY <1>1, <3>2, OwnRequest DEF Arrive, Handle, Get, Insert, Publish, Respond, Goto, TypeOK
    <3> QED BY <1>6, <3>1, <3>2
  <2> QED BY <2>1, <2>2, <2>3
<1>7. ASSUME NEW r \in Requests, pc'[r] \in {"unsent", "get"} PROVE r \notin persisted'
  <2>1. pc[r] \in {"unsent", "get"} /\ (Arrive(r) \/ ~Handle(r))
    BY <1>1, <1>7, OwnRequest DEF Arrive, Handle, Get, Insert, Publish, Set, Respond, Goto, TypeOK
  <2>2. r \notin persisted
    BY <2>1 DEF AbsorbInv
  <2> QED BY <1>1, <2>1, <2>2, OwnRequest DEF Arrive, db
<1>8. ASSUME NEW r \in Requests, NEW s \in prior'[r] PROVE key'[s] = key'[r]
  <2>1. CASE prior'[r] = prior[r]
    BY <1>2, <1>8, <2>1 DEF AbsorbInv
  <2>2. CASE Arrive(r)
    BY <1>1, <1>2, <1>8, <2>2 DEF Arrive, TypeOK
  <2> QED BY <1>1, <2>1, <2>2, OwnRequest
<1>9. ASSUME NEW r \in Requests, Taken(r)', prior'[r] # {} PROVE Expired(key[r])'
  <2>1. CASE Arrive(r)
    <3>1. pc'[r] \in {"get", "done"} /\ persisted' = persisted /\ pc[r] = "unsent"
      BY <1>1, <2>1 DEF Arrive, Goto, TypeOK, db
    <3> QED BY <1>9, <3>1 DEF Taken, AbsorbInv
  <2>2. CASE prior'[r] = prior[r] /\ Expired(key[r])
    BY <1>2, <1>3, <1>4, <2>2 DEF Expired
  <2>3. CASE prior'[r] = prior[r] /\ ~Taken(r) /\ Handle(r)
    <3>1. pc[r] = "get" /\ ~Live(idem[key[r]])
      BY <1>1, <1>9, <2>3 DEF Taken, Handle, Get, Insert, Publish, Set, Respond, Goto, TypeOK, db
    <3>2. PICK s \in prior[r] : key[s] = key[r] /\ reply[s].code = 202 /\ s \in Requests
      BY <1>1, <1>9, <2>3 DEF AbsorbInv, PriorOK, TypeOK
    <3>3. idem[key[r]] # NoEntry
      BY <3>2 DEF AbsorbInv
    <3>4. Expired(key[r])
      BY <1>2, <1>3, <1>4, <3>1, <3>3 DEF Live, Expired
    <3> QED BY <2>2, <2>3, <3>4
  <2>4. Taken(r) /\ prior[r] # {} => Expired(key[r])
    BY DEF AbsorbInv
  <2>5. ~Arrive(r) => prior'[r] = prior[r] /\ (Taken(r) \/ Handle(r))
    BY <1>1, <1>9, OwnRequest DEF Taken
  <2> QED BY <1>9, <2>1, <2>2, <2>3, <2>4, <2>5
<1>10. ASSUME NEW k \in Keys, idem'[k] # NoEntry PROVE idem'[k].expires >= TTL
  <2>1. CASE idem[k] # NoEntry
    BY <1>4, <2>1
  <2>2. CASE idem[k] = NoEntry
    <3>1. PICK r \in Requests : idem' = Stored(key[r], [event |-> r, expires |-> now + TTL])
      BY <1>10, <2>2 DEF Next, Handle, Idle, vars, db, Arrive, Get, Insert, Publish, Set, Respond,
                         Tick, Crash
    <3>2. idem'[k].expires = now + TTL
      BY <1>1, <1>10, <2>2, <3>1 DEF Stored, TypeOK
    <3> QED BY <1>3, <3>2, IngestAssumption
  <2> QED BY <2>1, <2>2
<1> QED BY <1>2, <1>6, <1>7, <1>8, <1>9, <1>10 DEF AbsorbInv

LEMMA AbsorbAlways ==
    ASSUME "set" \notin Faults
    PROVE  Spec => [](IngestInv /\ AbsorbInv)
<1>1. Init => AbsorbInv
  BY DEF Init, AbsorbInv, Taken
<1> QED BY <1>1, IngestInit, IngestStep, AbsorbStep, PTL DEF Spec

\* A request that came after an acceptance of its key is accepted only when the
\* entry the store has for the key, whosever it is, has expired.
AcceptedAgainOnlyExpired ==
    \A r \in Requests : reply[r].code = 202 /\ prior[r] # {} => Expired(key[r])

\* When storing a key does not fail, a key is used again only after it expired,
\* however requests interleave, fail elsewhere, or die with the server.
THEOREM AcceptedAgainAfterExpiry ==
    ASSUME "set" \notin Faults
    PROVE  Spec => []AcceptedAgainOnlyExpired
<1>1. IngestInv /\ AbsorbInv => AcceptedAgainOnlyExpired
  BY DEF IngestInv, RepliesOK, AbsorbInv, Taken, AcceptedAgainOnlyExpired
<1> QED BY <1>1, AbsorbAlways, PTL

\* Before the first entry can expire, no second event comes of a key.
LEMMA NoneTaken ==
    ASSUME MaxTime < TTL, IngestInv, AbsorbInv, NEW r \in Requests, Taken(r)
    PROVE  prior[r] = {}
<1> SUFFICES ASSUME prior[r] # {} PROVE FALSE
  OBVIOUS
<1>1. TypeOK /\ key[r] \in Keys
  BY DEF IngestInv, TypeOK
<1>2. Expired(key[r])
  BY DEF AbsorbInv
<1>3. idem[key[r]].expires \in Nat /\ idem[key[r]].expires >= TTL /\ idem[key[r]].expires <= now
  BY <1>1, <1>2, EntryTyped DEF AbsorbInv, Expired
<1>4. now \in Nat /\ now <= MaxTime
  BY <1>1, IngestAssumption DEF TypeOK
<1> QED BY <1>3, <1>4, IngestAssumption

\* A request that came after an acceptance of its key inserts no event.
DuplicatesInsertNothing == \A r \in persisted : prior[r] = {}

\* While the first entries live, a duplicate of an acceptance leaves no trace in
\* webhook_events: nothing for a worker to process.
THEOREM DuplicatesNeverInsert ==
    ASSUME "set" \notin Faults, MaxTime < TTL
    PROVE  Spec => []DuplicatesInsertNothing
<1>1. IngestInv /\ AbsorbInv => DuplicatesInsertNothing
  BY NoneTaken DEF DuplicatesInsertNothing, Taken, IngestInv, TypeOK
<1> QED BY <1>1, AbsorbAlways, PTL

\* While the first entries live, a duplicate of an acceptance is absorbed. Once
\* an entry has expired it is not: see the run expired_key_reused.
THEOREM AbsorbedInFirstTTL ==
    ASSUME "set" \notin Faults, MaxTime < TTL
    PROVE  Spec => []AbsorbedWithinTTL
<1>1. IngestInv /\ AbsorbInv => AbsorbedWithinTTL
  BY NoneTaken DEF AbsorbedWithinTTL, Taken, IngestInv, RepliesOK
<1> QED BY <1>1, AbsorbAlways, PTL
=============================================================================
