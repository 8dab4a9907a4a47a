---------------------------- MODULE WebhookIngest ----------------------------
(***************************************************************************)
(* The synchronous half of the platform: concurrent POST /webhooks/events  *)
(* requests (internal/app/http/handler/webhook.go), the IngestEvent use    *)
(* case, and the idempotency store they share.                             *)
(*                                                                         *)
(* A request is a process that makes four calls: look the key up, insert   *)
(* the event, publish it, store the key.  Any of them may fail, before or  *)
(* after its effect took place, and the server may crash between them.  A  *)
(* request inserts at most one event, under a fresh UUID: the request      *)
(* itself stands for that id.  The clock is a counter of ticks.            *)
(***************************************************************************)
EXTENDS Integers, FiniteSets

CONSTANTS
    Requests,     \* requests, and the ids of the events they insert
    Keys,         \* idempotency keys
    NoEntry,      \* no row in idempotency_keys
    TTL,          \* IDEMPOTENCY_TTL, in ticks
    Faults,       \* the calls that may fail
    MaxInFlight,  \* bound: requests handled at a time
    MaxTime,      \* bound: ticks of the clock
    MaxCrashes    \* bound: crashes of the server

Calls == {"get", "insert", "publish", "set"}

ASSUME IngestAssumption ==
    /\ TTL \in Nat \ {0}
    /\ Faults \subseteq Calls
    /\ MaxInFlight \in Nat /\ MaxTime \in Nat /\ MaxCrashes \in Nat
    /\ NoEntry \notin [event : Requests, expires : Nat]

VARIABLES
    now,        \* the clock
    pc,         \* what a request does next
    key,        \* the idempotency key of a request
    idem,       \* idempotency_keys: [event, expires] by key, or NoEntry
    persisted,  \* ids in webhook_events
    published,  \* ids of events the queue accepted
    reply,      \* the response of a request: [code, event]; code 0 is none
    promise,    \* when the key of an accepted request may be used again
    prior,      \* requests for the same key answered 202 before this one came
    crashes     \* crashes so far

db   == <<idem, persisted, published>>
vars == <<now, pc, key, db, reply, promise, prior, crashes>>

Entries  == [event : Requests, expires : Nat]
InFlight == {r \in Requests : pc[r] \in Calls \cup {"respond"}}

\* The reply of r once it is complete; event is r itself in a reply without one.
Reply(r, code, event) == reply' = [reply EXCEPT ![r] = [code |-> code, event |-> event]]
Goto(r, next)         == pc' = [pc EXCEPT ![r] = next]

Init ==
    /\ now = 0
    /\ pc = [r \in Requests |-> "unsent"]
    /\ key \in [Requests -> Keys]
    /\ idem = [k \in Keys |-> NoEntry]
    /\ persisted = {}
    /\ published = {}
    /\ reply = [r \in Requests |-> [code |-> 0, event |-> r]]
    /\ promise = [r \in Requests |-> 0]
    /\ prior = [r \in Requests |-> {}]
    /\ crashes = 0

-----------------------------------------------------------------------------
\* A request arrives: rejected for its content type, body or fields (415, 400
\* and 422, one code here), or on its way to the store.
Arrive(r) ==
    /\ pc[r] = "unsent"
    /\ Cardinality(InFlight) < MaxInFlight
    /\ prior' = [prior EXCEPT ![r] = {s \in Requests : key[s] = key[r] /\ reply[s].code = 202}]
    /\ \/ Goto(r, "get") /\ UNCHANGED reply
       \/ Goto(r, "done") /\ Reply(r, 400, r)
    /\ UNCHANGED <<now, key, db, promise, crashes>>

\* Faulty variant: an entry is dead one tick before it expires.
LiveTooShort(entry) == entry # NoEntry /\ entry.expires > now + 1

\* The row IdempotencyStore.Get selects.
Live(entry) == entry # NoEntry /\ entry.expires > now

\* Get, and the replay of the stored response when there is a live entry.
Get(r) ==
    /\ pc[r] = "get"
    /\ \/ /\ Live(idem[key[r]])
          /\ Goto(r, "done") /\ Reply(r, 200, idem[key[r]].event)
       \/ /\ ~Live(idem[key[r]])
          /\ Goto(r, "insert") /\ UNCHANGED reply
       \/ /\ "get" \in Faults
          /\ Goto(r, "done") /\ Reply(r, 500, r)
    /\ UNCHANGED <<now, key, db, promise, prior, crashes>>

\* Faulty variant: an error of Insert does not end the use case.
InsertIgnoringError(r) ==
    /\ pc[r] = "insert"
    /\ persisted' \in {persisted \cup {r}} \cup (IF "insert" \in Faults THEN {persisted} ELSE {})
    /\ Goto(r, "publish")
    /\ UNCHANGED <<now, key, idem, published, reply, promise, prior, crashes>>

\* EventRepository.Insert.  An error ends the request with 500; the row may
\* exist all the same.
Insert(r) ==
    /\ pc[r] = "insert"
    /\ \/ /\ persisted' = persisted \cup {r}
          /\ Goto(r, "publish") /\ UNCHANGED reply
       \/ /\ "insert" \in Faults
          /\ persisted' \in {persisted, persisted \cup {r}}
          /\ Goto(r, "done") /\ Reply(r, 500, r)
    /\ UNCHANGED <<now, key, idem, published, promise, prior, crashes>>

\* Faulty variant: a producer that does not wait for the broker.
PublishAsync(r) ==
    /\ pc[r] = "publish"
    /\ Goto(r, "set")
    /\ published' \in {published, published \cup {r}}
    /\ UNCHANGED <<now, key, idem, persisted, reply, promise, prior, crashes>>

\* EventPublisher.Publish: a failure is logged, and the request goes on.
Publish(r) ==
    /\ pc[r] = "publish"
    /\ Goto(r, "set")
    /\ \/ published' = published \cup {r}
       \/ "publish" \in Faults /\ UNCHANGED published
    /\ UNCHANGED <<now, key, idem, persisted, reply, promise, prior, crashes>>

\* IdempotencyStore.Set of entry under k: ON CONFLICT DO UPDATE and DO NOTHING.
StoredReplacing(k, entry) == [idem EXCEPT ![k] = entry]
Stored(k, entry) == [idem EXCEPT ![k] = IF @ = NoEntry THEN entry ELSE @]

\* A failure to store the key is logged, and the request goes on.
Set(r) ==
    /\ pc[r] = "set"
    /\ Goto(r, "respond")
    /\ promise' = [promise EXCEPT ![r] = now + TTL]
    /\ \/ idem' = Stored(key[r], [event |-> r, expires |-> now + TTL])
       \/ "set" \in Faults /\ UNCHANGED idem
    /\ UNCHANGED <<now, key, persisted, published, reply, prior, crashes>>

\* Faulty variant: a code the API does not document.
RespondCreated(r) ==
    /\ pc[r] = "respond"
    /\ Goto(r, "done")
    /\ Reply(r, 201, r)
    /\ UNCHANGED <<now, key, db, promise, prior, crashes>>

Respond(r) ==
    /\ pc[r] = "respond"
    /\ Goto(r, "done")
    /\ Reply(r, 202, r)
    /\ UNCHANGED <<now, key, db, promise, prior, crashes>>

-----------------------------------------------------------------------------
Tick ==
    /\ now < MaxTime
    /\ now' = now + 1
    /\ UNCHANGED <<pc, key, db, reply, promise, prior, crashes>>

\* The server dies: its requests in flight are never answered.
Crash ==
    /\ crashes < MaxCrashes
    /\ crashes' = crashes + 1
    /\ pc' = [r \in Requests |-> IF r \in InFlight THEN "done" ELSE pc[r]]
    /\ UNCHANGED <<now, key, db, reply, promise, prior>>

\* No request is left.
Idle == (\A r \in Requests : pc[r] = "done") /\ UNCHANGED vars

Handle(r) == Get(r) \/ Insert(r) \/ Publish(r) \/ Set(r) \/ Respond(r)

Next == (\E r \in Requests : Arrive(r) \/ Handle(r)) \/ Tick \/ Crash \/ Idle

Spec == Init /\ [][Next]_vars

-----------------------------------------------------------------------------
TypeOK ==
    /\ now \in 0..MaxTime
    /\ pc \in [Requests -> Calls \cup {"unsent", "respond", "done"}]
    /\ key \in [Requests -> Keys]
    /\ idem \in [Keys -> Entries \cup {NoEntry}]
    /\ persisted \subseteq Requests
    /\ published \subseteq Requests
    /\ reply \in [Requests -> [code : {0, 200, 202, 400, 500}, event : Requests]]
    /\ promise \in [Requests -> Nat]
    /\ prior \in [Requests -> SUBSET Requests]
    /\ crashes \in 0..MaxCrashes

\* An event is in PostgreSQL before any message about it is in the queue: the
\* worker takes a message without a row for a handled one and drops it.
\* (ingest_event.go:56-71, process_event.go:46)
PublishedArePersisted == published \subseteq persisted

\* Every duplicate answered from the store names the same event, which exists
\* and was inserted for that key; so does every acceptance.
\* (webhook.go:143-155, idempotency_store.go:57-60)
RepliesAgree ==
    /\ \A r \in Requests : reply[r].code \in {200, 202} =>
         /\ reply[r].event \in persisted
         /\ key[reply[r].event] = key[r]
    /\ \A r, s \in Requests : key[r] = key[s] /\ reply[r].code = 200 /\ reply[s].code = 200 =>
         reply[r].event = reply[s].event

\* A request that comes after an acceptance whose entry is in the store is
\* accepted again only when that entry has expired.  (webhook.go:134-155)
LiveEntryAbsorbs ==
    \A r \in Requests : reply[r].code = 202 =>
        \A s \in prior[r] : idem[key[r]] # NoEntry /\ idem[key[r]].event = s =>
            idem[key[r]].expires <= now

\* When publishing works, an event a client was told of, by an acceptance or by
\* a replay, is in the queue, whatever crashes.  (webhook.go:158-186)
AnsweredIsPublished ==
    \A r \in Requests : reply[r].code \in {200, 202} => reply[r].event \in published

\* "duplicate requests are safely absorbed, not double-processed": at most one
\* event of a key reaches the queue.  (README.md:16)
OnePublishedPerKey ==
    \A r, s \in published : key[r] = key[s] => r = s

\* "Duplicate requests within the TTL window return the original response": a
\* request is not accepted within the TTL of an acceptance of its key that came
\* before it.  (README.md:127-129)
AbsorbedWithinTTL ==
    \A r \in Requests : reply[r].code = 202 =>
        \A s \in prior[r] : promise[s] <= now
=============================================================================
