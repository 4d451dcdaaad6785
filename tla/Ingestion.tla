------------------------------ MODULE Ingestion ------------------------------
(***************************************************************************)
(* Ingestion of sensor records (src/backend/app/ingestion.py) by API       *)
(* workers that run at the same time, in one or several replicas.          *)
(*                                                                         *)
(* The five handlers share one transaction: lock the event id, answer a    *)
(* replay, lock "site:ip", load the asset FOR UPDATE, create or update it, *)
(* insert the observation, then the protocol event, append the audit       *)
(* record, commit.  Every lock lasts to the end of the transaction.  A     *)
(* worker that fails, between the two inserts too, rolls back; the sensor  *)
(* sends the record again, and may also send it again because the answer   *)
(* was lost.                                                               *)
(*                                                                         *)
(* Of the protocols only what the asset row keeps is modelled; identities  *)
(* and firmware are in FirmwareDrift, the hash chain in AuditChain.        *)
(***************************************************************************)
EXTENDS Integers, Sequences, FiniteSets

CONSTANTS Workers,       \* API workers handling requests
          Events,        \* the records sensors deliver
          EventId,       \* event -> its sensor_event_id, or NoId
          Address,       \* event -> site and ip of the asset it is about
          ObservedAt,    \* event -> time of capture
          Protocol,      \* event -> protocol
          Mac,           \* event -> mac address of the asset, or NoMac
          NoId, NoMac, NoEvent,
          MaxDeliveries  \* bound on the requests sensors send

ASSUME EventsAssumption ==
  /\ NoEvent \notin Events
  /\ \A e \in Events : ObservedAt[e] \in Nat
  /\ MaxDeliveries \in Nat

VARIABLES assets,          \* committed rows of assets
          observations,    \* committed rows of observations
          protocolEvents,  \* committed rows of protocol_events
          auditLog,        \* committed asset.* records, oldest first
          nextAsset,       \* fresh asset ids
          nextObservation, \* the BIGSERIAL of observations
          nextProtocolEvent, \* and that of protocol_events
          txn,             \* each worker's open transaction
          held,            \* the advisory locks each worker holds
          replies,         \* every 201 answer sent, and every 409
          uniqueErrors,    \* events answered 500 by a unique constraint
          deliveries       \* requests sent so far

vars == <<assets, observations, protocolEvents, auditLog, nextAsset, nextObservation,
          nextProtocolEvent, txn, held, replies, uniqueErrors, deliveries>>
database == <<assets, observations, protocolEvents, auditLog>>
sequences == <<nextAsset, nextObservation, nextProtocolEvent>>

-----------------------------------------------------------------------------
Ids == {EventId[e] : e \in Events} \ {NoId}
Addresses == {Address[e] : e \in Events}
Protocols == {Protocol[e] : e \in Events}
Macs == {Mac[e] : e \in Events} \cup {NoMac}
Times == {ObservedAt[e] : e \in Events}

\* hashtextextended of the event id and of "site:ip", and the audit lock.
AuditLock == <<"audit">>
EventLock(e) == <<"event", EventId[e]>>
AddressLock(e) == <<"address", Address[e]>>
LockKeys == {AuditLock} \cup {AddressLock(e) : e \in Events}
            \cup {EventLock(e) : e \in Events}

Asset == [id : Nat, address : Addresses, mac : Macs, protocols : SUBSET Protocols,
          first_seen : Times, last_seen : Times]
NoAsset == [id |-> 0]
Observation == [id : Nat, event : Events, asset_id : Nat]
ProtocolEvent == [id : Nat, observation_id : Nat, asset_id : Nat]
AuditRecord == [action : {"asset.discovered", "asset.observed"}, object_id : Nat]
Reply == [event : Events, asset_id : Nat, observation_id : Nat,
          protocol_event_id : Nat, created_asset : BOOLEAN]

Phases == {"event_lock", "lookup", "address_lock", "load", "insert", "insert_event",
           "audit_lock", "commit"}
Idle == [phase |-> "idle", event |-> NoEvent, asset |-> NoAsset, created |-> FALSE,
         observation_id |-> 0, protocol_event_id |-> 0]
Transaction == [phase : Phases, event : Events, asset : Asset \cup {NoAsset},
                created : BOOLEAN, observation_id : Nat, protocol_event_id : Nat]

Busy(w) == txn[w].phase # "idle"

Free(w, key) == \A v \in Workers \ {w} : key \notin held[v]
\* The asset row FOR UPDATE: no other open transaction has loaded it.
RowFree(w, a) == \A v \in Workers \ {w} : txn[v].asset.id # a.id

Lesser(a, b) == IF a < b THEN a ELSE b
Greater(a, b) == IF a > b THEN a ELSE b

\* The row a handler inserts for an address it has not seen.
NewAsset(e) ==
  [id |-> nextAsset, address |-> Address[e], mac |-> Mac[e],
   protocols |-> {Protocol[e]},
   first_seen |-> ObservedAt[e], last_seen |-> ObservedAt[e]]

\* Mutant: the latest delivery is taken for the latest capture.
TouchLatest(a, e) ==
  [a EXCEPT !.last_seen = ObservedAt[e],
            !.protocols = @ \cup {Protocol[e]},
            !.mac = IF @ = NoMac THEN Mac[e] ELSE @]

\* What a handler does to a row it has found: captures may arrive late, so
\* both ends of the period of observation may move.
Touch(a, e) ==
  [a EXCEPT !.first_seen = Lesser(@, ObservedAt[e]),
            !.last_seen = Greater(@, ObservedAt[e]),
            !.protocols = @ \cup {Protocol[e]},
            !.mac = IF @ = NoMac THEN Mac[e] ELSE @]

-----------------------------------------------------------------------------
Init ==
  /\ assets = {} /\ observations = {} /\ protocolEvents = {} /\ auditLog = <<>>
  /\ nextAsset = 1 /\ nextObservation = 1 /\ nextProtocolEvent = 1
  /\ txn = [w \in Workers |-> Idle]
  /\ held = [w \in Workers |-> {}]
  /\ replies = {} /\ uniqueErrors = {} /\ deliveries = 0

Goto(w, phase) == txn' = [txn EXCEPT ![w].phase = phase]
Take(w, key) == held' = [held EXCEPT ![w] = @ \cup {key}]

\* Mutant: session-level locks outlive the transaction.
FinishKeepsLocks(w) == /\ txn' = [txn EXCEPT ![w] = Idle]
                       /\ UNCHANGED held

Finish(w) == /\ txn' = [txn EXCEPT ![w] = Idle]
             /\ held' = [held EXCEPT ![w] = {}]

\* A sensor posts a record, for the first time or again.  Records of older
\* sensors carry no id and skip the replay lookup.
Receive(w, e) ==
  /\ ~Busy(w)
  /\ deliveries < MaxDeliveries
  /\ deliveries' = deliveries + 1
  /\ txn' = [txn EXCEPT ![w] = [Idle EXCEPT !.event = e,
               !.phase = IF EventId[e] = NoId THEN "address_lock" ELSE "event_lock"]]
  /\ UNCHANGED <<database, sequences, held, replies, uniqueErrors>>

\* existing_ingest_result serializes the deliveries of one event.
LockEvent(w) ==
  LET key == EventLock(txn[w].event)
  IN  /\ txn[w].phase = "event_lock"
      /\ Free(w, key)
      /\ Take(w, key)
      /\ Goto(w, "lookup")
      /\ UNCHANGED <<database, sequences, replies, uniqueErrors, deliveries>>

StoredAs(e) == {o \in observations : EventId[o.event] = EventId[e]}

\* No observation has the event's id: the handler goes on.
NotStored(w) ==
  /\ txn[w].phase = "lookup"
  /\ StoredAs(txn[w].event) = {}
  /\ Goto(w, "address_lock")
  /\ UNCHANGED <<database, sequences, held, replies, uniqueErrors, deliveries>>

\* A 201 names the rows; the 409 of an observation that has no protocol event
\* names none.
Created(e, asset_id, observation_id, protocol_event_id, created_asset) ==
  [event |-> e, asset_id |-> asset_id, observation_id |-> observation_id,
   protocol_event_id |-> protocol_event_id, created_asset |-> created_asset]
Conflict(e) == Created(e, 0, 0, 0, FALSE)

\* Mutant: the protocol event is taken to have the id of its observation.
OriginalsBySameId(e, o) ==
  LET same == {p \in protocolEvents : p.id = o.id}
  IN  IF same = {} THEN {Conflict(e)}
      ELSE {Created(e, o.asset_id, o.id, p.id, FALSE) : p \in same}

\* The answers to a replay of e, stored as the observation o.
Originals(e, o) ==
  LET its == {p \in protocolEvents : p.observation_id = o.id}
  IN  IF its = {} THEN {Conflict(e)}
      ELSE {Created(e, o.asset_id, o.id, p.id, FALSE) : p \in its}

\* The event is stored: the original ids are the answer.
AnswerReplay(w) ==
  LET e == txn[w].event
  IN  /\ txn[w].phase = "lookup"
      /\ \E o \in StoredAs(e) : \E answer \in Originals(e, o) :
           replies' = replies \cup {answer}
      /\ Finish(w)
      /\ UNCHANGED <<database, sequences, uniqueErrors, deliveries>>

\* Mutant: the "site:ip" lock is not taken.
SkipAddressLock(w) ==
  /\ txn[w].phase = "address_lock"
  /\ Goto(w, "load")
  /\ UNCHANGED <<database, sequences, held, replies, uniqueErrors, deliveries>>

\* "Prevent two sensors creating the same site/IP asset concurrently."
LockAddress(w) ==
  LET key == AddressLock(txn[w].event)
  IN  /\ txn[w].phase = "address_lock"
      /\ Free(w, key)
      /\ Take(w, key)
      /\ Goto(w, "load")
      /\ UNCHANGED <<database, sequences, replies, uniqueErrors, deliveries>>

\* SELECT ... FOR UPDATE finds no asset: one is created.
CreateAsset(w) ==
  LET e == txn[w].event
  IN  /\ txn[w].phase = "load"
      /\ \A a \in assets : a.address # Address[e]
      /\ txn' = [txn EXCEPT ![w].asset = NewAsset(e), ![w].created = TRUE,
                            ![w].phase = "insert"]
      /\ nextAsset' = nextAsset + 1
      /\ UNCHANGED <<database, nextObservation, nextProtocolEvent, held, replies,
                     uniqueErrors, deliveries>>

\* SELECT ... FOR UPDATE finds the asset: it is updated.
UpdateAsset(w) ==
  LET e == txn[w].event
  IN  /\ txn[w].phase = "load"
      /\ \E a \in assets :
           /\ a.address = Address[e]
           /\ RowFree(w, a)
           /\ txn' = [txn EXCEPT ![w].asset = Touch(a, e), ![w].phase = "insert"]
      /\ UNCHANGED <<database, sequences, held, replies, uniqueErrors, deliveries>>

\* uq_assets_site_ip and the unique sensor_event_id, against what is committed.
Duplicate(w) ==
  LET e == txn[w].event
  IN  \/ \E a \in assets : a.address = Address[e] /\ a.id # txn[w].asset.id
      \/ EventId[e] # NoId /\ StoredAs(e) # {}

\* A unique index makes an insert wait for an open transaction that has
\* inserted the same key.
InsertBlocked(w) ==
  \E v \in Workers \ {w} :
    /\ txn[v].phase \in {"insert_event", "audit_lock", "commit"}
    /\ \/ EventId[txn[w].event] # NoId /\ EventId[txn[v].event] = EventId[txn[w].event]
       \/ txn[w].created /\ txn[v].created
          /\ Address[txn[v].event] = Address[txn[w].event]

\* The flushes of the asset and of the observation.
InsertObservation(w) ==
  /\ txn[w].phase = "insert"
  /\ ~InsertBlocked(w)
  /\ IF Duplicate(w)
     THEN /\ uniqueErrors' = uniqueErrors \cup {txn[w].event}
          /\ Finish(w)
     ELSE /\ txn' = [txn EXCEPT ![w].phase = "insert_event",
                                ![w].observation_id = nextObservation]
          /\ UNCHANGED <<held, uniqueErrors>>
  /\ nextObservation' = nextObservation + 1
  /\ UNCHANGED <<database, nextAsset, nextProtocolEvent, replies, deliveries>>

\* The flush of the protocol event, which names the observation.
InsertProtocolEvent(w) ==
  /\ txn[w].phase = "insert_event"
  /\ txn' = [txn EXCEPT ![w].phase = "audit_lock",
                        ![w].protocol_event_id = nextProtocolEvent]
  /\ nextProtocolEvent' = nextProtocolEvent + 1
  /\ UNCHANGED <<database, nextAsset, nextObservation, held, replies, uniqueErrors,
                 deliveries>>

\* append_audit_log.
LockAudit(w) ==
  /\ txn[w].phase = "audit_lock"
  /\ Free(w, AuditLock)
  /\ Take(w, AuditLock)
  /\ Goto(w, "commit")
  /\ UNCHANGED <<database, sequences, replies, uniqueErrors, deliveries>>

\* Mutant: "discovered" is decided from the inventory at commit.
DiscoveryOfUnknownOnly(w) ==
  IF assets = {} THEN "asset.discovered" ELSE "asset.observed"

AuditAction(w) == IF txn[w].created THEN "asset.discovered" ELSE "asset.observed"

StoreEvidence(w) ==
  LET t == txn[w]
  IN  /\ observations' = observations \cup
           {[id |-> t.observation_id, event |-> t.event, asset_id |-> t.asset.id]}
      /\ protocolEvents' = protocolEvents \cup
           {[id |-> t.protocol_event_id, observation_id |-> t.observation_id,
             asset_id |-> t.asset.id]}

\* session.commit(), and the answer.
Commit(w) ==
  LET t == txn[w]
  IN  /\ t.phase = "commit"
      /\ assets' = {a \in assets : a.id # t.asset.id} \cup {t.asset}
      /\ StoreEvidence(w)
      /\ auditLog' = Append(auditLog, [action |-> AuditAction(w), object_id |-> t.asset.id])
      /\ replies' = replies \cup
           {Created(t.event, t.asset.id, t.observation_id, t.protocol_event_id, t.created)}
      /\ Finish(w)
      /\ UNCHANGED <<sequences, uniqueErrors, deliveries>>

\* A database error, a lost connection or the death of the worker.
Fail(w) ==
  /\ Busy(w)
  /\ Finish(w)
  /\ UNCHANGED <<database, sequences, replies, uniqueErrors, deliveries>>

Step(w) == \/ LockEvent(w)         \/ NotStored(w)           \/ AnswerReplay(w)
           \/ LockAddress(w)       \/ CreateAsset(w)         \/ UpdateAsset(w)
           \/ InsertObservation(w) \/ InsertProtocolEvent(w)
           \/ LockAudit(w)         \/ Commit(w)

Next == \E w \in Workers : \/ \E e \in Events : Receive(w, e)
                           \/ Step(w)
                           \/ Fail(w)

Spec == Init /\ [][Next]_vars

\* A worker goes on with its request; PostgreSQL queues the waiters of a
\* lock.  Sensors need not send anything and workers need not fail.
FairSpec ==
  /\ Spec
  /\ \A w \in Workers :
       /\ WF_vars(Step(w))
       /\ SF_vars(LockEvent(w) \/ LockAddress(w) \/ LockAudit(w))

-----------------------------------------------------------------------------
\* Every variable has its type, and no advisory lock has two holders.
TypeOK ==
  /\ assets \subseteq Asset
  /\ observations \subseteq Observation
  /\ protocolEvents \subseteq ProtocolEvent
  /\ auditLog \in Seq(AuditRecord)
  /\ nextAsset \in Nat /\ nextObservation \in Nat /\ nextProtocolEvent \in Nat
  /\ txn \in [Workers -> Transaction \cup {Idle}]
  /\ held \in [Workers -> SUBSET LockKeys]
  /\ \A w, v \in Workers : w # v => held[w] \cap held[v] = {}
  /\ replies \subseteq Reply
  /\ uniqueErrors \subseteq Events
  /\ deliveries \in 0..MaxDeliveries

\* The locks make the unique constraints a second line of defence: no
\* delivery, however it races a retry of the same event or another sensor
\* discovering the same asset, is answered 500 by one.
ConstraintsNeverFire == uniqueErrors = {}

\* The asset row is the summary of its committed observations, although they
\* arrive in any order and from several sensors at once: no update is lost.
AssetSummarisesObservations ==
  \A a \in assets :
    LET seen == {o.event : o \in {x \in observations : x.asset_id = a.id}}
        times == {ObservedAt[e] : e \in seen}
        macs == {Mac[e] : e \in seen} \ {NoMac}
    IN  /\ a.first_seen \in times /\ \A t \in times : a.first_seen <= t
        /\ a.last_seen \in times /\ \A t \in times : t <= a.last_seen
        /\ a.protocols = {Protocol[e] : e \in seen}
        /\ a.mac \in IF macs = {} THEN {NoMac} ELSE macs

\* The audit log tells the inventory's story: an asset's first record, and
\* only that, says "asset.discovered", and it has one per observation.
AuditMatchesInventory ==
  \A a \in assets :
    LET about == {i \in DOMAIN auditLog : auditLog[i].object_id = a.id}
        discovered == {i \in about : auditLog[i].action = "asset.discovered"}
    IN  /\ Cardinality(about) =
             Cardinality({o \in observations : o.asset_id = a.id})
        /\ Cardinality(discovered) = 1
        /\ \A i \in discovered, j \in about : i <= j

\* What an identified event is stored as, and the answers about such events.
NotYet == <<>>
EventsOf(o) == {p.id : p \in {x \in protocolEvents : x.observation_id = o.id}}
RowsOf(found) ==
  IF found = {} THEN NotYet
  ELSE LET o == CHOOSE x \in found : TRUE IN <<o.asset_id, o.id, EventsOf(o)>>

Rows(i) == RowsOf({o \in observations : EventId[o.event] = i})
Stored == [i \in Ids |-> Rows(i)]
Named(r) == <<r.asset_id, r.observation_id, {r.protocol_event_id}>>
Answered == {<<EventId[r.event], Named(r)>> :
               r \in {x \in replies : EventId[x.event] # NoId}}

Inbox == INSTANCE EventInbox
  WITH NoResult <- NotYet, answered <- Answered, stored <- Stored

\* Each identified event is stored at most once, as one observation with one
\* protocol event, and every delivery of it is answered with these rows: the
\* 409 of ingestion.py:42-46 is never sent.
ImplementsInbox == Inbox!Spec

\* Whatever locks it has to wait for, a request comes to an end: the order
\* event, address, row, audit admits no cycle of waiting workers.
RequestsEnd == \A w \in Workers : Busy(w) ~> ~Busy(w)
=============================================================================
