--------------------------- MODULE Evidence_proofs ---------------------------
(***************************************************************************)
(* Machine-checked proofs about the path of evidence.                      *)
(*                                                                         *)
(* Ingestion: no delivery meets a unique constraint, an asset row is the   *)
(* summary of its observations, the audit log tells of every asset and     *)
(* observation once, and what EventInbox promises a caller is kept, for    *)
(* any number of workers and any records, in any order and however often   *)
(* delivered.                                                              *)
(*                                                                         *)
(* SensorSpool: between the wire and the API no packet is forgotten, for   *)
(* any sizes of queue and spool and any number of files and faults.        *)
(*                                                                         *)
(* StreamReassembly: frames are whole, segments in order give exactly the  *)
(* messages that they hold, and nothing encrypted is read as cleartext,    *)
(* for any wires and any segments, in any order and however often seen.    *)
(***************************************************************************)
EXTENDS Ingestion, SensorSpool, StreamReassembly, FiniteSetTheorems,
        SequenceTheorems, WellFoundedInduction, TLAPS

AfterEvent == {"lookup", "address_lock", "load", "insert", "insert_event", "audit_lock", "commit"}
AfterLookup == {"address_lock", "load", "insert", "insert_event", "audit_lock", "commit"}
AfterAddress == {"load", "insert", "insert_event", "audit_lock", "commit"}
Writing == {"insert", "insert_event", "audit_lock", "commit"}

Typed ==
  /\ assets \subseteq Asset /\ observations \subseteq Observation
  /\ nextAsset \in Nat /\ nextObservation \in Nat /\ nextProtocolEvent \in Nat
  /\ txn \in [Workers -> Transaction \cup {Idle}]
  /\ held \in [Workers -> SUBSET LockKeys]

\* An asset about to be inserted: nothing refers to it yet.
IsNew(a, e) ==
  /\ \A b \in assets : b.address # Address[e] /\ b.id # a.id
  /\ \A o \in observations : o.asset_id # a.id
  /\ a.mac = Mac[e] /\ a.protocols = {Protocol[e]}
  /\ a.first_seen = ObservedAt[e] /\ a.last_seen = ObservedAt[e]

\* An asset about to be updated: its row is still the one that was loaded.
IsUpdate(a, e) == \E b \in assets : b.address = Address[e] /\ a = Touch(b, e)

\* What a transaction with the locks h has made sure of.
Sound(t, h, next) ==
  LET e == t.event IN
  /\ t.phase \in AfterEvent /\ EventId[e] # NoId => EventLock(e) \in h
  /\ t.phase \in {"event_lock", "lookup"} => EventId[e] # NoId
  /\ t.phase \notin Writing => ~t.created
  /\ t.phase \in AfterLookup /\ EventId[e] # NoId => StoredAs(e) = {}
  /\ t.phase \in AfterAddress => AddressLock(e) \in h
  /\ t.phase \in Writing =>
       /\ t.asset \in Asset /\ t.asset.address = Address[e] /\ t.asset.id < next
       /\ t.created => IsNew(t.asset, e)
       /\ ~t.created => IsUpdate(t.asset, e)

AllSound == \A w \in Workers : Sound(txn[w], held[w], nextAsset)

Creating(t) == t.phase \in Writing /\ t.created

Exclusive ==
  \A v, w \in Workers : v # w =>
    /\ held[v] \cap held[w] = {}
    /\ Creating(txn[v]) /\ Creating(txn[w]) => txn[v].asset.id # txn[w].asset.id

\* One row for an address and for an id, and ids that have been drawn.
Inventory ==
  /\ \A a \in assets : a.id < nextAsset
  /\ \A o \in observations : o.asset_id < nextAsset
  /\ \A a, b \in assets : a.id = b.id \/ a.address = b.address => a = b

IInv == /\ Typed /\ AllSound /\ Exclusive /\ Inventory
        /\ ConstraintsNeverFire /\ AssetSummarisesObservations

LEMMA IdleSound == /\ Idle.phase = "idle" /\ Idle.phase \notin AfterEvent \cup {"event_lock"}
                   /\ \A h, next : Sound(Idle, h, next)
                   /\ ~Creating(Idle)
BY DEF Idle, Sound, Creating, AfterEvent, AfterLookup, AfterAddress, Writing

LEMMA Initially == Init => IInv
<1> SUFFICES ASSUME Init PROVE IInv
  OBVIOUS
<1>1. \A w \in Workers : txn[w] = Idle /\ held[w] = {}
  BY DEF Init
<1> QED BY <1>1, IdleSound DEF Init, IInv, Typed, AllSound, Exclusive, Inventory,
           ConstraintsNeverFire, AssetSummarisesObservations

-----------------------------------------------------------------------------
\* A transaction in one of its phases has the fields of a transaction.
LEMMA TransactionShape ==
  ASSUME NEW t \in Transaction \cup {Idle}
  PROVE  /\ "phase" \in DOMAIN t
         /\ t.phase # "idle" => t \in Transaction /\ t.event \in Events
BY DEF Transaction, Idle

\* A step that writes no table: the transaction of one worker goes on.
LEMMA WorkKeeps ==
  ASSUME IInv, UNCHANGED <<assets, observations, uniqueErrors>>,
         nextAsset' \in Nat, nextAsset <= nextAsset', nextObservation' \in Nat,
         nextProtocolEvent' \in Nat,
         NEW w \in Workers, NEW t \in Transaction \cup {Idle}, NEW h \in SUBSET LockKeys,
         txn' = [txn EXCEPT ![w] = t], held' = [held EXCEPT ![w] = h],
         \A v \in Workers \ {w} : h \cap held[v] = {},
         Sound(t, h, nextAsset'),
         Creating(t) => \A v \in Workers \ {w} : Creating(txn[v]) => t.asset.id # txn[v].asset.id
  PROVE  IInv'
<1>1. /\ txn'[w] = t /\ held'[w] = h
      /\ \A v \in Workers \ {w} : txn'[v] = txn[v] /\ held'[v] = held[v]
  BY DEF IInv, Typed
<1>2. Typed'
  BY DEF IInv, Typed
<1>3. AllSound'
  <2>1. Sound(txn[w], held[w], nextAsset)'
    BY <1>1 DEF Sound, IsNew, IsUpdate, StoredAs
  <2>2. ASSUME NEW v \in Workers \ {w} PROVE Sound(txn[v], held[v], nextAsset)'
    <3>1. Sound(txn[v], held[v], nextAsset)
      BY DEF IInv, AllSound
    <3>2. txn[v].asset \in Asset => txn[v].asset.id \in Nat
      BY DEF Asset
    <3>3. txn'[v] = txn[v] /\ held'[v] = held[v]
      BY <1>1
    <3> QED BY <3>1, <3>2, <3>3 DEF Sound, IsNew, IsUpdate, StoredAs, IInv, Typed
  <2> QED BY <2>1, <2>2 DEF AllSound
<1>4. Exclusive'
  BY <1>1 DEF IInv, Exclusive, Creating
<1>5. Inventory'
  BY DEF IInv, Typed, Inventory, Asset, Observation
<1>6. ConstraintsNeverFire' /\ AssetSummarisesObservations'
  BY DEF IInv, ConstraintsNeverFire, AssetSummarisesObservations
<1> QED BY <1>2, <1>3, <1>4, <1>5, <1>6 DEF IInv

\* A step that only takes a lock, or none, and goes to the next phase.
LEMMA PhaseKeeps ==
  ASSUME IInv, UNCHANGED <<assets, observations, uniqueErrors, nextAsset, nextObservation, nextProtocolEvent>>,
         NEW w \in Workers, txn[w].phase # "idle", NEW phase \in Phases,
         NEW keys \in SUBSET LockKeys, \A key \in keys : Free(w, key),
         Goto(w, phase), held' = [held EXCEPT ![w] = @ \cup keys],
         NEW t, t = [txn[w] EXCEPT !.phase = phase],
         Sound(t, held[w] \cup keys, nextAsset),
         phase \in Writing => txn[w].phase \in Writing
  PROVE  IInv'
<1> DEFINE u == txn[w]
<1>1. u \in Transaction
  BY TransactionShape DEF IInv, Typed
<1>2. /\ t \in Transaction /\ t.phase = phase /\ t.created = u.created /\ t.asset = u.asset
  BY <1>1 DEF Transaction
<1>3. txn' = [txn EXCEPT ![w] = t]
  BY DEF Goto
<1>4. held[w] \cup keys \in SUBSET LockKeys
  BY DEF IInv, Typed
<1>5. \A v \in Workers \ {w} : (held[w] \cup keys) \cap held[v] = {}
  BY DEF IInv, Exclusive, Free
<1>6. Creating(t) => \A v \in Workers \ {w} : Creating(txn[v]) => t.asset.id # txn[v].asset.id
  BY <1>2 DEF IInv, Exclusive, Creating
<1>7. /\ nextAsset \in Nat /\ nextObservation \in Nat /\ nextProtocolEvent \in Nat
      /\ nextAsset <= nextAsset
  BY DEF IInv, Typed
<1> QED BY <1>2, <1>3, <1>4, <1>5, <1>6, <1>7, WorkKeeps

\* A transaction that ends without a commit.
LEMMA EndKeeps ==
  ASSUME IInv, UNCHANGED <<assets, observations, uniqueErrors, nextAsset>>,
         nextObservation' \in Nat, nextProtocolEvent' \in Nat, NEW w \in Workers, Finish(w)
  PROVE  IInv'
<1>1. nextAsset \in Nat /\ nextAsset <= nextAsset
  BY DEF IInv, Typed
<1> DEFINE h == {}
<1>2. h \in SUBSET LockKeys /\ \A v \in Workers \ {w} : h \cap held[v] = {}
  OBVIOUS
<1>3. txn' = [txn EXCEPT ![w] = Idle] /\ held' = [held EXCEPT ![w] = h]
  BY DEF Finish
<1> HIDE DEF h
<1> QED BY <1>1, <1>2, <1>3, IdleSound, WorkKeeps

LEMMA ReceiveKeeps ==
  ASSUME IInv, NEW w \in Workers, NEW e \in Events, Receive(w, e)
  PROVE  IInv'
<1> DEFINE phase == IF EventId[e] = NoId THEN "address_lock" ELSE "event_lock"
           t == [Idle EXCEPT !.event = e, !.phase = phase]
           h == held[w]
<1>1. t \in Transaction /\ t.phase = phase /\ t.event = e /\ ~t.created
  BY DEF Transaction, Idle, Phases
<1>2. /\ nextAsset \in Nat /\ nextObservation \in Nat /\ nextProtocolEvent \in Nat
      /\ h \in SUBSET LockKeys
      /\ \A v \in Workers \ {w} : h \cap held[v] = {}
      /\ held = [held EXCEPT ![w] = h] /\ nextAsset <= nextAsset
  BY DEF IInv, Typed, Exclusive
<1>3. Sound(t, h, nextAsset) /\ ~Creating(t)
  BY <1>1 DEF Sound, Creating, AfterEvent, AfterLookup, AfterAddress, Writing
<1>4. /\ txn' = [txn EXCEPT ![w] = t]
      /\ UNCHANGED <<assets, observations, uniqueErrors, nextAsset, nextObservation, nextProtocolEvent, held>>
  BY DEF Receive, database, sequences
<1> HIDE DEF t, h
<1> QED BY <1>1, <1>2, <1>3, <1>4, WorkKeeps

LEMMA LockKeeps ==
  ASSUME IInv, NEW w \in Workers, LockEvent(w) \/ LockAddress(w) \/ LockAudit(w)
  PROVE  IInv'
<1> DEFINE u == txn[w]
           e == u.event
<1> USE DEF AfterEvent, AfterLookup, AfterAddress, Writing
<1>1. /\ u.phase # "idle" /\ Sound(u, held[w], nextAsset)
      /\ UNCHANGED <<assets, observations, uniqueErrors, nextAsset, nextObservation, nextProtocolEvent>>
  BY DEF IInv, AllSound, LockEvent, LockAddress, LockAudit, database, sequences
<1>2. u \in Transaction /\ e \in Events
  BY <1>1, TransactionShape DEF IInv, Typed
<1>3. ASSUME NEW phase \in Phases, NEW key \in LockKeys, Free(w, key), Goto(w, phase), Take(w, key),
             \A t : /\ t = [u EXCEPT !.phase = phase]
                    /\ t.phase = phase /\ t.event = e /\ t.asset = u.asset /\ t.created = u.created
                    => Sound(t, held[w] \cup {key}, nextAsset),
             phase \in Writing => u.phase \in Writing
      PROVE  IInv'
  <2> DEFINE t == [u EXCEPT !.phase = phase]
             keys == {key}
  <2>1. t.phase = phase /\ t.event = e /\ t.asset = u.asset /\ t.created = u.created
    BY <1>2 DEF Transaction
  <2>2. Sound(t, held[w] \cup keys, nextAsset)
    <3> HIDE DEF t
    <3>1. t = [u EXCEPT !.phase = phase]
      BY DEF t
    <3> QED BY <1>3, <2>1, <3>1
  <2>3. keys \in SUBSET LockKeys /\ \A k \in keys : Free(w, k)
    BY <1>3
  <2>4. held' = [held EXCEPT ![w] = @ \cup keys]
    BY <1>3 DEF Take
  <2>5. t = [u EXCEPT !.phase = phase]
    OBVIOUS
  <2> HIDE DEF t, keys
  <2> QED BY <1>1, <1>3, <2>2, <2>3, <2>4, <2>5, PhaseKeeps
<1>4. EventLock(e) \in LockKeys /\ AddressLock(e) \in LockKeys /\ AuditLock \in LockKeys
  BY <1>2 DEF LockKeys
<1>5. CASE LockEvent(w)
  <2>1. /\ u.phase = "event_lock" /\ Free(w, EventLock(e))
        /\ Take(w, EventLock(e)) /\ Goto(w, "lookup")
    BY <1>5 DEF LockEvent
  <2> QED BY <1>1, <1>3, <1>4, <2>1 DEF Sound, Phases
<1>6. CASE LockAddress(w)
  <2>1. /\ u.phase = "address_lock" /\ Free(w, AddressLock(e))
        /\ Take(w, AddressLock(e)) /\ Goto(w, "load")
    BY <1>6 DEF LockAddress
  <2> QED BY <1>1, <1>3, <1>4, <2>1 DEF Sound, Phases
<1>7. CASE LockAudit(w)
  <2>1. u.phase = "audit_lock" /\ Free(w, AuditLock) /\ Take(w, AuditLock) /\ Goto(w, "commit")
    BY <1>7 DEF LockAudit
  <2> QED BY <1>1, <1>3, <1>4, <2>1 DEF Sound, Phases
<1> QED BY <1>5, <1>6, <1>7

LEMMA NotStoredKeeps ==
  ASSUME IInv, NEW w \in Workers, NotStored(w)
  PROVE  IInv'
<1> DEFINE u == txn[w]
           t == [u EXCEPT !.phase = "address_lock"]
           keys == {}
<1>1. /\ u.phase = "lookup" /\ Sound(u, held[w], nextAsset) /\ StoredAs(u.event) = {}
      /\ UNCHANGED <<assets, observations, uniqueErrors, nextAsset, nextObservation, nextProtocolEvent>>
      /\ Goto(w, "address_lock") /\ held' = [held EXCEPT ![w] = @ \cup keys]
  BY DEF IInv, Typed, AllSound, NotStored, database, sequences
<1>2. u \in Transaction
  BY <1>1, TransactionShape DEF IInv, Typed
<1>3. t.phase = "address_lock" /\ t.event = u.event /\ t.created = u.created
  BY <1>2 DEF Transaction
<1>4. Sound(t, held[w] \cup keys, nextAsset)
  BY <1>1, <1>3 DEF Sound, AfterEvent, AfterLookup, AfterAddress, Writing
<1>5. /\ t = [u EXCEPT !.phase = "address_lock"]
      /\ keys \in SUBSET LockKeys /\ \A k \in keys : Free(w, k)
  OBVIOUS
<1> HIDE DEF t, keys
<1> QED BY <1>1, <1>4, <1>5, PhaseKeeps DEF Phases, Writing

\* AnswerReplay and Fail write nothing the invariant is about.
LEMMA EndingKeeps ==
  ASSUME IInv, NEW w \in Workers, AnswerReplay(w) \/ Fail(w)
  PROVE  IInv'
BY EndKeeps DEF AnswerReplay, Fail, database, sequences, IInv, Typed

LEMMA CreateKeeps ==
  ASSUME IInv, NEW w \in Workers, CreateAsset(w)
  PROVE  IInv'
<1> DEFINE u == txn[w]
           e == u.event
           a == NewAsset(e)
           t == [u EXCEPT !.asset = a, !.created = TRUE, !.phase = "insert"]
           h == held[w]
<1>1. /\ u.phase = "load" /\ Sound(u, h, nextAsset) /\ \A b \in assets : b.address # Address[e]
      /\ UNCHANGED <<assets, observations, uniqueErrors, nextObservation, nextProtocolEvent, held>>
      /\ nextAsset' = nextAsset + 1 /\ txn' = [txn EXCEPT ![w] = t]
  BY DEF IInv, Typed, AllSound, CreateAsset, database, sequences
<1>2. u \in Transaction /\ e \in Events
  BY <1>1, TransactionShape DEF IInv, Typed
<1>3. /\ nextAsset \in Nat /\ nextAsset' \in Nat
      /\ nextAsset <= nextAsset' /\ nextAsset < nextAsset'
      /\ nextObservation' \in Nat /\ nextProtocolEvent' \in Nat /\ h \in SUBSET LockKeys
      /\ held' = [held EXCEPT ![w] = h]
      /\ \A v \in Workers \ {w} : h \cap held[v] = {}
  BY <1>1 DEF IInv, Typed, Exclusive
<1>4. /\ a \in Asset /\ a.id = nextAsset /\ a.address = Address[e] /\ a.mac = Mac[e]
      /\ a.protocols = {Protocol[e]} /\ a.first_seen = ObservedAt[e] /\ a.last_seen = ObservedAt[e]
  BY <1>2, <1>3 DEF NewAsset, Asset, Addresses, Macs, Protocols, Times
<1>5. IsNew(a, e)
  <2>1. \A b \in assets : b.id # nextAsset
    BY <1>3 DEF IInv, Typed, Inventory, Asset
  <2>2. \A o \in observations : o.asset_id # nextAsset
    BY <1>3 DEF IInv, Typed, Inventory, Observation
  <2> HIDE DEF a
  <2> QED BY <1>1, <1>4, <2>1, <2>2 DEF IsNew
<1>6. t \in Transaction /\ t.phase = "insert" /\ t.event = e /\ t.asset = a /\ t.created
  <2> DEFINE yes == TRUE
             z == [u EXCEPT !.asset = a, !.created = yes, !.phase = "insert"]
  <2>1. yes \in BOOLEAN /\ yes = TRUE /\ t = z
    OBVIOUS
  <2> HIDE DEF a, yes
  <2>2. z \in Transaction /\ z.phase = "insert" /\ z.event = e /\ z.asset = a /\ z.created = yes
    BY <1>2, <1>4, <2>1 DEF Transaction, Phases
  <2> QED BY <2>1, <2>2
<1> HIDE DEF a
<1>7. Sound(t, h, nextAsset')
  <2> HIDE DEF t
  <2> QED BY <1>1, <1>3, <1>4, <1>5, <1>6 DEF Sound, AfterEvent, AfterLookup, AfterAddress, Writing
<1>8. \A v \in Workers \ {w} : Creating(txn[v]) => t.asset.id # txn[v].asset.id
  <2> SUFFICES ASSUME NEW v \in Workers \ {w}, Creating(txn[v]) PROVE txn[v].asset.id # nextAsset
    BY <1>4, <1>6
  <2>1. Sound(txn[v], held[v], nextAsset)
    BY DEF IInv, AllSound
  <2>2. txn[v].asset \in Asset /\ txn[v].asset.id < nextAsset
    BY <2>1 DEF Sound, Creating
  <2> QED BY <1>3, <2>2 DEF Asset
<1> HIDE DEF t, h
<1> QED BY <1>1, <1>3, <1>6, <1>7, <1>8, WorkKeeps

\* An observation moves the ends of the period and adds what it tells.
LEMMA TouchShape ==
  ASSUME NEW a \in Asset, NEW e \in Events
  PROVE  /\ Touch(a, e) \in Asset /\ Touch(a, e).id = a.id /\ Touch(a, e).address = a.address
         /\ Touch(a, e).protocols = a.protocols \cup {Protocol[e]}
         /\ Touch(a, e).mac = IF a.mac = NoMac THEN Mac[e] ELSE a.mac
         /\ Touch(a, e).first_seen = Lesser(a.first_seen, ObservedAt[e])
         /\ Touch(a, e).last_seen = Greater(a.last_seen, ObservedAt[e])
<1> DEFINE first == Lesser(a.first_seen, ObservedAt[e])
           last == Greater(a.last_seen, ObservedAt[e])
           protocols == a.protocols \cup {Protocol[e]}
           mac == IF a.mac = NoMac THEN Mac[e] ELSE a.mac
           z == [a EXCEPT !.first_seen = first, !.last_seen = last,
                          !.protocols = protocols, !.mac = mac]
<1>1. first \in Times /\ last \in Times
  BY DEF Asset, Times, Lesser, Greater
<1>2. protocols \in SUBSET Protocols
  BY DEF Asset, Protocols
<1>3. mac \in Macs
  BY DEF Asset, Macs
<1>4. Touch(a, e) = z
  BY DEF Touch, Asset
<1> HIDE DEF first, last, protocols, mac
<1>5. /\ z \in Asset /\ z.id = a.id /\ z.address = a.address /\ z.protocols = protocols
      /\ z.mac = mac /\ z.first_seen = first /\ z.last_seen = last
  BY <1>1, <1>2, <1>3 DEF Asset
<1> QED BY <1>4, <1>5 DEF first, last, protocols, mac

LEMMA UpdateKeeps ==
  ASSUME IInv, NEW w \in Workers, UpdateAsset(w)
  PROVE  IInv'
<1> DEFINE u == txn[w]
           e == u.event
           h == held[w]
<1>1. PICK b \in assets :
        /\ b.address = Address[e]
        /\ txn' = [txn EXCEPT ![w].asset = Touch(b, e), ![w].phase = "insert"]
  BY DEF UpdateAsset
<1> DEFINE a == Touch(b, e)
           t == [u EXCEPT !.asset = a, !.phase = "insert"]
<1>2. /\ u.phase = "load" /\ Sound(u, h, nextAsset)
      /\ UNCHANGED <<assets, observations, uniqueErrors, nextAsset, nextObservation, nextProtocolEvent, held>>
      /\ txn' = [txn EXCEPT ![w] = t]
  BY <1>1 DEF IInv, Typed, AllSound, UpdateAsset, database, sequences
<1>3. u \in Transaction /\ e \in Events /\ b \in Asset
  BY <1>2, TransactionShape DEF IInv, Typed
<1>4. /\ nextAsset \in Nat /\ nextAsset' \in Nat
      /\ nextAsset <= nextAsset' /\ nextAsset' = nextAsset
      /\ nextObservation' \in Nat /\ nextProtocolEvent' \in Nat /\ h \in SUBSET LockKeys
      /\ held' = [held EXCEPT ![w] = h]
      /\ \A v \in Workers \ {w} : h \cap held[v] = {}
  BY <1>2 DEF IInv, Typed, Exclusive
<1>5. a \in Asset /\ a.id = b.id /\ a.address = Address[e] /\ b.id < nextAsset
  BY <1>1, <1>3, TouchShape DEF IInv, Inventory
<1>6. IsUpdate(a, e)
  BY <1>1 DEF IsUpdate
<1> HIDE DEF a
<1>7. /\ t \in Transaction /\ t.phase = "insert" /\ t.event = e
      /\ t.asset = a /\ t.created = u.created
  BY <1>3, <1>5 DEF Transaction, Phases
<1>8. ~u.created
  BY <1>2 DEF Sound, Writing
<1>9. Sound(t, h, nextAsset') /\ ~Creating(t)
  <2> HIDE DEF t
  <2> QED BY <1>2, <1>4, <1>5, <1>6, <1>7, <1>8
          DEF Sound, Creating, AfterEvent, AfterLookup, AfterAddress, Writing
<1> HIDE DEF t, h
<1> QED BY <1>2, <1>4, <1>7, <1>9, WorkKeeps

-----------------------------------------------------------------------------
\* The locks of the transaction exclude what the unique constraints forbid.
LEMMA InsertKeeps ==
  ASSUME IInv, NEW w \in Workers, InsertObservation(w)
  PROVE  IInv'
<1> DEFINE u == txn[w]
           e == u.event
           h == held[w]
<1>1. /\ u.phase = "insert" /\ Sound(u, h, nextAsset) /\ nextObservation' = nextObservation + 1
      /\ UNCHANGED <<assets, observations, nextAsset, nextProtocolEvent>>
  BY DEF IInv, AllSound, InsertObservation, database, sequences
<1>2. u \in Transaction /\ e \in Events
  BY <1>1, TransactionShape DEF IInv, Typed
<1>3. ~Duplicate(w)
  <2>1. EventId[e] # NoId => StoredAs(e) = {}
    BY <1>1 DEF Sound, AfterLookup
  <2>2. ASSUME NEW a \in assets, a.address = Address[e] PROVE a.id = u.asset.id
    <3>1. ~u.created /\ IsUpdate(u.asset, e)
      BY <1>1, <2>2 DEF Sound, Writing, IsNew
    <3>2. PICK b \in assets : b.address = Address[e] /\ u.asset = Touch(b, e)
      BY <3>1 DEF IsUpdate
    <3>3. a = b
      BY <2>2, <3>2 DEF IInv, Inventory
    <3> QED BY <1>2, <3>2, <3>3, TouchShape DEF IInv, Typed
  <2> QED BY <2>1, <2>2 DEF Duplicate
<1> DEFINE t == [u EXCEPT !.phase = "insert_event", !.observation_id = nextObservation]
<1>4. UNCHANGED <<uniqueErrors, held>> /\ txn' = [txn EXCEPT ![w] = t]
  BY <1>3 DEF InsertObservation, IInv, Typed
<1>5. /\ nextAsset \in Nat /\ nextAsset' \in Nat
      /\ nextAsset <= nextAsset' /\ nextAsset' = nextAsset
      /\ nextObservation \in Nat /\ nextObservation' \in Nat /\ nextProtocolEvent' \in Nat
      /\ h \in SUBSET LockKeys /\ held' = [held EXCEPT ![w] = h]
      /\ \A v \in Workers \ {w} : h \cap held[v] = {}
  BY <1>1, <1>4 DEF IInv, Typed, Exclusive
<1>6. /\ t \in Transaction /\ t.phase = "insert_event" /\ t.event = e
      /\ t.asset = u.asset /\ t.created = u.created
  BY <1>2, <1>5 DEF Transaction, Phases
<1>7. Sound(t, h, nextAsset')
  <2> HIDE DEF t
  <2> QED BY <1>1, <1>5, <1>6 DEF Sound, AfterEvent, AfterLookup, AfterAddress, Writing
<1>8. Creating(t) => \A v \in Workers \ {w} : Creating(txn[v]) => t.asset.id # txn[v].asset.id
  BY <1>1, <1>6 DEF IInv, Exclusive, Creating, Writing
<1> HIDE DEF t, h
<1> QED BY <1>1, <1>4, <1>5, <1>6, <1>7, <1>8, WorkKeeps

\* The protocol event is one more insert of the same transaction.
LEMMA InsertEventKeeps ==
  ASSUME IInv, NEW w \in Workers, InsertProtocolEvent(w)
  PROVE  IInv'
<1> DEFINE u == txn[w]
           h == held[w]
           t == [u EXCEPT !.phase = "audit_lock", !.protocol_event_id = nextProtocolEvent]
<1>1. /\ u.phase = "insert_event" /\ Sound(u, h, nextAsset)
      /\ nextProtocolEvent' = nextProtocolEvent + 1
      /\ UNCHANGED <<assets, observations, nextAsset, nextObservation, uniqueErrors, held>>
      /\ txn' = [txn EXCEPT ![w] = t]
  BY DEF IInv, Typed, AllSound, InsertProtocolEvent, database
<1>2. u \in Transaction
  BY <1>1, TransactionShape DEF IInv, Typed
<1>3. /\ nextAsset \in Nat /\ nextAsset' \in Nat
      /\ nextAsset <= nextAsset' /\ nextAsset' = nextAsset
      /\ nextObservation' \in Nat /\ nextProtocolEvent \in Nat /\ nextProtocolEvent' \in Nat
      /\ h \in SUBSET LockKeys /\ held' = [held EXCEPT ![w] = h]
      /\ \A v \in Workers \ {w} : h \cap held[v] = {}
  BY <1>1 DEF IInv, Typed, Exclusive
<1>4. /\ t \in Transaction /\ t.phase = "audit_lock" /\ t.event = u.event
      /\ t.asset = u.asset /\ t.created = u.created
  BY <1>2, <1>3 DEF Transaction, Phases
<1>5. Sound(t, h, nextAsset')
  <2> HIDE DEF t
  <2> QED BY <1>1, <1>3, <1>4 DEF Sound, AfterEvent, AfterLookup, AfterAddress, Writing
<1>6. Creating(t) => \A v \in Workers \ {w} : Creating(txn[v]) => t.asset.id # txn[v].asset.id
  BY <1>1, <1>4 DEF IInv, Exclusive, Creating, Writing
<1> HIDE DEF t, h
<1> QED BY <1>1, <1>3, <1>4, <1>5, <1>6, WorkKeeps

-----------------------------------------------------------------------------
\* The events of an asset's observations, and a row that summarises them.
Seen(id) == {o.event : o \in {x \in observations : x.asset_id = id}}
TimesOf(seen) == {ObservedAt[e] : e \in seen}
Known(seen) == {Mac[e] : e \in seen} \ {NoMac}
Summary(a, seen) ==
  /\ a.first_seen \in TimesOf(seen) /\ \A t \in TimesOf(seen) : a.first_seen <= t
  /\ a.last_seen \in TimesOf(seen) /\ \A t \in TimesOf(seen) : t <= a.last_seen
  /\ a.protocols = {Protocol[e] : e \in seen}
  /\ a.mac \in IF Known(seen) = {} THEN {NoMac} ELSE Known(seen)

LEMMA SummaryAsSeen ==
  AssetSummarisesObservations <=> \A a \in assets : Summary(a, Seen(a.id))
BY DEF AssetSummarisesObservations, Summary, Seen, TimesOf, Known

\* A new row is the summary of the record it was made from.
LEMMA SummaryOfFirst ==
  ASSUME NEW e \in Events, NEW a, IsNew(a, e)
  PROVE  Summary(a, {e})
<1>1. TimesOf({e}) = {ObservedAt[e]} /\ {Protocol[f] : f \in {e}} = {Protocol[e]}
  BY DEF TimesOf
<1>2. Known({e}) = IF Mac[e] = NoMac THEN {} ELSE {Mac[e]}
  BY DEF Known
<1>3. ObservedAt[e] \in Nat
  BY EventsAssumption
<1>4. /\ a.mac = Mac[e] /\ a.protocols = {Protocol[e]}
      /\ a.first_seen = ObservedAt[e] /\ a.last_seen = ObservedAt[e]
  BY DEF IsNew
<1>5. a.mac \in IF Known({e}) = {} THEN {NoMac} ELSE Known({e})
  BY <1>2, <1>4
<1>6. /\ a.first_seen \in TimesOf({e}) /\ \A t \in TimesOf({e}) : a.first_seen <= t
      /\ a.last_seen \in TimesOf({e}) /\ \A t \in TimesOf({e}) : t <= a.last_seen
  BY <1>1, <1>3, <1>4
<1>7. a.protocols = {Protocol[f] : f \in {e}}
  BY <1>1, <1>4
<1> QED BY <1>5, <1>6, <1>7 DEF Summary

\* Touch keeps a summary one, whenever the record was captured.
LEMMA SummaryGrows ==
  ASSUME NEW b \in Asset, NEW seen \in SUBSET Events, NEW e \in Events, Summary(b, seen)
  PROVE  Summary(Touch(b, e), seen \cup {e})
<1> DEFINE a == Touch(b, e)
           more == seen \cup {e}
<1>1. /\ TimesOf(more) = TimesOf(seen) \cup {ObservedAt[e]}
      /\ {Protocol[f] : f \in more} = {Protocol[f] : f \in seen} \cup {Protocol[e]}
      /\ Known(more) = Known(seen) \cup (IF Mac[e] = NoMac THEN {} ELSE {Mac[e]})
  BY DEF TimesOf, Known
<1>2. /\ a.protocols = b.protocols \cup {Protocol[e]}
      /\ a.mac = IF b.mac = NoMac THEN Mac[e] ELSE b.mac
      /\ a.first_seen = Lesser(b.first_seen, ObservedAt[e])
      /\ a.last_seen = Greater(b.last_seen, ObservedAt[e])
  BY TouchShape
<1>3. ObservedAt[e] \in Nat /\ TimesOf(seen) \subseteq Nat
  BY EventsAssumption DEF TimesOf
<1> HIDE DEF a, more
<1>4. a.first_seen \in TimesOf(more) /\ \A t \in TimesOf(more) : a.first_seen <= t
  BY <1>1, <1>2, <1>3 DEF Summary, Lesser
<1>5. a.last_seen \in TimesOf(more) /\ \A t \in TimesOf(more) : t <= a.last_seen
  BY <1>1, <1>2, <1>3 DEF Summary, Greater
<1>6. a.protocols = {Protocol[f] : f \in more}
  BY <1>1, <1>2 DEF Summary
<1>7. a.mac \in IF Known(more) = {} THEN {NoMac} ELSE Known(more)
  <2>1. b.mac # NoMac => b.mac \in Known(seen)
    BY DEF Summary
  <2>2. b.mac = NoMac => Known(seen) = {}
    BY DEF Summary, Known
  <2> QED BY <1>1, <1>2, <2>1, <2>2
<1>8. Summary(a, more)
  BY <1>4, <1>5, <1>6, <1>7 DEF Summary
<1> QED BY <1>8 DEF a, more

-----------------------------------------------------------------------------
\* A commit changes the row of its address and no other; what the others have
\* made sure of stays true, because it is about other keys.
LEMMA CommitKeeps ==
  ASSUME IInv, NEW w \in Workers, Commit(w)
  PROVE  IInv'
<1> DEFINE u == txn[w]
           e == u.event
           n == u.asset
           o == [id |-> u.observation_id, event |-> e, asset_id |-> n.id]
<1>1. /\ u.phase = "commit" /\ Sound(u, held[w], nextAsset)
      /\ UNCHANGED <<nextAsset, nextObservation, nextProtocolEvent, uniqueErrors>>
      /\ assets' = {a \in assets : a.id # n.id} \cup {n}
      /\ observations' = observations \cup {o}
      /\ txn' = [txn EXCEPT ![w] = Idle] /\ held' = [held EXCEPT ![w] = {}]
  BY DEF IInv, AllSound, Commit, StoreEvidence, Finish, sequences
<1>2. u \in Transaction /\ e \in Events
  BY <1>1, TransactionShape DEF IInv, Typed
<1>3. /\ n \in Asset /\ n.address = Address[e] /\ n.id \in Nat /\ n.id < nextAsset
      /\ EventId[e] # NoId => EventLock(e) \in held[w]
      /\ AddressLock(e) \in held[w]
      /\ u.created => IsNew(n, e)
      /\ ~u.created => IsUpdate(n, e)
  BY <1>1 DEF Sound, AfterEvent, AfterAddress, Writing, Asset
<1>4. /\ o \in Observation /\ o.event = e /\ o.asset_id = n.id
  BY <1>2, <1>3 DEF Transaction, Observation
<1>5. ASSUME ~u.created
      PROVE  \E b \in assets : b \in Asset /\ b.address = Address[e] /\ n = Touch(b, e) /\ b.id = n.id
  BY <1>2, <1>3, <1>5, TouchShape DEF IsUpdate, IInv, Typed
<1>6. \A a \in assets : a.id = n.id <=> a.address = Address[e]
  <2>1. CASE u.created
    BY <1>3, <2>1 DEF IsNew
  <2>2. CASE ~u.created
    BY <1>5, <2>2 DEF IInv, Inventory
  <2> QED BY <2>1, <2>2
<1>7. /\ txn'[w] = Idle /\ held'[w] = {}
      /\ \A v \in Workers \ {w} : txn'[v] = txn[v] /\ held'[v] = held[v]
  BY <1>1 DEF IInv, Typed
<1> HIDE DEF o
<1>8. Typed'
  BY <1>1, <1>3, <1>4 DEF IInv, Typed
<1>9. AllSound'
  <2> SUFFICES ASSUME NEW v \in Workers PROVE Sound(txn[v], held[v], nextAsset)'
    BY DEF AllSound
  <2>1. CASE v = w
    BY <1>7, <2>1, IdleSound
       DEF Sound, Idle, AfterEvent, AfterLookup, AfterAddress, Writing
  <2>2. CASE v # w
    <3> DEFINE t == txn[v]
               f == t.event
               h == held[v]
    <3>0. t' = t /\ h' = h /\ f' = f /\ nextAsset' = nextAsset
      BY <1>1, <1>7, <2>2
    <3>1. Sound(t, h, nextAsset)
      BY DEF IInv, AllSound
    <3>2. held[w] \cap h = {}
      BY <2>2 DEF IInv, Exclusive
    <3>3. EventLock(f) \in h /\ EventId[f] # NoId => EventId[e] # EventId[f]
      BY <1>3, <3>2 DEF EventLock
    <3>4. AddressLock(f) \in h => Address[e] # Address[f]
      BY <1>3, <3>2 DEF AddressLock
    <3>5. ASSUME t.phase \in AfterLookup, EventId[f] # NoId PROVE StoredAs(f)' = {}
      BY <1>1, <1>4, <3>0, <3>1, <3>3, <3>5 DEF Sound, StoredAs, AfterEvent, AfterLookup
    <3>6. ASSUME t.phase \in Writing, t.created PROVE IsNew(t.asset, f)'
      <4>1. IsNew(t.asset, f) /\ Address[e] # Address[f]
        BY <3>1, <3>4, <3>6 DEF Sound, AfterAddress, Writing
      <4>2. n.id # t.asset.id
        <5>1. CASE u.created
          BY <1>1, <2>2, <3>6, <5>1 DEF IInv, Exclusive, Creating, Writing
        <5>2. CASE ~u.created
          BY <1>5, <4>1, <5>2 DEF IsNew
        <5> QED BY <5>1, <5>2
      <4> QED BY <1>1, <1>3, <1>4, <3>0, <4>1, <4>2 DEF IsNew
    <3>7. ASSUME t.phase \in Writing, ~t.created PROVE IsUpdate(t.asset, f)'
      <4>1. IsUpdate(t.asset, f) /\ Address[e] # Address[f]
        BY <3>1, <3>4, <3>7 DEF Sound, AfterAddress, Writing
      <4> QED BY <1>1, <1>6, <3>0, <4>1 DEF IsUpdate
    <3> QED BY <3>0, <3>1, <3>5, <3>6, <3>7 DEF Sound, AfterEvent, AfterLookup, AfterAddress, Writing
  <2> QED BY <2>1, <2>2
<1>10. Exclusive'
  BY <1>7, IdleSound DEF IInv, Exclusive, Creating
<1>11. Inventory'
  BY <1>1, <1>3, <1>4, <1>6 DEF IInv, Typed, Inventory
<1>12. AssetSummarisesObservations'
  <2> DEFINE after(id) == IF id = n.id THEN Seen(id) \cup {e} ELSE Seen(id)
  <2>1. \A a \in assets : Summary(a, Seen(a.id))
    BY SummaryAsSeen DEF IInv
  <2>2. \A id : Seen(id)' = after(id)
    BY <1>1, <1>4 DEF Seen
  <2>3. \A id : Seen(id) \in SUBSET Events
    BY DEF Seen, IInv, Typed, Observation
  <2>4. Summary(n, after(n.id))
    <3>1. CASE u.created
      <4>1. Seen(n.id) = {}
        BY <1>3, <3>1 DEF IsNew, Seen
      <4>2. after(n.id) = {e}
        BY <4>1
      <4>3. Summary(n, {e})
        BY <1>2, <1>3, <3>1, SummaryOfFirst
      <4> QED BY <4>2, <4>3
    <3>2. CASE ~u.created
      <4>1. PICK b \in assets : b \in Asset /\ n = Touch(b, e) /\ b.id = n.id
        BY <1>5, <3>2
      <4>2. Summary(b, Seen(n.id))
        BY <2>1, <4>1
      <4>3. Summary(Touch(b, e), Seen(n.id) \cup {e})
        BY <1>2, <2>3, <4>1, <4>2, SummaryGrows
      <4> QED BY <4>1, <4>3
    <3> QED BY <3>1, <3>2
  <2>5. \A a \in assets : a.id # n.id => Summary(a, after(a.id))
    BY <2>1
  <2>6. \A a \in assets' : Summary(a, after(a.id))
    BY <1>1, <2>4, <2>5
  <2>7. \A a \in assets' : Summary(a, Seen(a.id))'
    BY <2>2, <2>6 DEF Summary, TimesOf, Known
  <2> QED BY <2>7 DEF AssetSummarisesObservations, Summary, Seen, TimesOf, Known
<1>13. ConstraintsNeverFire'
  BY <1>1 DEF IInv, ConstraintsNeverFire
<1> QED BY <1>8, <1>9, <1>10, <1>11, <1>12, <1>13 DEF IInv

LEMMA Inductive == IInv /\ [Next]_vars => IInv'
<1> SUFFICES ASSUME IInv, [Next]_vars PROVE IInv'
  OBVIOUS
<1>1. ASSUME NEW w \in Workers, NEW e \in Events, Receive(w, e) PROVE IInv'
  BY <1>1, ReceiveKeeps
<1>2. ASSUME NEW w \in Workers, Step(w) PROVE IInv'
  BY <1>2, LockKeeps, NotStoredKeeps, EndingKeeps, CreateKeeps, UpdateKeeps, InsertKeeps,
     InsertEventKeeps,
     CommitKeeps DEF Step
<1>3. ASSUME NEW w \in Workers, Fail(w) PROVE IInv'
  BY <1>3, EndingKeeps
<1>4. CASE UNCHANGED vars
  <2>1. /\ UNCHANGED <<assets, observations, nextAsset, nextObservation, nextProtocolEvent>>
        /\ UNCHANGED <<txn, held, uniqueErrors>>
    BY <1>4 DEF vars
  <2>2. Typed' /\ Inventory' /\ ConstraintsNeverFire' /\ AssetSummarisesObservations'
    BY <2>1 DEF IInv, Typed, Inventory, ConstraintsNeverFire, AssetSummarisesObservations
  <2>3. Exclusive'
    BY <2>1 DEF IInv, Exclusive, Creating
  <2>4. ASSUME NEW w \in Workers PROVE Sound(txn[w], held[w], nextAsset)'
    BY <2>1 DEF IInv, AllSound, Sound, IsNew, IsUpdate, StoredAs
  <2> QED BY <2>2, <2>3, <2>4 DEF IInv, AllSound
<1> QED BY <1>1, <1>2, <1>3, <1>4 DEF Next

LEMMA Invariance == Spec => []IInv
<1>1. Init => IInv
  BY Initially
<1>2. IInv /\ [Next]_vars => IInv'
  BY Inductive
<1> QED BY <1>1, <1>2, PTL DEF Spec

\* No delivery, however it races a retry of the same event or the discovery
\* of the same asset, is answered 500 by a unique constraint.
THEOREM NoConstraintFires == Spec => []ConstraintsNeverFire
<1>1. IInv => ConstraintsNeverFire
  BY DEF IInv
<1> QED BY <1>1, Invariance, PTL

\* Every asset row is the summary of its committed observations: none of the
\* updates of concurrent or late deliveries is lost.
THEOREM SummaryIsTrue == Spec => []AssetSummarisesObservations
<1>1. IInv => AssetSummarisesObservations
  BY DEF IInv
<1> QED BY <1>1, Invariance, PTL
-----------------------------------------------------------------------------
\* The second stage: what is stored, recorded and answered, on the invariant above.

\* The observation of a transaction that has been inserted is a new one.
Inserted == {"insert_event", "audit_lock", "commit"}
Drawn ==
  /\ \A o \in observations : o.id < nextObservation
  /\ \A w \in Workers : txn[w].phase \in Inserted =>
       /\ txn[w].observation_id < nextObservation
       /\ \A o \in observations : o.id # txn[w].observation_id
  /\ \A v, w \in Workers : v # w /\ txn[v].phase \in Inserted /\ txn[w].phase \in Inserted =>
       txn[v].observation_id # txn[w].observation_id

\* Records are about assets there are.
Recorded ==
  /\ auditLog \in Seq(AuditRecord) /\ IsFiniteSet(observations)
  /\ \A i \in DOMAIN auditLog : \E a \in assets : a.id = auditLog[i].object_id

\* An identified event is stored once.
StoredOnce ==
  \A o, p \in observations :
    EventId[o.event] # NoId /\ EventId[o.event] = EventId[p.event] => o = p

\* An observation has one protocol event, and there is none without.
Paired ==
  /\ \A p \in protocolEvents : \E o \in observations : o.id = p.observation_id
  /\ \A o \in observations : \E p \in protocolEvents :
       \A q \in protocolEvents : q.observation_id = o.id <=> q = p

Reported == /\ protocolEvents \subseteq ProtocolEvent /\ replies \subseteq Reply
            /\ deliveries \in 0..MaxDeliveries

Story == Drawn /\ Recorded /\ StoredOnce /\ Paired /\ Reported /\ AuditMatchesInventory

LEMMA StoryInitially == Init => Story
<1> SUFFICES ASSUME Init PROVE Story
  OBVIOUS
<1>1. \A w \in Workers : txn[w].phase \notin Inserted
  BY IdleSound DEF Init, Inserted, Idle
<1>2. Drawn /\ StoredOnce /\ Paired
  BY <1>1 DEF Init, Drawn, StoredOnce, Paired
<1>3. Recorded
  BY FS_EmptySet DEF Init, Recorded
<1>4. Reported /\ AuditMatchesInventory
  BY EventsAssumption DEF Init, Reported, AuditMatchesInventory
<1> QED BY <1>2, <1>3, <1>4 DEF Story

\* A step that stores nothing.  Only InsertObservation draws the id of an observation.
LEMMA QuietKeeps ==
  ASSUME IInv, Story, UNCHANGED <<assets, observations, protocolEvents, auditLog>>,
         Reported',
         NEW w \in Workers, NEW t, txn' = [txn EXCEPT ![w] = t],
         \/ nextObservation' = nextObservation /\ t.phase \notin Inserted
         \/ /\ nextObservation' = nextObservation /\ txn[w].phase \in Inserted
            /\ t.observation_id = txn[w].observation_id
         \/ nextObservation' = nextObservation + 1 /\ t.phase \notin Inserted
         \/ nextObservation' = nextObservation + 1 /\ t.observation_id = nextObservation
  PROVE  Story'
<1>1. txn'[w] = t /\ \A v \in Workers \ {w} : txn'[v] = txn[v]
  BY DEF IInv, Typed
<1>2. /\ nextObservation \in Nat /\ \A o \in observations : o.id \in Nat
      /\ \A v \in Workers : txn[v].phase \in Inserted => txn[v].observation_id \in Nat
  <2>1. \A v \in Workers : txn[v].phase \in Inserted => txn[v] \in Transaction
    BY TransactionShape DEF IInv, Typed, Inserted
  <2> QED BY <2>1 DEF IInv, Typed, Observation, Transaction
<1>3. Drawn'
  <2>1. nextObservation' >= nextObservation /\ nextObservation' \in Nat
    BY <1>2
  <2>2. t.phase \in Inserted =>
          /\ t.observation_id < nextObservation'
          /\ \A o \in observations : o.id # t.observation_id
          /\ \A v \in Workers \ {w} : txn[v].phase \in Inserted =>
               txn[v].observation_id # t.observation_id
    BY <1>2 DEF Story, Drawn
  <2>3. \A o \in observations : o.id < nextObservation'
    BY <1>2, <2>1 DEF Story, Drawn
  <2>4. \A v \in Workers \ {w} : txn[v].phase \in Inserted => txn[v].observation_id < nextObservation'
    BY <1>2, <2>1 DEF Story, Drawn
  <2> QED BY <1>1, <2>2, <2>3, <2>4 DEF Story, Drawn
<1>4. Recorded' /\ StoredOnce' /\ Paired' /\ AuditMatchesInventory'
  BY ZenonT(30) DEF Story, Recorded, StoredOnce, Paired, AuditMatchesInventory
<1> QED BY <1>3, <1>4 DEF Story

-----------------------------------------------------------------------------
\* What the log and the observations obs tell of the asset id.
About(log, id) == {i \in DOMAIN log : log[i].object_id = id}
Discoveries(log, id) == {i \in About(log, id) : log[i].action = "asset.discovered"}
ObservationsOf(obs, id) == {o \in obs : o.asset_id = id}
Told(log, obs, id) ==
  /\ Cardinality(About(log, id)) = Cardinality(ObservationsOf(obs, id))
  /\ Cardinality(Discoveries(log, id)) = 1
  /\ \A i \in Discoveries(log, id), j \in About(log, id) : i <= j

LEMMA AsTold ==
  AuditMatchesInventory <=> \A a \in assets : Told(auditLog, observations, a.id)
BY Zenon DEF AuditMatchesInventory, Told, About, Discoveries, ObservationsOf

\* A record and an observation are added.
Adds(log, r, obs, o, log2, obs2) ==
  /\ log \in Seq(AuditRecord) /\ r \in AuditRecord /\ log2 = Append(log, r)
  /\ o \notin obs /\ IsFiniteSet(obs) /\ obs2 = obs \cup {o}

Added(log, r, obs, o, log2, obs2, id, n) ==
  /\ About(log2, id) = About(log, id) \cup (IF r.object_id = id THEN {n} ELSE {})
  /\ Discoveries(log2, id) = Discoveries(log, id) \cup
       (IF r.object_id = id /\ r.action = "asset.discovered" THEN {n} ELSE {})
  /\ ObservationsOf(obs2, id) =
       ObservationsOf(obs, id) \cup (IF o.asset_id = id THEN {o} ELSE {})
  /\ IsFiniteSet(About(log, id)) /\ IsFiniteSet(ObservationsOf(obs, id))
  /\ n \in Nat /\ \A i \in About(log, id) : i \in Nat /\ i < n
  /\ o \notin ObservationsOf(obs, id)

LEMMA OneMore ==
  ASSUME NEW log, NEW r, NEW obs, NEW o, NEW log2, NEW obs2, NEW id,
         Adds(log, r, obs, o, log2, obs2)
  PROVE  Added(log, r, obs, o, log2, obs2, id, Len(log) + 1)
<1> DEFINE n == Len(log) + 1
<1>1. /\ Len(log) \in Nat /\ DOMAIN log = 1..Len(log) /\ DOMAIN log2 = (1..Len(log)) \cup {n}
      /\ log2[n] = r /\ \A i \in 1..Len(log) : log2[i] = log[i]
  BY DEF Adds
<1>2. About(log2, id) = About(log, id) \cup (IF r.object_id = id THEN {n} ELSE {})
  BY <1>1 DEF About
<1>3. Discoveries(log2, id) = Discoveries(log, id) \cup
        (IF r.object_id = id /\ r.action = "asset.discovered" THEN {n} ELSE {})
  BY <1>1 DEF About, Discoveries
<1>4. IsFiniteSet(1..Len(log))
  BY <1>1, FS_Interval
<1>5. IsFiniteSet(About(log, id))
  <2>1. About(log, id) \subseteq 1..Len(log)
    BY <1>1 DEF About
  <2> QED BY <1>4, <2>1, FS_Subset
<1>6. IsFiniteSet(ObservationsOf(obs, id))
  <2>1. ObservationsOf(obs, id) \subseteq obs /\ IsFiniteSet(obs)
    BY DEF ObservationsOf, Adds
  <2> QED BY <2>1, FS_Subset
<1>7. n \in Nat /\ \A i \in About(log, id) : i \in Nat /\ i < n
  BY <1>1 DEF About
<1>8. /\ ObservationsOf(obs2, id) = ObservationsOf(obs, id) \cup (IF o.asset_id = id THEN {o} ELSE {})
      /\ o \notin ObservationsOf(obs, id)
  BY DEF ObservationsOf, Adds
<1> QED BY <1>2, <1>3, <1>5, <1>6, <1>7, <1>8 DEF Added

\* Nothing is told of another asset.
LEMMA ToldOfOther ==
  ASSUME NEW log, NEW r, NEW obs, NEW o, NEW log2, NEW obs2, NEW id,
         Adds(log, r, obs, o, log2, obs2), Told(log, obs, id), r.object_id # id, o.asset_id # id
  PROVE  Told(log2, obs2, id)
<1> DEFINE n == Len(log) + 1
<1>1. /\ About(log2, id) = About(log, id) /\ Discoveries(log2, id) = Discoveries(log, id)
      /\ ObservationsOf(obs2, id) = ObservationsOf(obs, id)
  <2>1. Added(log, r, obs, o, log2, obs2, id, n)
    BY OneMore
  <2> HIDE DEF n
  <2> QED BY <2>1 DEF Added
<1> QED BY <1>1 DEF Told

\* The discovery of an asset of which nothing has been told.
LEMMA ToldOfNew ==
  ASSUME NEW log, NEW r, NEW obs, NEW o, NEW log2, NEW obs2, NEW id,
         Adds(log, r, obs, o, log2, obs2), r.object_id = id, o.asset_id = id,
         r.action = "asset.discovered", About(log, id) = {}, ObservationsOf(obs, id) = {}
  PROVE  Told(log2, obs2, id)
<1> DEFINE n == Len(log) + 1
<1>0. Added(log, r, obs, o, log2, obs2, id, n)
  BY OneMore
<1> HIDE DEF n
<1>1. Discoveries(log, id) = {}
  BY DEF Discoveries
<1>2. About(log2, id) = {n} /\ Discoveries(log2, id) = {n} /\ ObservationsOf(obs2, id) = {o} /\ n \in Nat
  BY <1>0, <1>1 DEF Added
<1>3. Cardinality({n}) = 1 /\ Cardinality({o}) = 1
  BY FS_Singleton
<1> QED BY <1>2, <1>3 DEF Told

\* One more observation of an asset that has been discovered.
LEMMA ToldOfKnown ==
  ASSUME NEW log, NEW r, NEW obs, NEW o, NEW log2, NEW obs2, NEW id,
         Adds(log, r, obs, o, log2, obs2), Told(log, obs, id), r.object_id = id, o.asset_id = id,
         r.action = "asset.observed"
  PROVE  Told(log2, obs2, id)
<1> DEFINE n == Len(log) + 1
           A == About(log, id)
           O == ObservationsOf(obs, id)
<1>0. Added(log, r, obs, o, log2, obs2, id, n)
  BY OneMore
<1> HIDE DEF n
<1>1. /\ About(log2, id) = A \cup {n} /\ ObservationsOf(obs2, id) = O \cup {o}
      /\ Discoveries(log2, id) = Discoveries(log, id)
      /\ IsFiniteSet(A) /\ IsFiniteSet(O) /\ o \notin O
      /\ n \in Nat /\ \A i \in A : i \in Nat /\ i < n
  BY <1>0 DEF Added
<1>2. n \notin A
  BY <1>1
<1>3. Cardinality(A \cup {n}) = Cardinality(A) + 1 /\ Cardinality(O \cup {o}) = Cardinality(O) + 1
  BY <1>1, <1>2, FS_AddElement
<1>4. Discoveries(log, id) \subseteq A
  BY DEF Discoveries
<1>5. \A i \in Discoveries(log, id), j \in A \cup {n} : i <= j
  BY <1>1, <1>4 DEF Told
<1> QED BY <1>1, <1>3, <1>5 DEF Told

LEMMA CommitTells ==
  ASSUME IInv, Story, NEW w \in Workers, Commit(w)
  PROVE  Story'
<1> DEFINE u == txn[w]
           e == u.event
           n == u.asset
           o == [id |-> u.observation_id, event |-> e, asset_id |-> n.id]
           r == [action |-> AuditAction(w), object_id |-> n.id]
<1>1. /\ u.phase = "commit" /\ Sound(u, held[w], nextAsset)
      /\ assets' = {a \in assets : a.id # n.id} \cup {n}
      /\ observations' = observations \cup {o} /\ auditLog' = Append(auditLog, r)
      /\ txn' = [txn EXCEPT ![w] = Idle] /\ UNCHANGED <<nextObservation, deliveries>>
  BY DEF IInv, AllSound, Commit, StoreEvidence, Finish, sequences
<1>2. /\ u \in Transaction /\ e \in Events /\ u.created \in BOOLEAN
      /\ u.observation_id \in Nat /\ u.protocol_event_id \in Nat
  BY <1>1, TransactionShape DEF IInv, Typed, Transaction
<1>3. /\ n \in Asset /\ n.id \in Nat
      /\ EventId[e] # NoId => StoredAs(e) = {}
      /\ u.created => IsNew(n, e)
      /\ ~u.created => IsUpdate(n, e)
  BY <1>1 DEF Sound, AfterLookup, Writing, Asset
<1>4. /\ o \in Observation /\ o.id = u.observation_id /\ o.event = e /\ o.asset_id = n.id
      /\ r \in AuditRecord /\ r.object_id = n.id
      /\ r.action = IF u.created THEN "asset.discovered" ELSE "asset.observed"
  BY <1>2, <1>3 DEF Observation, AuditRecord, AuditAction
<1>5. /\ o \notin observations /\ o.id < nextObservation
      /\ \A v \in Workers \ {w} : txn[v].phase \in Inserted => txn[v].observation_id # o.id
  BY <1>1, <1>4 DEF Story, Drawn, Inserted
<1>6. ~u.created => \E b \in assets : b.id = n.id
  BY <1>2, <1>3, TouchShape DEF IsUpdate, IInv, Typed
<1> DEFINE p == [id |-> u.protocol_event_id, observation_id |-> u.observation_id,
                 asset_id |-> n.id]
<1>a. protocolEvents' = protocolEvents \cup {p}
  BY DEF Commit, StoreEvidence
<1>7. Reported'
  <2>1. replies' = replies \cup {[event |-> e, asset_id |-> n.id,
             observation_id |-> u.observation_id, protocol_event_id |-> u.protocol_event_id,
             created_asset |-> u.created]}
    BY DEF Commit, Created
  <2> QED BY <1>1, <1>2, <1>3, <1>a, <2>1 DEF Story, Reported, ProtocolEvent, Reply
<1>b. p.observation_id = o.id
  OBVIOUS
<1> HIDE DEF o, r, p
<1>c. Paired'
  <2>1. \A q \in protocolEvents : q.observation_id # o.id
    BY <1>1, <1>4 DEF Story, Drawn, Paired, Inserted
  <2>2. \A x \in observations : x.id # o.id
    BY <1>1, <1>4 DEF Story, Drawn, Inserted
  <2>3. ASSUME NEW x \in observations'
        PROVE  \E y \in protocolEvents' : \A q \in protocolEvents' : q.observation_id = x.id <=> q = y
    <3>1. CASE x = o
      BY <1>a, <1>b, <2>1, <3>1
    <3>2. CASE x # o
      <4>1. x \in observations
        BY <1>1, <3>2
      <4>2. PICK y \in protocolEvents : \A q \in protocolEvents : q.observation_id = x.id <=> q = y
        BY <4>1 DEF Story, Paired
      <4>3. p.observation_id # x.id /\ p # y
        BY <1>b, <2>1, <2>2, <4>1
      <4> QED BY <1>a, <4>2, <4>3
    <3> QED BY <3>1, <3>2
  <2>4. \A q \in protocolEvents' : \E x \in observations' : x.id = q.observation_id
    BY <1>1, <1>a, <1>b DEF Story, Paired
  <2> QED BY <2>3, <2>4 DEF Paired
<1>8. Drawn'
  <2>1. \A v \in Workers : txn'[v].phase \in Inserted => v # w /\ txn'[v] = txn[v]
    BY <1>1 DEF IInv, Typed, Idle, Inserted
  <2> QED BY <1>1, <1>4, <1>5, <2>1 DEF Story, Drawn
<1>9. Recorded'
  <2>1. /\ DOMAIN auditLog' = (DOMAIN auditLog) \cup {Len(auditLog) + 1}
        /\ auditLog' \in Seq(AuditRecord) /\ auditLog'[Len(auditLog) + 1] = r
        /\ \A i \in DOMAIN auditLog : auditLog'[i] = auditLog[i]
    BY <1>1, <1>4 DEF Story, Recorded
  <2>2. \A a \in assets : \E b \in assets' : b.id = a.id
    BY <1>1
  <2>3. n \in assets'
    BY <1>1
  <2>4. IsFiniteSet(observations')
    BY <1>1, FS_AddElement DEF Story, Recorded
  <2> QED BY <1>4, <2>1, <2>2, <2>3, <2>4 DEF Story, Recorded
<1>10. StoredOnce'
  BY <1>1, <1>3, <1>4 DEF Story, StoredOnce, StoredAs
<1>11. AuditMatchesInventory'
  <2>1. /\ auditLog \in Seq(AuditRecord) /\ IsFiniteSet(observations)
        /\ \A a \in assets : Told(auditLog, observations, a.id)
    BY AsTold DEF Story, Recorded
  <2> DEFINE ToldNow(id) == Told(auditLog', observations', id)
  <2>0. Adds(auditLog, r, observations, o, auditLog', observations')
    BY <1>1, <1>4, <1>5, <2>1 DEF Adds
  <2>2. \A a \in assets : a.id # n.id => ToldNow(a.id)
    BY <1>4, <2>0, <2>1, ToldOfOther
  <2>3. ToldNow(n.id)
    <3>1. CASE u.created
      <4>1. About(auditLog, n.id) = {} /\ ObservationsOf(observations, n.id) = {}
        BY <1>3, <3>1 DEF About, ObservationsOf, IsNew, Story, Recorded
      <4> QED BY <1>4, <2>0, <3>1, <4>1, ToldOfNew
    <3>2. CASE ~u.created
      BY <1>4, <1>6, <2>0, <2>1, <3>2, ToldOfKnown
    <3> QED BY <3>1, <3>2
  <2>4. \A a \in assets' : ToldNow(a.id)
    BY <1>1, <2>2, <2>3
  <2>5. \A a \in assets' : Told(auditLog', observations', a.id)
    BY <1>1, <2>4
  <2> QED BY <2>5, Zenon DEF AuditMatchesInventory, Told, About, Discoveries, ObservationsOf
<1> QED BY <1>7, <1>8, <1>9, <1>10, <1>11, <1>c DEF Story

\* The other steps store nothing.
LEMMA WorkTells ==
  ASSUME IInv, Story, NEW w \in Workers,
         \/ LockEvent(w) \/ NotStored(w) \/ LockAddress(w) \/ LockAudit(w)
         \/ CreateAsset(w) \/ UpdateAsset(w) \/ InsertProtocolEvent(w)
  PROVE  Story'
<1> DEFINE u == txn[w]
           t == txn'[w]
<1>1. /\ UNCHANGED <<assets, observations, auditLog, nextObservation>>
      /\ UNCHANGED <<protocolEvents, replies, deliveries>>
      /\ u.phase # "idle"
  BY DEF LockEvent, NotStored, LockAddress, LockAudit, CreateAsset, UpdateAsset,
         InsertProtocolEvent, database, sequences
<1>2. u \in Transaction /\ txn \in [Workers -> Transaction \cup {Idle}]
  BY <1>1, TransactionShape DEF IInv, Typed
<1>3. Reported'
  BY <1>1 DEF Story, Reported
<1>4. ASSUME NEW phase, Goto(w, phase), phase \notin Inserted \/ u.phase \in Inserted
      PROVE  Story'
  <2> DEFINE z == [u EXCEPT !.phase = phase]
  <2>1. txn' = [txn EXCEPT ![w] = z]
    BY <1>4 DEF Goto
  <2>2. z.phase = phase /\ z.observation_id = u.observation_id
    BY <1>2 DEF Transaction
  <2> HIDE DEF z
  <2> QED BY <1>1, <1>3, <1>4, <2>1, <2>2, QuietKeeps
<1>5. CASE LockEvent(w)
  BY <1>4, <1>5 DEF LockEvent, Inserted
<1>6. CASE NotStored(w)
  BY <1>4, <1>6 DEF NotStored, Inserted
<1>7. CASE LockAddress(w)
  BY <1>4, <1>7 DEF LockAddress, Inserted
<1>8. CASE LockAudit(w)
  BY <1>4, <1>8 DEF LockAudit, Inserted
<1>9. ASSUME NEW a, NEW made,
             txn' = [txn EXCEPT ![w] = [u EXCEPT !.asset = a, !.created = made, !.phase = "insert"]]
      PROVE  Story'
  <2> DEFINE z == [u EXCEPT !.asset = a, !.created = made, !.phase = "insert"]
  <2>1. z.phase \notin Inserted /\ txn' = [txn EXCEPT ![w] = z]
    BY <1>2, <1>9 DEF Transaction, Inserted
  <2> HIDE DEF z
  <2> QED BY <1>1, <1>3, <2>1, QuietKeeps
<1>10. CASE CreateAsset(w)
  <2> DEFINE a == NewAsset(u.event)
             yes == TRUE
  <2>1. txn' = [txn EXCEPT ![w] = [u EXCEPT !.asset = a, !.created = yes, !.phase = "insert"]]
    BY <1>2, <1>10 DEF CreateAsset
  <2> HIDE DEF a, yes
  <2> QED BY <1>9, <2>1, Zenon
<1>11. CASE UpdateAsset(w)
  <2>1. PICK b \in assets :
          txn' = [txn EXCEPT ![w].asset = Touch(b, u.event), ![w].phase = "insert"]
    BY <1>11 DEF UpdateAsset
  <2> DEFINE a == Touch(b, u.event)
             z == [u EXCEPT !.asset = a, !.phase = "insert"]
  <2>2. txn' = [txn EXCEPT ![w] = z]
    BY <1>2, <2>1
  <2> HIDE DEF a
  <2>3. z.phase \notin Inserted
    BY <1>2 DEF Transaction, Inserted
  <2> HIDE DEF z
  <2> QED BY <1>1, <1>3, <2>2, <2>3, QuietKeeps
<1>12. CASE InsertProtocolEvent(w)
  <2> DEFINE z == [u EXCEPT !.phase = "audit_lock", !.protocol_event_id = nextProtocolEvent]
  <2>1. txn' = [txn EXCEPT ![w] = z] /\ u.phase \in Inserted
    BY <1>2, <1>12 DEF InsertProtocolEvent, Inserted
  <2>2. z.observation_id = u.observation_id
    BY <1>2 DEF Transaction
  <2> HIDE DEF z
  <2> QED BY <1>1, <1>3, <2>1, <2>2, QuietKeeps
<1> QED BY <1>5, <1>6, <1>7, <1>8, <1>10, <1>11, <1>12

LEMMA EndTells ==
  ASSUME IInv, Story, NEW w \in Workers, AnswerReplay(w) \/ Fail(w) \/ InsertObservation(w)
  PROVE  Story'
<1> DEFINE u == txn[w]
<1>1. u.phase # "idle" /\ UNCHANGED <<assets, observations, auditLog, protocolEvents, deliveries>>
  BY DEF AnswerReplay, Fail, InsertObservation, Busy, database, sequences
<1>2. u \in Transaction /\ u.event \in Events
  BY <1>1, TransactionShape DEF IInv, Typed
<1>3. CASE AnswerReplay(w)
  <2>0. PICK o \in StoredAs(u.event) : \E r \in Originals(u.event, o) : replies' = replies \cup {r}
    BY <1>3 DEF AnswerReplay
  <2>1. PICK r \in Originals(u.event, o) : replies' = replies \cup {r}
    BY <2>0
  <2>2. o \in Observation /\ protocolEvents \subseteq ProtocolEvent
    BY DEF StoredAs, IInv, Typed, Story, Reported
  <2>3. Reported'
    <3>1. ASSUME NEW a \in Nat, NEW b \in Nat, NEW c \in Nat, NEW no \in BOOLEAN
          PROVE  Created(u.event, a, b, c, no) \in Reply
      BY <1>2 DEF Created, Reply
    <3>2. \A p \in protocolEvents : p.id \in Nat
      BY <2>2 DEF ProtocolEvent
    <3>3. o.asset_id \in Nat /\ o.id \in Nat
      BY <2>2 DEF Observation
    <3>4. r \in Reply
      BY <2>1, <3>1, <3>2, <3>3 DEF Originals, Conflict
    <3> QED BY <1>1, <2>1, <3>4 DEF Story, Reported
  <2>4. txn' = [txn EXCEPT ![w] = Idle] /\ nextObservation' = nextObservation
    BY <1>3 DEF AnswerReplay, Finish, sequences
  <2> QED BY <1>1, <2>3, <2>4, IdleSound, QuietKeeps DEF Inserted
<1>4. CASE Fail(w)
  <2>1. txn' = [txn EXCEPT ![w] = Idle] /\ nextObservation' = nextObservation /\ replies' = replies
    BY <1>4 DEF Fail, Finish, sequences
  <2>2. Reported'
    BY <1>1, <2>1 DEF Story, Reported
  <2> QED BY <1>1, <2>1, <2>2, IdleSound, QuietKeeps DEF Inserted
<1>5. CASE InsertObservation(w)
  <2>1. nextObservation' = nextObservation + 1 /\ replies' = replies
    BY <1>5 DEF InsertObservation
  <2>2. Reported'
    BY <1>1, <2>1 DEF Story, Reported
  <2>3. CASE Duplicate(w)
    <3>1. txn' = [txn EXCEPT ![w] = Idle]
      BY <1>5, <2>3 DEF InsertObservation, Finish
    <3> QED BY <1>1, <2>1, <2>2, <3>1, IdleSound, QuietKeeps DEF Inserted
  <2>4. CASE ~Duplicate(w)
    <3> DEFINE t == [u EXCEPT !.phase = "insert_event", !.observation_id = nextObservation]
    <3>1. txn' = [txn EXCEPT ![w] = t] /\ t.observation_id = nextObservation
      BY <1>2, <1>5, <2>4 DEF InsertObservation, IInv, Typed, Transaction
    <3> HIDE DEF t
    <3> QED BY <1>1, <2>1, <2>2, <3>1, QuietKeeps
  <2> QED BY <2>3, <2>4
<1> QED BY <1>3, <1>4, <1>5

LEMMA StoryKept == IInv /\ Story /\ [Next]_vars => Story'
<1> SUFFICES ASSUME IInv, Story, [Next]_vars PROVE Story'
  OBVIOUS
<1>1. ASSUME NEW w \in Workers, NEW e \in Events, Receive(w, e) PROVE Story'
  <2> DEFINE phase == IF EventId[e] = NoId THEN "address_lock" ELSE "event_lock"
             t == [Idle EXCEPT !.event = e, !.phase = phase]
  <2>1. txn' = [txn EXCEPT ![w] = t] /\ t.phase \notin Inserted
    BY <1>1 DEF Receive, Idle, Inserted
  <2>2. /\ UNCHANGED <<assets, observations, auditLog, nextObservation, protocolEvents, replies>>
        /\ deliveries < MaxDeliveries /\ deliveries' = deliveries + 1
    BY <1>1 DEF Receive, database, sequences
  <2>3. Reported'
    BY <2>2, EventsAssumption DEF Story, Reported
  <2> HIDE DEF t
  <2> QED BY <2>1, <2>2, <2>3, QuietKeeps
<1>2. ASSUME NEW w \in Workers, Step(w) \/ Fail(w) PROVE Story'
  BY <1>2, WorkTells, EndTells, CommitTells DEF Step
<1>3. CASE UNCHANGED vars
  <2>1. Drawn' /\ Recorded' /\ StoredOnce' /\ Reported'
    BY <1>3, ZenonT(30) DEF vars, Story, Drawn, Recorded, StoredOnce, Reported
  <2>2. Paired' /\ AuditMatchesInventory'
    BY <1>3, ZenonT(30) DEF vars, Story, Paired, AuditMatchesInventory
  <2> QED BY <2>1, <2>2 DEF Story
<1> QED BY <1>1, <1>2, <1>3 DEF Next

LEMMA WholeStory == Spec => [](IInv /\ Story)
<1>1. Init => IInv /\ Story
  BY Initially, StoryInitially
<1>2. IInv /\ Story /\ [Next]_vars => IInv' /\ Story'
  BY Inductive, StoryKept
<1> QED BY <1>1, <1>2, PTL DEF Spec

\* The audit log tells the inventory's story: as many records about an asset
\* as observations of it, the first and only the first of them its discovery.
THEOREM StoryIsTold == Spec => []AuditMatchesInventory
<1>1. Story => AuditMatchesInventory
  BY DEF Story
<1> QED BY <1>1, WholeStory, PTL

\* Every variable keeps its type, and no advisory lock has two holders.
THEOREM TypeCorrect == Spec => []TypeOK
<1>1. IInv /\ Story => TypeOK
  BY DEF IInv, Typed, Exclusive, ConstraintsNeverFire, Story, Recorded, Reported, TypeOK
<1> QED BY <1>1, WholeStory, PTL

-----------------------------------------------------------------------------
\* Once stored, an event has the rows of its one observation.
LEMMA RowsOfEvent ==
  ASSUME IInv, Story, NEW o \in observations, EventId[o.event] # NoId
  PROVE  /\ Rows(EventId[o.event]) = <<o.asset_id, o.id, EventsOf(o)>>
         /\ EventId[o.event] \in Ids
         /\ \E p \in protocolEvents :
              /\ {q \in protocolEvents : q.observation_id = o.id} = {p}
              /\ EventsOf(o) = {p.id}
<1>1. {p \in observations : EventId[p.event] = EventId[o.event]} = {o}
  BY DEF Story, StoredOnce
<1>2. o.event \in Events
  BY DEF IInv, Typed, Observation
<1>3. PICK p \in protocolEvents : {q \in protocolEvents : q.observation_id = o.id} = {p}
  BY DEF Story, Paired
<1>4. EventsOf(o) = {p.id}
  BY <1>3 DEF EventsOf
<1> QED BY <1>1, <1>2, <1>3, <1>4 DEF Rows, RowsOf, Ids

\* Rows, of the protocol events P and the observations found.
EventsIn(P, x) == {q.id : q \in {z \in P : z.observation_id = x.id}}
RowsIn(P, found) ==
  IF found = {} THEN NotYet
  ELSE LET o == CHOOSE x \in found : TRUE IN <<o.asset_id, o.id, EventsIn(P, o)>>
Deliveries(obs, j) == {x \in obs : EventId[x.event] = j}

LEMMA RowsAre ==
  ASSUME NEW CONSTANT j
  PROVE  /\ Rows(j) = RowsIn(protocolEvents, Deliveries(observations, j))
         /\ Rows(j)' = RowsIn(protocolEvents', Deliveries(observations', j))
BY DEF Rows, RowsOf, EventsOf, RowsIn, EventsIn, Deliveries

\* A commit stores the event it is about, if that has an id, and no other.
LEMMA CommitStores ==
  ASSUME IInv, Story, Story', NEW w \in Workers, Commit(w)
  PROVE  [Inbox!Next]_(Inbox!vars)
<1> DEFINE u == txn[w]
           e == u.event
           rows == <<u.asset.id, u.observation_id, {u.protocol_event_id}>>
           o == [id |-> u.observation_id, event |-> e, asset_id |-> u.asset.id]
           p == [id |-> u.protocol_event_id, observation_id |-> u.observation_id,
                 asset_id |-> u.asset.id]
           r == Created(e, u.asset.id, u.observation_id, u.protocol_event_id, u.created)
<1> SUFFICES ASSUME NEW i, i = EventId[e] PROVE [Inbox!Next]_(Inbox!vars)
  OBVIOUS
<1>1. /\ u.phase = "commit" /\ Sound(u, held[w], nextAsset)
      /\ observations' = observations \cup {o} /\ replies' = replies \cup {r}
      /\ protocolEvents' = protocolEvents \cup {p}
  BY DEF IInv, AllSound, Commit, StoreEvidence
<1>2. e \in Events
  BY <1>1, TransactionShape DEF IInv, Typed
<1>3. /\ o.id = u.observation_id /\ o.event = e /\ o.asset_id = u.asset.id
      /\ p.observation_id = o.id /\ p.id = u.protocol_event_id
      /\ r.event = e /\ Named(r) = rows
  BY DEF Created, Named
<1> HIDE DEF o, p, r
<1>a. /\ \A x \in observations : x.id # p.observation_id
      /\ \A q \in protocolEvents : q.observation_id # o.id
  BY <1>1, <1>3 DEF Story, Drawn, Paired, Inserted
<1>b. \A x \in observations : EventsIn(protocolEvents', x) = EventsIn(protocolEvents, x)
  <2>1. \A x \in observations : {q \in protocolEvents' : q.observation_id = x.id}
                               = {q \in protocolEvents : q.observation_id = x.id}
    BY <1>1, <1>a
  <2> QED BY <2>1 DEF EventsIn
<1>4. \A j \in Ids : j # i => Rows(j)' = Rows(j)
  <2> SUFFICES ASSUME NEW j \in Ids, j # i PROVE Rows(j)' = Rows(j)
    OBVIOUS
  <2> DEFINE found == Deliveries(observations, j)
  <2>1. Deliveries(observations', j) = found
    BY <1>1, <1>3 DEF Deliveries
  <2>2. \A x \in found : EventsIn(protocolEvents', x) = EventsIn(protocolEvents, x)
    BY <1>b DEF Deliveries
  <2>3. Rows(j) = RowsIn(protocolEvents, found) /\ Rows(j)' = RowsIn(protocolEvents', found)
    BY <2>1, RowsAre
  <2> HIDE DEF found
  <2>4. found # {} => (CHOOSE x \in found : TRUE) \in found
    OBVIOUS
  <2>5. CASE found = {}
    BY <2>3, <2>5 DEF RowsIn
  <2>6. CASE found # {}
    <3> DEFINE x == CHOOSE y \in found : TRUE
    <3>1. x \in found /\ EventsIn(protocolEvents', x) = EventsIn(protocolEvents, x)
      BY <2>2, <2>4, <2>6
    <3>2. \A P : RowsIn(P, found) = <<x.asset_id, x.id, EventsIn(P, x)>>
      BY <2>6 DEF RowsIn
    <3> QED BY <2>3, <3>1, <3>2
  <2> QED BY <2>5, <2>6
<1>5. CASE i = NoId
  <2>1. Answered' = Answered
    BY <1>1, <1>3, <1>5 DEF Answered
  <2>2. Stored' = Stored
    BY <1>4, <1>5 DEF Stored, Ids
  <2> QED BY <2>1, <2>2 DEF Inbox!vars
<1>6. CASE i # NoId
  <2>1. i \in Ids /\ StoredAs(e) = {}
    BY <1>1, <1>2, <1>6 DEF Ids, Sound, AfterLookup
  <2>2. Rows(i) = NotYet
    BY <2>1 DEF Rows, RowsOf, StoredAs
  <2>3. Rows(i)' = rows
    <3>1. Deliveries(observations', i) = {o}
      BY <1>1, <1>3, <2>1 DEF StoredAs, Deliveries
    <3>2. EventsIn(protocolEvents', o) = {p.id}
      <4>1. {x \in protocolEvents' : x.observation_id = o.id} = {p}
        BY <1>1, <1>3, <1>a
      <4> QED BY <4>1 DEF EventsIn
    <3>3. Rows(i)' = <<o.asset_id, o.id, EventsIn(protocolEvents', o)>>
      <4>1. Rows(i)' = RowsIn(protocolEvents', {o})
        BY <3>1, RowsAre
      <4>2. \A x : (CHOOSE y \in {x} : TRUE) = x
        OBVIOUS
      <4>3. \A P, x : RowsIn(P, {x}) = <<x.asset_id, x.id, EventsIn(P, x)>>
        BY <4>2 DEF RowsIn
      <4> QED BY <4>1, <4>3
    <3> QED BY <1>3, <3>2, <3>3
  <2>4. Answered' = Answered \cup {<<i, rows>>}
    BY <1>1, <1>3, <1>6 DEF Answered
  <2>5. Stored' = [Stored EXCEPT ![i] = rows] /\ Stored[i] = NotYet /\ Stored'[i] = rows
    <3>1. \A j \in Ids : Rows(j)' = IF j = i THEN rows ELSE Rows(j)
      BY <1>4, <2>3
    <3>2. Stored' = [j \in Ids |-> IF j = i THEN rows ELSE Rows(j)]
      BY <3>1 DEF Stored, Ids
    <3> HIDE DEF rows
    <3> QED BY <2>1, <2>2, <3>2 DEF Stored
  <2>6. rows # NotYet
    BY DEF NotYet
  <2>7. Inbox!Store(i)
    BY <2>4, <2>5, <2>6 DEF Inbox!Store
  <2> QED BY <2>1, <2>7 DEF Inbox!Next
<1> QED BY <1>5, <1>6

\* A replay is answered with what is stored, and never refused.
LEMMA ReplayAnswers ==
  ASSUME IInv, Story, NEW w \in Workers, AnswerReplay(w)
  PROVE  Inbox!Next
<1> DEFINE e == txn[w].event
<1> SUFFICES ASSUME NEW i, i = EventId[e] PROVE Inbox!Next
  OBVIOUS
<1>1. /\ txn[w].phase = "lookup" /\ Sound(txn[w], held[w], nextAsset)
      /\ observations' = observations /\ protocolEvents' = protocolEvents
  BY DEF IInv, AllSound, AnswerReplay, database
<1>2. i # NoId
  BY <1>1 DEF Sound
<1>0. PICK o \in StoredAs(e) : \E r \in Originals(e, o) : replies' = replies \cup {r}
  BY DEF AnswerReplay
<1>3. PICK r \in Originals(e, o) : replies' = replies \cup {r}
  BY <1>0
<1>4. o \in observations /\ EventId[o.event] = i
  BY DEF StoredAs
<1>5. PICK p \in protocolEvents :
        /\ {q \in protocolEvents : q.observation_id = o.id} = {p}
        /\ EventsOf(o) = {p.id}
  BY <1>2, <1>4, RowsOfEvent
<1>6. Rows(i) = <<o.asset_id, o.id, {p.id}>> /\ i \in Ids
  BY <1>2, <1>4, <1>5, RowsOfEvent
<1>7. r = Created(e, o.asset_id, o.id, p.id, FALSE)
  BY <1>3, <1>5 DEF Originals
<1>8. r.event = e /\ Named(r) = Rows(i)
  BY <1>6, <1>7 DEF Created, Named
<1>9. Answered' = Answered \cup {<<i, Rows(i)>>}
  BY <1>2, <1>3, <1>8 DEF Answered
<1>10. Stored[i] = Rows(i) /\ Rows(i) # NotYet /\ Stored' = Stored
  <2>1. Rows(i) # NotYet
    BY <1>6 DEF NotYet
  <2>2. \A j : Rows(j)' = Rows(j)
    BY <1>1, RowsAre
  <2> QED BY <1>6, <2>1, <2>2 DEF Stored
<1>11. Inbox!Replay(i)
  BY <1>9, <1>10 DEF Inbox!Replay
<1> QED BY <1>6, <1>11 DEF Inbox!Next

LEMMA InboxStep == IInv /\ Story /\ Story' /\ [Next]_vars => [Inbox!Next]_(Inbox!vars)
<1> SUFFICES ASSUME IInv, Story, Story', [Next]_vars PROVE [Inbox!Next]_(Inbox!vars)
  OBVIOUS
<1>1. ASSUME UNCHANGED <<observations, protocolEvents, replies>> PROVE [Inbox!Next]_(Inbox!vars)
  BY <1>1 DEF Inbox!vars, Stored, Rows, RowsOf, EventsOf, Answered
<1>2. ASSUME NEW w \in Workers, NEW e \in Events, Receive(w, e) PROVE [Inbox!Next]_(Inbox!vars)
  BY <1>1, <1>2 DEF Receive, database, sequences
<1>3. ASSUME NEW w \in Workers, Step(w) \/ Fail(w) PROVE [Inbox!Next]_(Inbox!vars)
  <2>1. CASE Commit(w)
    BY <2>1, CommitStores
  <2>2. CASE AnswerReplay(w)
    BY <2>2, ReplayAnswers
  <2>3. CASE ~Commit(w) /\ ~AnswerReplay(w)
    BY <1>1, <1>3, <2>3 DEF Step, Fail, LockEvent, NotStored, LockAddress, LockAudit, CreateAsset,
       UpdateAsset, InsertObservation, InsertProtocolEvent, database, sequences
  <2> QED BY <2>1, <2>2, <2>3
<1>4. CASE UNCHANGED vars
  BY <1>1, <1>4 DEF vars
<1> QED BY <1>2, <1>3, <1>4 DEF Next

\* Ingestion implements the inbox a sensor that retries is promised: an event
\* is stored at most once, and every answer about it names the same rows.
THEOREM InboxImplemented == Spec => ImplementsInbox
<1>1. Init => Inbox!Init
  BY DEF Init, Inbox!Init, Stored, Rows, RowsOf, Answered
<1>2. IInv /\ Story /\ [Next]_vars => IInv' /\ Story' /\ [Inbox!Next]_(Inbox!vars)
  BY Inductive, StoryKept, InboxStep
<1> QED BY <1>1, <1>2, Initially, StoryInitially, PTL DEF Spec, ImplementsInbox, Inbox!Spec

-----------------------------------------------------------------------------
(* The spool: what is in memory, in files and stored. *)

\* The file capture writes to is the last one, and a "writing" one unless it has
\* been seized.
WritesLast ==
  capture.phase = "writing" =>
    /\ capture.file = Len(files) /\ Len(files) > 0
    /\ files[capture.file].place = "writing" \/ capture.file \in seized

\* A file that has been seized is there to stay.
SeizedStays == /\ seized \subseteq DOMAIN files
         /\ \A f \in seized : files[f].place # "writing"

\* What is archived or deleted has been stored, except under a running capture.
Cleared ==
  \A f \in DOMAIN files \ seized :
    files[f].place \in {"archive", "gone"} => ToSet(files[f].data) \subseteq stored

\* The pass is on files that are sealed; of the first one, what it has sent is stored.
SendsInOrder ==
  forwarder.phase = "files" =>
    /\ forwarder.todo \subseteq DOMAIN files
    /\ \A f \in forwarder.todo : files[f].place # "writing"
    /\ forwarder.todo # {} =>
         /\ forwarder.sent <= Len(files[Path].data)
         /\ \A i \in 1..forwarder.sent : files[Path].data[i] \in stored

PacketKept(n) ==
  n \in missed \/ n \in InMemory \/ n \in stored
    \/ \E f \in DOMAIN files : Holds(f, n) /\ (files[f].place \in {"writing", "ready"} \/ f \in seized)

SpoolInv == SpoolTypeOK /\ WritesLast /\ SeizedStays /\ Cleared /\ SendsInOrder /\ EvidenceKept

LEMMA AsPacketKept == EvidenceKept <=> \A n \in 1..sniffed : PacketKept(n)
BY Zenon DEF EvidenceKept, PacketKept

-----------------------------------------------------------------------------
LEMMA PacketsJoined ==
  ASSUME NEW s \in Seq(Packets), NEW t \in Seq(Packets)
  PROVE  /\ s \o t \in Seq(Packets) /\ ToSet(s \o t) = ToSet(s) \cup ToSet(t)
         /\ Len(s) <= Len(s \o t) /\ \A i \in 1..Len(s) : (s \o t)[i] = s[i]
<1>1. /\ s \o t \in Seq(Packets) /\ Len(s \o t) = Len(s) + Len(t) /\ Len(s) \in Nat /\ Len(t) \in Nat
      /\ DOMAIN (s \o t) = 1..(Len(s) + Len(t)) /\ DOMAIN s = 1..Len(s) /\ DOMAIN t = 1..Len(t)
      /\ \A i \in 1..Len(s) : (s \o t)[i] = s[i]
      /\ \A i \in 1..Len(t) : (s \o t)[Len(s) + i] = t[i]
  OBVIOUS
<1> DEFINE u == s \o t
<1> HIDE DEF u
<1>2. ASSUME NEW i \in DOMAIN u PROVE u[i] \in ToSet(s) \cup ToSet(t)
  <2>1. CASE i <= Len(s)
    BY <1>1, <2>1 DEF ToSet, u
  <2>2. CASE i > Len(s)
    <3>1. i - Len(s) \in 1..Len(t) /\ i = Len(s) + (i - Len(s))
      BY <1>1, <2>2 DEF u
    <3>2. u[i] = t[i - Len(s)]
      BY <1>1, <3>1 DEF u
    <3> QED BY <1>1, <3>1, <3>2 DEF ToSet
  <2> QED BY <1>1, <2>1, <2>2 DEF u
<1>3. ASSUME NEW i \in DOMAIN s PROVE s[i] \in ToSet(u)
  BY <1>1 DEF ToSet, u
<1>4. ASSUME NEW i \in DOMAIN t PROVE t[i] \in ToSet(u)
  <2>1. Len(s) + i \in DOMAIN u /\ u[Len(s) + i] = t[i]
    BY <1>1 DEF u
  <2> QED BY <2>1 DEF ToSet
<1>5. ToSet(u) = ToSet(s) \cup ToSet(t)
  BY <1>2, <1>3, <1>4 DEF ToSet
<1> QED BY <1>1, <1>5 DEF u

LEMMA PacketAdded ==
  ASSUME NEW s \in Seq(Packets), NEW x \in Packets
  PROVE  Append(s, x) \in Seq(Packets) /\ ToSet(Append(s, x)) = ToSet(s) \cup {x}
<1> DEFINE u == Append(s, x)
<1>1. /\ u \in Seq(Packets) /\ Len(s) \in Nat /\ DOMAIN s = 1..Len(s)
      /\ DOMAIN u = (1..Len(s)) \cup {Len(s) + 1}
      /\ u[Len(s) + 1] = x /\ \A i \in 1..Len(s) : u[i] = s[i]
  OBVIOUS
<1> HIDE DEF u
<1>2. ToSet(u) = ToSet(s) \cup {x}
  BY <1>1 DEF ToSet
<1> QED BY <1>1, <1>2 DEF u

LEMMA PacketTaken ==
  ASSUME NEW s \in Seq(Packets), s # <<>>
  PROVE  /\ Head(s) \in Packets /\ Tail(s) \in Seq(Packets) /\ Len(Tail(s)) < Len(s)
         /\ ToSet(s) = {Head(s)} \cup ToSet(Tail(s))
<1> DEFINE u == Tail(s)
<1>1. /\ u \in Seq(Packets) /\ Len(s) \in Nat /\ Len(s) > 0 /\ DOMAIN s = 1..Len(s)
      /\ Len(u) = Len(s) - 1 /\ DOMAIN u = 1..(Len(s) - 1) /\ Head(s) = s[1]
      /\ \A i \in 1..(Len(s) - 1) : u[i] = s[i + 1]
  OBVIOUS
<1> HIDE DEF u
<1>2. ASSUME NEW i \in DOMAIN s PROVE s[i] \in {Head(s)} \cup ToSet(u)
  <2>1. CASE i = 1
    BY <1>1, <2>1
  <2>2. CASE i # 1
    <3>1. i - 1 \in 1..(Len(s) - 1) /\ (i - 1) + 1 = i
      BY <1>1, <2>2
    <3>2. u[i - 1] = s[i] /\ i - 1 \in DOMAIN u
      BY <1>1, <3>1
    <3> QED BY <3>2 DEF ToSet
  <2> QED BY <2>1, <2>2
<1>3. \A i \in DOMAIN u : i + 1 \in DOMAIN s /\ u[i] = s[i + 1]
  BY <1>1
<1>4. ToSet(s) = {Head(s)} \cup ToSet(u)
  BY <1>1, <1>2, <1>3, SMTT(30) DEF ToSet
<1> QED BY <1>1, <1>4 DEF u

LEMMA PacketsInOrder ==
  ASSUME NEW r \in Seq(Packets), NEW s \in Seq(Packets), NEW t \in Seq(Packets)
  PROVE  (r \o s) \o t = r \o (s \o t)
BY ConcatAssociative

LEMMA FileReplaced ==
  ASSUME NEW s \in Seq(File), NEW i \in DOMAIN s, NEW x \in File, NEW t, t = [s EXCEPT ![i] = x]
  PROVE  /\ t \in Seq(File) /\ Len(t) = Len(s) /\ DOMAIN t = DOMAIN s
         /\ t[i] = x /\ \A j \in DOMAIN s \ {i} : t[j] = s[j]
OBVIOUS

LEMMA NoPacketIn == ToSet(<<>>) = {}
BY DEF ToSet

\* A set of numbers has a least one.
LEMMA LeastOf ==
  ASSUME NEW S \in SUBSET Nat, S # {}
  PROVE  \E x \in S : \A y \in S : x <= y
<1>1. \E x \in S : \A y \in S : ~ (<<y, x>> \in OpToRel(<, Nat))
  BY NatLessThanWellFounded, WFMin
<1>2. PICK x \in S : \A y \in S : ~ (<<y, x>> \in OpToRel(<, Nat))
  BY <1>1
<1>3. \A y \in S : y < x => <<y, x>> \in OpToRel(<, Nat)
  BY DEF OpToRel
<1>4. \A y \in S : ~(y < x)
  BY <1>2, <1>3, Zenon
<1> QED BY <1>4

LEMMA LeastIsIn ==
  ASSUME NEW S \in SUBSET Nat, S # {}
  PROVE  Min(S) \in S
BY LeastOf DEF Min

-----------------------------------------------------------------------------
\* The types of a file, of capture and of forward.
LEMMA SpoolShapes ==
  ASSUME SpoolTypeOK
  PROVE  /\ Len(files) \in Nat /\ DOMAIN files = 1..Len(files) /\ Len(files) <= MaxFiles
         /\ \A f \in DOMAIN files : files[f] \in File /\ files[f].data \in Seq(Packets)
         /\ capture.phase = "writing" => capture \in Capturing /\ capture.buffer \in Seq(Packets)
         /\ capture.phase # "writing" => capture \in {Down, Stopped}
         /\ forwarder.phase = "files" =>
              forwarder \in Forwarding /\ forwarder.todo \subseteq Nat /\ forwarder.sent \in Nat
         /\ forwarder.phase # "files" => forwarder \in {Down, [phase |-> "list"]}
         /\ Down.phase = "down" /\ Stopped.phase = "idle"
<1>1. Down.phase = "down" /\ Stopped.phase = "idle"
  BY DEF Down, Stopped
<1>2. /\ Len(files) \in Nat /\ DOMAIN files = 1..Len(files) /\ Len(files) <= MaxFiles
      /\ \A f \in DOMAIN files : files[f] \in File
  BY DEF SpoolTypeOK
<1>3. \A x \in File : x.data \in Seq(Packets)
  BY DEF File
<1>4. \A x \in Capturing : x.phase = "writing" /\ x.buffer \in Seq(Packets)
  BY DEF Capturing
<1>5. \A x \in Forwarding : x.phase = "files" /\ x.todo \subseteq Nat /\ x.sent \in Nat
  BY SpoolAssumption DEF Forwarding
<1>6. capture \in {Down, Stopped} \cup Capturing
  BY DEF SpoolTypeOK
<1>7. forwarder \in {Down, [phase |-> "list"]} \cup Forwarding
  BY DEF SpoolTypeOK
<1>8. [phase |-> "list"].phase = "list"
  OBVIOUS
<1>9. /\ capture.phase = "writing" => capture \in Capturing
      /\ capture.phase # "writing" => capture \in {Down, Stopped}
  BY <1>1, <1>4, <1>6
<1>10. /\ forwarder.phase = "files" => forwarder \in Forwarding
       /\ forwarder.phase # "files" => forwarder \in {Down, [phase |-> "list"]}
  BY <1>1, <1>5, <1>7, <1>8
<1> QED BY <1>1, <1>2, <1>3, <1>4, <1>5, <1>9, <1>10

LEMMA SpoolInitially == SpoolInit => SpoolInv
<1> SUFFICES ASSUME SpoolInit PROVE SpoolInv
  OBVIOUS
<1>1. SpoolTypeOK
  BY SpoolAssumption DEF SpoolInit, SpoolTypeOK
<1>2. capture.phase = "down" /\ forwarder.phase = "down" /\ files = <<>> /\ DOMAIN files = {}
  BY DEF SpoolInit, Down
<1> QED BY <1>1, <1>2 DEF SpoolInit, SpoolInv, WritesLast, SeizedStays, Cleared, SendsInOrder, EvidenceKept

\* A file that is kept with what it holds, and sealed if it was.
Longer(f) ==
  /\ f \in DOMAIN files'
  /\ files[f].place # "writing" => files'[f].place # "writing"
  /\ Len(files[f].data) <= Len(files'[f].data)
  /\ \A i \in 1..Len(files[f].data) : files'[f].data[i] = files[f].data[i]

\* Steps of capture leave forward where it is.
LEMMA SendsInOrderKept ==
  ASSUME SpoolInv, UNCHANGED forwarder, stored \subseteq stored',
         \A f \in DOMAIN files : files[f].place # "writing" => Longer(f)
  PROVE  SendsInOrder'
<1> SUFFICES ASSUME forwarder.phase = "files" PROVE SendsInOrder'
  BY DEF SendsInOrder
<1>1. forwarder.todo # {} => Path \in forwarder.todo /\ Path' = Path
  BY SpoolShapes, LeastIsIn DEF SpoolInv, Path
<1>2. \A f \in forwarder.todo : f \in DOMAIN files /\ Longer(f) /\ files'[f].place # "writing"
  BY DEF SpoolInv, SendsInOrder, Longer
<1>3. ASSUME forwarder.todo # {}
      PROVE  /\ forwarder.sent <= Len(files'[Path].data)
             /\ \A i \in 1..forwarder.sent : files'[Path].data[i] \in stored'
  <2>1. Path \in DOMAIN files /\ Longer(Path)
    BY <1>1, <1>2, <1>3
  <2>2. files[Path].data \in Seq(Packets) /\ forwarder.sent \in Nat
    BY <2>1, SpoolShapes DEF SpoolInv
  <2>3. /\ forwarder.sent <= Len(files[Path].data)
        /\ \A i \in 1..forwarder.sent : files[Path].data[i] \in stored
    BY <1>3 DEF SpoolInv, SendsInOrder
  <2> DEFINE old == files[Path].data
             new == files'[Path].data
  <2>4. Len(old) \in Nat /\ Len(old) <= Len(new) /\ \A i \in 1..Len(old) : new[i] = old[i]
    BY <2>1, <2>2 DEF Longer
  <2>5. \A i \in 1..forwarder.sent : i \in 1..Len(old)
    BY <2>2, <2>3, <2>4
  <2>6. Len(new) >= forwarder.sent
    BY <2>2, <2>3, <2>4
  <2> QED BY <2>3, <2>4, <2>5, <2>6
<1> QED BY <1>1, <1>2, <1>3 DEF SendsInOrder, Longer

\* A file that may still be forwarded, or was taken under the writer.
Keeping(f) == files[f].place \in {"writing", "ready"} \/ f \in seized

\* No packet is forgotten by a step that keeps what was in memory and in files.
LEMMA StillKept ==
  ASSUME SpoolInv, sniffed' = sniffed, missed \subseteq missed', stored \subseteq stored',
         \A n \in InMemory : PacketKept(n)',
         \A f \in DOMAIN files : Keeping(f) => \A n \in ToSet(files[f].data) : PacketKept(n)'
  PROVE  EvidenceKept'
<1>1. ASSUME NEW n \in 1..sniffed PROVE PacketKept(n)'
  <2>1. PacketKept(n)
    BY AsPacketKept DEF SpoolInv
  <2>2. n \in missed \cup stored => PacketKept(n)'
    BY DEF PacketKept
  <2>3. ASSUME NEW f \in DOMAIN files, Holds(f, n), Keeping(f) PROVE PacketKept(n)'
    BY <2>3 DEF Holds
  <2> QED BY <2>1, <2>2, <2>3 DEF PacketKept, Keeping
<1> QED BY <1>1, Zenon DEF EvidenceKept, PacketKept

\* The files are as they were.
LEMMA FilesStay ==
  ASSUME SpoolInv, UNCHANGED <<files, seized>>
  PROVE  \A f \in DOMAIN files : Keeping(f) => \A n \in ToSet(files[f].data) : PacketKept(n)'
BY DEF Keeping, PacketKept, Holds

-----------------------------------------------------------------------------
(* Steps that touch no file. *)

LEMMA InMemoryKeeps ==
  ASSUME SpoolInv, UNCHANGED <<files, forwarder, stored, seized>>, SpoolTypeOK', WritesLast',
         EvidenceKept'
  PROVE  SpoolInv'
<1>1. SendsInOrder'
  <2>1. \A f \in DOMAIN files : Longer(f)
    BY SpoolShapes DEF SpoolInv, Longer
  <2> QED BY <2>1, SendsInOrderKept
<1> QED BY <1>1 DEF SpoolInv, SeizedStays, Cleared

LEMMA SniffKeeps ==
  ASSUME SpoolInv, Sniff
  PROVE  SpoolInv'
<1> SUFFICES ASSUME NEW n, n = sniffed + 1 PROVE SpoolInv'
  OBVIOUS
<1>1. /\ capture # Down /\ sniffed < MaxPackets /\ sniffed' = n
      /\ UNCHANGED <<files, forwarder, stored, seized>> /\ UNCHANGED <<capture, faults>>
      /\ \/ Len(queue) < QueueSize /\ queue' = Append(queue, n) /\ missed' = missed
         \/ queue' = queue /\ missed' = missed \cup {n}
  BY DEF Sniff
<1>2. n \in Packets /\ n \in 0..MaxPackets /\ queue \in Seq(Packets) /\ 1..n = 1..sniffed \cup {n}
  BY <1>1, SpoolAssumption DEF SpoolInv, SpoolTypeOK, Packets
<1>3. /\ Append(queue, n) \in Seq(Packets) /\ ToSet(Append(queue, n)) = ToSet(queue) \cup {n}
      /\ Len(queue) < QueueSize => Len(Append(queue, n)) <= QueueSize
  BY <1>2, PacketAdded, SpoolAssumption
<1>4. SpoolTypeOK' /\ WritesLast'
  BY <1>1, <1>2, <1>3 DEF SpoolInv, SpoolTypeOK, WritesLast
<1>5. EvidenceKept'
  <2>1. ASSUME NEW m \in 1..sniffed PROVE PacketKept(m)'
    <3>1. PacketKept(m)
      BY AsPacketKept DEF SpoolInv
    <3> QED BY <1>1, <1>3, <3>1 DEF PacketKept, InMemory, Holds
  <2>2. PacketKept(n)'
    BY <1>1, <1>3 DEF PacketKept, InMemory
  <2>3. \A m \in 1..sniffed' : PacketKept(m)'
    BY <1>1, <1>2, <2>1, <2>2
  <2> QED BY <2>3, Zenon DEF EvidenceKept, PacketKept
<1> QED BY <1>1, <1>4, <1>5, InMemoryKeeps

LEMMA WriteKeeps ==
  ASSUME SpoolInv, Write
  PROVE  SpoolInv'
<1>1. /\ capture.phase = "writing" /\ queue # <<>> /\ queue' = Tail(queue)
      /\ capture' = [capture EXCEPT !.buffer = Append(@, Head(queue))]
      /\ UNCHANGED <<files, forwarder, stored, seized>> /\ UNCHANGED <<sniffed, missed, faults>>
  BY DEF Write
<1>2. queue \in Seq(Packets) /\ capture \in Capturing /\ capture.buffer \in Seq(Packets)
  BY <1>1, SpoolShapes DEF SpoolInv, SpoolTypeOK
<1>3. /\ Head(queue) \in Packets /\ Tail(queue) \in Seq(Packets) /\ Len(Tail(queue)) < Len(queue)
      /\ ToSet(queue) = {Head(queue)} \cup ToSet(Tail(queue))
  BY <1>1, <1>2, PacketTaken
<1>4. /\ Append(capture.buffer, Head(queue)) \in Seq(Packets)
      /\ ToSet(Append(capture.buffer, Head(queue))) = ToSet(capture.buffer) \cup {Head(queue)}
  BY <1>2, <1>3, PacketAdded
<1>5. /\ capture' \in Capturing /\ capture'.phase = "writing" /\ capture'.file = capture.file
      /\ capture'.buffer = Append(capture.buffer, Head(queue))
  BY <1>1, <1>2, <1>4 DEF Capturing
<1>6. InMemory' = InMemory
  BY <1>1, <1>3, <1>4, <1>5 DEF InMemory
<1>7. SpoolTypeOK'
  <2>1. Len(Tail(queue)) <= QueueSize
    BY <1>2, <1>3, SpoolAssumption DEF SpoolInv, SpoolTypeOK
  <2> QED BY <1>1, <1>3, <1>5, <2>1 DEF SpoolInv, SpoolTypeOK
<1>8. WritesLast'
  BY <1>1, <1>5 DEF SpoolInv, WritesLast
<1>9. EvidenceKept'
  <2>1. \A n \in InMemory : PacketKept(n)'
    BY <1>6 DEF PacketKept
  <2> QED BY <1>1, <2>1, FilesStay, StillKept
<1> QED BY <1>1, <1>7, <1>8, <1>9, InMemoryKeeps

LEMMA ExitKeeps ==
  ASSUME SpoolInv, Exit, UNCHANGED <<files, forwarder, stored, seized, sniffed>>,
         faults' \in 0..MaxFaults
  PROVE  SpoolInv'
<1>1. capture' = Down /\ queue' = <<>> /\ missed' = missed \cup InMemory
  BY DEF Exit, InMemory
<1>2. InMemory \subseteq Packets
  BY SpoolShapes DEF SpoolInv, SpoolTypeOK, InMemory, ToSet
<1>3. SpoolTypeOK' /\ WritesLast'
  BY <1>1, <1>2, SpoolShapes, SpoolAssumption DEF SpoolInv, SpoolTypeOK, WritesLast
<1>4. EvidenceKept'
  <2>1. \A n \in InMemory : PacketKept(n)'
    BY <1>1 DEF PacketKept
  <2> QED BY <1>1, <2>1, FilesStay, StillKept
<1> QED BY <1>3, <1>4, InMemoryKeeps

ForwarderTyped == forwarder \in {Down, [phase |-> "list"]} \cup Forwarding

LEMMA ForwardKeeps ==
  ASSUME SpoolInv, UNCHANGED <<files, capture, queue, sniffed, missed, seized>>,
         stored \subseteq stored', stored' \subseteq Packets, faults' \in 0..MaxFaults,
         ForwarderTyped', SendsInOrder'
  PROVE  SpoolInv'
<1>1. SpoolTypeOK'
  BY DEF SpoolInv, SpoolTypeOK, ForwarderTyped
<1>2. WritesLast' /\ SeizedStays' /\ Cleared'
  BY DEF SpoolInv, WritesLast, SeizedStays, Cleared
<1>3. EvidenceKept'
  <2>1. \A n \in InMemory : PacketKept(n)'
    BY DEF PacketKept, InMemory
  <2> QED BY <2>1, FilesStay, StillKept
<1> QED BY <1>1, <1>2, <1>3 DEF SpoolInv

\* The pass goes on to the next file and has sent nothing of it.
LEMMA NextIsFresh ==
  ASSUME SpoolInv, AtFile, NextFile,
         \A f \in forwarder.todo : f \in DOMAIN files' /\ files'[f].place # "writing"
                                   /\ files'[f].data \in Seq(Packets)
  PROVE  ForwarderTyped' /\ SendsInOrder'
<1> DEFINE left == forwarder.todo \ {Path}
           none == 0
           t == [forwarder EXCEPT !.todo = left, !.sent = none, !.attempt = none]
<1>1. forwarder' = t /\ none = 0 /\ none \in Nat /\ none \in 0..Retries
  BY SpoolAssumption DEF NextFile
<1>2. forwarder \in Forwarding /\ forwarder.todo \subseteq Nat
  BY SpoolShapes DEF AtFile, SpoolInv
<1>3. left \subseteq forwarder.todo /\ left \in SUBSET (1..MaxFiles)
  BY <1>2 DEF Forwarding
<1> HIDE DEF left, none
<1>4. t \in Forwarding /\ t.phase = "files" /\ t.todo = left /\ t.sent = 0
  BY <1>1, <1>2, <1>3 DEF Forwarding
<1> HIDE DEF t
<1>5. ForwarderTyped'
  BY <1>1, <1>4 DEF ForwarderTyped
<1>6. left # {} => Path' \in left
  BY <1>1, <1>2, <1>3, <1>4, LeastIsIn DEF Path
<1>7. SendsInOrder'
  <2>1. \A f \in left : f \in DOMAIN files' /\ files'[f].place # "writing" /\ Len(files'[f].data) \in Nat
    BY <1>3
  <2>2. ASSUME left # {}
        PROVE  0 <= Len(files'[Path'].data)
    BY <1>6, <2>1, <2>2
  <2> QED BY <1>1, <1>4, <2>1, <2>2 DEF SendsInOrder
<1> QED BY <1>5, <1>7

LEMMA ListKeeps ==
  ASSUME SpoolInv, List
  PROVE  SpoolInv'
<1> DEFINE ready == In("ready")
           none == 0
           t == [phase |-> "files", todo |-> ready, sent |-> none, attempt |-> none]
<1>1. /\ forwarder' = t /\ none = 0 /\ none \in Nat /\ none \in 0..Retries
      /\ UNCHANGED <<files, capture, queue, sniffed, missed, seized>> /\ UNCHANGED <<stored, faults>>
  BY SpoolAssumption DEF List
<1>2. ready \subseteq DOMAIN files /\ \A f \in ready : files[f].place # "writing"
  BY DEF In
<1>3. ready \in SUBSET (1..MaxFiles) /\ ready \in SUBSET Nat
  BY <1>2, SpoolShapes, SpoolAssumption DEF SpoolInv
<1> HIDE DEF ready, none
<1>4. t \in Forwarding /\ t.phase = "files" /\ t.todo = ready /\ t.sent = 0
  BY <1>1, <1>3 DEF Forwarding
<1> HIDE DEF t
<1>5. Path' \in ready \/ ready = {}
  BY <1>1, <1>3, <1>4, LeastIsIn DEF Path
<1>6. SendsInOrder'
  <2>1. \A f \in ready : files'[f].data \in Seq(Packets) /\ Len(files'[f].data) \in Nat
    BY <1>1, <1>2, SpoolShapes DEF SpoolInv
  <2> QED BY <1>1, <1>2, <1>4, <1>5, <2>1 DEF SendsInOrder
<1>7. ForwarderTyped' /\ stored' \subseteq Packets /\ faults' \in 0..MaxFaults
  BY <1>1, <1>4 DEF ForwarderTyped, SpoolInv, SpoolTypeOK
<1> QED BY <1>1, <1>6, <1>7, ForwardKeeps

\* What forward is about to send.
LEMMA AtRecordShape ==
  ASSUME SpoolInv, AtRecord
  PROVE  /\ forwarder \in Forwarding /\ forwarder.todo \subseteq Nat /\ forwarder.sent \in Nat
         /\ Path \in forwarder.todo /\ Path \in DOMAIN files
         /\ forwarder.sent + 1 \in 1..Len(files[Path].data) /\ Record \in Packets
         /\ \A f \in forwarder.todo : f \in DOMAIN files /\ files[f].place # "writing"
                                      /\ files[f].data \in Seq(Packets)
<1>1. /\ forwarder.phase = "files" /\ forwarder.todo # {}
      /\ forwarder.sent < Len(files[Path].data)
  BY DEF AtRecord, AtFile
<1>2. forwarder \in Forwarding /\ forwarder.todo \subseteq Nat /\ forwarder.sent \in Nat
  BY <1>1, SpoolShapes DEF SpoolInv
<1>3. Path \in forwarder.todo
  BY <1>1, <1>2, LeastIsIn DEF Path
<1>4. \A f \in forwarder.todo : f \in DOMAIN files /\ files[f].place # "writing"
                                /\ files[f].data \in Seq(Packets)
  BY <1>1, SpoolShapes DEF SpoolInv, SendsInOrder
<1>5. forwarder.sent + 1 \in 1..Len(files[Path].data)
  BY <1>1, <1>2, <1>3, <1>4
<1> QED BY <1>2, <1>3, <1>4, <1>5 DEF Record

LEMMA PostKeeps ==
  ASSUME SpoolInv, PostAccepted \/ PostRefused \/ PostUnanswered
  PROVE  SpoolInv'
<1>1. AtRecord /\ UNCHANGED <<files, capture, queue, sniffed, missed, seized>>
  BY DEF PostAccepted, PostRefused, PostUnanswered
<1>2. AtFile /\ forwarder.phase = "files" /\ forwarder.todo # {}
  BY <1>1 DEF AtRecord, AtFile
<1>3. /\ stored \subseteq stored' /\ stored' \subseteq Packets /\ faults' \in 0..MaxFaults
  BY <1>1, AtRecordShape, SpoolAssumption, SMTT(30)
     DEF PostAccepted, PostRefused, PostUnanswered, Fault, SpoolInv, SpoolTypeOK
<1>4. \A f \in forwarder.todo : f \in DOMAIN files' /\ files'[f].place # "writing"
                                /\ files'[f].data \in Seq(Packets)
  BY <1>1, AtRecordShape
<1>5. CASE NextFile
  BY <1>1, <1>2, <1>3, <1>4, <1>5, NextIsFresh, ForwardKeeps
<1>6. CASE PostAccepted
  <2> DEFINE more == forwarder.sent + 1
             none == 0
             t == [forwarder EXCEPT !.sent = more, !.attempt = none]
  <2>1. forwarder' = t /\ stored' = stored \cup {Record} /\ none \in 0..Retries /\ more \in Nat
    BY <1>1, <1>6, AtRecordShape, SpoolAssumption DEF PostAccepted
  <2>2. more \in 1..Len(files[Path].data) /\ Record = files[Path].data[more]
    BY <1>1, AtRecordShape DEF Record
  <2> HIDE DEF none
  <2>3. t \in Forwarding /\ t.phase = "files" /\ t.todo = forwarder.todo /\ t.sent = more
    BY <1>1, <2>1, AtRecordShape DEF Forwarding
  <2>4. Path' = Path
    BY <2>1, <2>3 DEF Path
  <2>5. \A i \in 1..more : i = more \/ i \in 1..forwarder.sent
    BY <1>1, AtRecordShape
  <2> HIDE DEF t, more
  <2>6. /\ more <= Len(files[Path].data)
        /\ \A i \in 1..more : files[Path].data[i] \in stored'
    BY <1>2, <2>1, <2>2, <2>5 DEF SpoolInv, SendsInOrder
  <2>7. SendsInOrder'
    BY <1>1, <1>4, <2>1, <2>3, <2>4, <2>6 DEF SendsInOrder
  <2>8. ForwarderTyped'
    BY <2>1, <2>3 DEF ForwarderTyped
  <2> QED BY <1>1, <1>3, <2>7, <2>8, ForwardKeeps
<1>7. CASE PostUnanswered /\ ~NextFile
  <2> DEFINE again == forwarder.attempt + 1
             t == [forwarder EXCEPT !.attempt = again]
  <2>1. forwarder' = t /\ forwarder.attempt < Retries
    BY <1>7 DEF PostUnanswered
  <2>2. again \in 0..Retries
    BY <1>1, <2>1, AtRecordShape, SpoolAssumption DEF Forwarding
  <2> HIDE DEF again
  <2>3. t \in Forwarding /\ t.phase = "files" /\ t.todo = forwarder.todo /\ t.sent = forwarder.sent
    BY <1>1, <2>2, AtRecordShape DEF Forwarding
  <2> HIDE DEF t
  <2>4. Path' = Path
    BY <2>1, <2>3 DEF Path
  <2>5. SendsInOrder'
    BY <1>1, <1>2, <1>3, <1>4, <2>1, <2>3, <2>4 DEF SpoolInv, SendsInOrder
  <2>6. ForwarderTyped'
    BY <2>1, <2>3 DEF ForwarderTyped
  <2> QED BY <1>1, <1>3, <2>5, <2>6, ForwardKeeps
<1> QED BY <1>5, <1>6, <1>7 DEF PostRefused

LEMMA CrashForwarderKeeps ==
  ASSUME SpoolInv, CrashForwarder
  PROVE  SpoolInv'
<1>1. /\ forwarder' = Down /\ UNCHANGED <<files, capture, queue, sniffed, missed, seized>>
      /\ stored' = stored /\ faults' \in 0..MaxFaults
  BY SpoolAssumption DEF CrashForwarder, Fault, SpoolInv, SpoolTypeOK
<1>2. ForwarderTyped' /\ SendsInOrder' /\ stored' \subseteq Packets
  BY <1>1 DEF ForwarderTyped, SendsInOrder, Down, SpoolInv, SpoolTypeOK
<1> QED BY <1>1, <1>2, ForwardKeeps

-----------------------------------------------------------------------------
(* Steps that change files. *)

\* recover_abandoned_captures: a file is sealed, or deleted if it holds nothing.
LEMMA RecoverShape ==
  ASSUME SpoolTypeOK, Recover
  PROVE  /\ files' \in Seq(File) /\ Len(files') = Len(files) /\ DOMAIN files' = DOMAIN files
         /\ \A f \in DOMAIN files :
              /\ files'[f].data = files[f].data
              /\ files'[f].place = IF files[f].place # "writing" THEN files[f].place
                                   ELSE IF files[f].data = <<>> THEN "gone" ELSE "ready"
<1>1. /\ Len(files) \in Nat /\ DOMAIN files = 1..Len(files)
      /\ \A f \in DOMAIN files : files[f] \in File
  BY SpoolShapes
<1>2. files' = [f \in 1..Len(files) |-> Recovered(f)]
  BY <1>1 DEF Recover
<1>3. ASSUME NEW f \in DOMAIN files
      PROVE  /\ Recovered(f) \in File /\ Recovered(f).data = files[f].data
             /\ Recovered(f).place = IF files[f].place # "writing" THEN files[f].place
                                     ELSE IF files[f].data = <<>> THEN "gone" ELSE "ready"
  <2> DEFINE place == IF files[f].data = <<>> THEN "gone" ELSE "ready"
             z == [files[f] EXCEPT !.place = place]
  <2>1. place \in {"gone", "ready"}
    OBVIOUS
  <2> HIDE DEF place
  <2>2. z \in File /\ z.place = place /\ z.data = files[f].data
    BY <1>1, <2>1 DEF File
  <2>3. Recovered(f) = IF files[f].place # "writing" THEN files[f] ELSE z
    BY DEF Recovered, place
  <2> HIDE DEF z
  <2> QED BY <1>1, <2>2, <2>3 DEF place
<1> QED BY <1>1, <1>2, <1>3

LEMMA CaptureStartKeeps ==
  ASSUME SpoolInv, CaptureStart
  PROVE  SpoolInv'
<1>1. /\ capture = Down /\ capture' = Stopped /\ Recover
      /\ UNCHANGED <<queue, sniffed, missed, forwarder, stored, seized, faults>>
  BY DEF CaptureStart
<1>2. /\ files' \in Seq(File) /\ Len(files') = Len(files) /\ DOMAIN files' = DOMAIN files
      /\ \A f \in DOMAIN files :
           /\ files'[f].data = files[f].data
           /\ files'[f].place = IF files[f].place # "writing" THEN files[f].place
                                ELSE IF files[f].data = <<>> THEN "gone" ELSE "ready"
  BY <1>1, RecoverShape DEF SpoolInv
<1>3. SpoolTypeOK' /\ WritesLast' /\ SeizedStays'
  BY <1>1, <1>2, SpoolShapes DEF SpoolInv, SpoolTypeOK, WritesLast, SeizedStays
<1>4. Cleared'
  BY <1>1, <1>2, NoPacketIn DEF SpoolInv, Cleared
<1>5. SendsInOrder'
  <2>1. \A f \in DOMAIN files : Longer(f)
    BY <1>2, SpoolShapes DEF SpoolInv, Longer
  <2> QED BY <1>1, <2>1, SendsInOrderKept
<1>6. EvidenceKept'
  <2>1. \A n \in InMemory : PacketKept(n)'
    BY <1>1, SpoolShapes DEF InMemory, PacketKept, SpoolInv
  <2>2. ASSUME NEW f \in DOMAIN files, Keeping(f), NEW n \in ToSet(files[f].data) PROVE PacketKept(n)'
    <3>1. files[f].data # <<>>
      BY NoPacketIn
    <3>2. files'[f].place \in {"writing", "ready"} \/ f \in seized'
      BY <1>1, <1>2, <2>2, <3>1 DEF Keeping
    <3> QED BY <1>2, <3>2 DEF PacketKept, Holds
  <2> QED BY <1>1, <2>1, <2>2, StillKept
<1> QED BY <1>3, <1>4, <1>5, <1>6 DEF SpoolInv

\* forward seals whatever is there, the file capture is writing to included.
LEMMA ForwardStartKeeps ==
  ASSUME SpoolInv, ForwardStart
  PROVE  SpoolInv'
<1>1. /\ Recover /\ seized' = seized \cup {f \in In("writing") : Live(f)}
      /\ forwarder' = [phase |-> "list"]
      /\ UNCHANGED <<capture, queue, sniffed, missed, stored, faults>>
  BY DEF ForwardStart
<1>2. /\ files' \in Seq(File) /\ Len(files') = Len(files) /\ DOMAIN files' = DOMAIN files
      /\ \A f \in DOMAIN files :
           /\ files'[f].data = files[f].data
           /\ files'[f].place = IF files[f].place # "writing" THEN files[f].place
                                ELSE IF files[f].data = <<>> THEN "gone" ELSE "ready"
  BY <1>1, RecoverShape DEF SpoolInv
<1>3. \A f : f \in seized' <=> f \in seized \/ (f \in DOMAIN files /\ files[f].place = "writing" /\ Live(f))
  BY <1>1 DEF In
<1>4. SpoolTypeOK'
  <2>1. \A f \in DOMAIN files : f \in 1..MaxFiles
    BY SpoolShapes, SpoolAssumption DEF SpoolInv
  <2>2. seized' \subseteq 1..MaxFiles
    BY <1>3, <2>1 DEF SpoolInv, SpoolTypeOK
  <2>3. forwarder' \in {Down, [phase |-> "list"]} \cup Forwarding
    BY <1>1
  <2>4. Len(files') <= MaxFiles
    BY <1>2, SpoolShapes DEF SpoolInv
  <2> QED BY <1>1, <1>2, <2>2, <2>3, <2>4 DEF SpoolInv, SpoolTypeOK
<1>5. SeizedStays'
  BY <1>2, <1>3 DEF SpoolInv, SeizedStays
<1>6. WritesLast'
  <2>1. CASE capture.phase = "writing"
    <3>1. capture.file \in DOMAIN files /\ capture.file = Len(files) /\ Live(capture.file)
      BY <2>1, SpoolShapes DEF SpoolInv, WritesLast, Live
    <3> QED BY <1>1, <1>2, <1>3, <2>1, <3>1 DEF SpoolInv, WritesLast
  <2>2. CASE capture.phase # "writing"
    BY <1>1, <2>2 DEF WritesLast
  <2> QED BY <2>1, <2>2
<1>7. Cleared'
  BY <1>1, <1>2, <1>3, NoPacketIn DEF SpoolInv, Cleared
<1>8. SendsInOrder'
  BY <1>1 DEF SendsInOrder
<1>9. EvidenceKept'
  <2>1. \A n \in InMemory : PacketKept(n)'
    BY <1>1 DEF InMemory, PacketKept
  <2>2. ASSUME NEW f \in DOMAIN files, Keeping(f), NEW n \in ToSet(files[f].data) PROVE PacketKept(n)'
    <3>1. files[f].data # <<>>
      BY NoPacketIn
    <3>2. files'[f].place \in {"writing", "ready"} \/ f \in seized'
      BY <1>2, <1>3, <2>2, <3>1 DEF Keeping
    <3> QED BY <1>2, <3>2 DEF PacketKept, Holds
  <2> QED BY <1>1, <2>1, <2>2, StillKept
<1> QED BY <1>4, <1>5, <1>6, <1>7, <1>8, <1>9 DEF SpoolInv

LEMMA OpenFileKeeps ==
  ASSUME SpoolInv, OpenFile
  PROVE  SpoolInv'
<1> DEFINE new == [place |-> "writing", data |-> <<>>]
           c == [phase |-> "writing", file |-> Len(files) + 1, buffer |-> <<>>]
<1>1. /\ capture = Stopped /\ Len(files) < MaxFiles
      /\ files' = Append(files, new) /\ capture' = c
      /\ UNCHANGED <<queue, sniffed, missed, forwarder, stored, seized, faults>>
  BY DEF OpenFile
<1>2. new \in File /\ new.place = "writing" /\ new.data = <<>>
  BY DEF File
<1> HIDE DEF new
<1>3. /\ files' \in Seq(File) /\ Len(files') = Len(files) + 1 /\ Len(files) \in Nat
      /\ DOMAIN files' = (DOMAIN files) \cup {Len(files) + 1} /\ Len(files) + 1 \notin DOMAIN files
      /\ files'[Len(files) + 1] = new /\ \A f \in DOMAIN files : files'[f] = files[f]
  BY <1>1, <1>2 DEF SpoolInv, SpoolTypeOK
<1>4. /\ c \in Capturing /\ c.phase = "writing" /\ c.file = Len(files) + 1 /\ c.buffer = <<>>
  BY <1>1, <1>3, SpoolAssumption DEF Capturing
<1> HIDE DEF c
<1>5. SpoolTypeOK'
  BY <1>1, <1>3, <1>4, SpoolAssumption DEF SpoolInv, SpoolTypeOK
<1>6. WritesLast' /\ SeizedStays' /\ Cleared'
  BY <1>1, <1>2, <1>3, <1>4 DEF SpoolInv, WritesLast, SeizedStays, Cleared
<1>7. SendsInOrder'
  <2>1. \A f \in DOMAIN files : Longer(f)
    BY <1>3, SpoolShapes DEF SpoolInv, Longer
  <2> QED BY <1>1, <2>1, SendsInOrderKept
<1>8. EvidenceKept'
  <2>1. \A n \in InMemory : PacketKept(n)'
    BY <1>1, <1>4, SpoolShapes, NoPacketIn DEF InMemory, PacketKept, SpoolInv
  <2>2. ASSUME NEW f \in DOMAIN files, Keeping(f), NEW n \in ToSet(files[f].data) PROVE PacketKept(n)'
    BY <1>1, <1>3, <2>2 DEF PacketKept, Holds, Keeping
  <2> QED BY <1>1, <2>1, <2>2, StillKept
<1> QED BY <1>5, <1>6, <1>7, <1>8 DEF SpoolInv

\* The packets are added to the file capture writes to, by the buffer or at its
\* end; g is what becomes of the file.
Grows(w, more, g) ==
  /\ capture.phase = "writing" /\ w = capture.file /\ more \in Seq(Packets)
  /\ g = [place |-> g.place, data |-> files[w].data \o more]
  /\ g.place \in {"writing", "ready", "archive", "gone"}
  /\ files[w].place # "writing" => g.place = files[w].place
  /\ files[w].place = "writing" => g.place \in {"writing", "ready"}
  /\ files' = [files EXCEPT ![w] = g]
  /\ stored' = stored /\ seized' = seized /\ forwarder' = forwarder

Grown(w, more, g) ==
  /\ files' \in Seq(File) /\ Len(files') = Len(files) /\ DOMAIN files' = DOMAIN files
  /\ files'[w].place = g.place
  /\ SeizedStays' /\ Cleared' /\ SendsInOrder'
  /\ \A n \in ToSet(more) : PacketKept(n)'
  /\ \A f \in DOMAIN files : Keeping(f) => \A n \in ToSet(files[f].data) : PacketKept(n)'

LEMMA WriterGrows ==
  ASSUME SpoolInv, NEW w, NEW more, NEW g, Grows(w, more, g)
  PROVE  Grown(w, more, g)
<1>0. /\ capture.phase = "writing" /\ w = capture.file /\ more \in Seq(Packets)
      /\ g = [place |-> g.place, data |-> files[w].data \o more]
      /\ g.place \in {"writing", "ready", "archive", "gone"}
      /\ files[w].place # "writing" => g.place = files[w].place
      /\ files[w].place = "writing" => g.place \in {"writing", "ready"}
      /\ files' = [files EXCEPT ![w] = g]
      /\ stored' = stored /\ seized' = seized /\ forwarder' = forwarder
  BY DEF Grows
<1>1. /\ w \in DOMAIN files /\ files[w].data \in Seq(Packets) /\ Keeping(w)
      /\ DOMAIN files = 1..Len(files) /\ Len(files) \in Nat
  BY <1>0, SpoolShapes DEF SpoolInv, WritesLast, Keeping
<1> SUFFICES ASSUME NEW old, old = files[w].data,
                    NEW all, all = old \o more
             PROVE  Grown(w, more, g)
  OBVIOUS
<1>2. /\ all \in Seq(Packets) /\ ToSet(all) = ToSet(old) \cup ToSet(more)
      /\ Len(old) <= Len(all) /\ \A i \in 1..Len(old) : all[i] = old[i]
  BY <1>0, <1>1, PacketsJoined
<1>3. g.data = all
  BY <1>0
<1>4. g \in File
  BY <1>0, <1>2, <1>3 DEF File
<1>5. /\ files' \in Seq(File) /\ Len(files') = Len(files) /\ DOMAIN files' = DOMAIN files
      /\ files'[w] = g /\ \A f \in DOMAIN files \ {w} : files'[f] = files[f]
  BY <1>0, <1>1, <1>4, FileReplaced DEF SpoolInv, SpoolTypeOK
<1>7. SeizedStays'
  BY <1>0, <1>5 DEF SpoolInv, SeizedStays
<1>8. Cleared'
  <2>1. w \in seized \/ g.place \in {"writing", "ready"}
    BY <1>0, <1>1 DEF Keeping, SpoolInv, WritesLast
  <2> QED BY <1>0, <1>5, <2>1 DEF SpoolInv, Cleared
<1>9. SendsInOrder'
  <2>1. ASSUME NEW f \in DOMAIN files, files[f].place # "writing" PROVE Longer(f)
    <3>1. CASE f = w
      BY <1>0, <1>2, <1>3, <1>5, <2>1, <3>1 DEF Longer
    <3>2. CASE f # w
      BY <1>5, <2>1, <3>2, SpoolShapes DEF SpoolInv, Longer
    <3> QED BY <3>1, <3>2
  <2> QED BY <1>0, <2>1, SendsInOrderKept
<1>10. files'[w].place \in {"writing", "ready"} \/ w \in seized'
  BY <1>0, <1>1, <1>5 DEF Keeping, SpoolInv, WritesLast
<1>11. ASSUME NEW n \in ToSet(all) PROVE PacketKept(n)'
  BY <1>1, <1>3, <1>5, <1>10 DEF PacketKept, Holds
<1>12. ASSUME NEW f \in DOMAIN files, Keeping(f), NEW n \in ToSet(files[f].data) PROVE PacketKept(n)'
  <2>1. CASE f = w
    BY <1>2, <1>11, <2>1
  <2>2. CASE f # w
    BY <1>0, <1>5, <1>12, <2>2 DEF PacketKept, Holds, Keeping
  <2> QED BY <2>1, <2>2
<1>13. \A n \in ToSet(more) : PacketKept(n)'
  BY <1>2, <1>11
<1> QED BY <1>5, <1>7, <1>8, <1>9, <1>12, <1>13 DEF Grown

\* The packets the writer holds reach the disk.
LEMMA FlushKeeps ==
  ASSUME SpoolInv, Flush
  PROVE  SpoolInv'
<1> SUFFICES ASSUME NEW w, w = capture.file, NEW b, b = capture.buffer,
                    NEW g, g = [files[w] EXCEPT !.data = @ \o b]
             PROVE  SpoolInv'
  OBVIOUS
<1>1. /\ capture.phase = "writing" /\ files' = [files EXCEPT ![w].data = @ \o b]
      /\ capture' = [capture EXCEPT !.buffer = <<>>]
      /\ UNCHANGED <<queue, sniffed, missed, faults>>
      /\ forwarder' = forwarder /\ stored' = stored /\ seized' = seized
  BY DEF Flush
<1>2. b \in Seq(Packets) /\ capture \in Capturing /\ w \in DOMAIN files /\ files[w] \in File
  BY <1>1, SpoolShapes DEF SpoolInv, WritesLast
<1>3. /\ g = [place |-> g.place, data |-> files[w].data \o b] /\ g.place = files[w].place
      /\ g.place \in {"writing", "ready", "archive", "gone"}
      /\ files' = [files EXCEPT ![w] = g]
  BY <1>1, <1>2 DEF File
<1>4. /\ files' \in Seq(File) /\ Len(files') = Len(files) /\ DOMAIN files' = DOMAIN files
      /\ files'[w].place = g.place
      /\ SeizedStays' /\ Cleared' /\ SendsInOrder'
      /\ \A n \in ToSet(b) : PacketKept(n)'
      /\ \A f \in DOMAIN files : Keeping(f) => \A n \in ToSet(files[f].data) : PacketKept(n)'
  <2>1. Grows(w, b, g)
    BY <1>1, <1>2, <1>3 DEF Grows
  <2>2. Grown(w, b, g)
    BY <2>1, WriterGrows
  <2> QED BY <2>2 DEF Grown
<1>5. capture' \in Capturing /\ capture'.phase = "writing" /\ capture'.file = w
  <2> DEFINE none == <<>>
  <2>1. capture' = [capture EXCEPT !.buffer = none] /\ none \in Seq(Packets)
    BY <1>1
  <2> HIDE DEF none
  <2> QED BY <1>2, <2>1 DEF Capturing
<1>6. SpoolTypeOK'
  BY <1>1, <1>4, <1>5 DEF SpoolInv, SpoolTypeOK
<1>7. WritesLast'
  BY <1>1, <1>3, <1>4, <1>5 DEF SpoolInv, WritesLast
<1>8. EvidenceKept'
  <2>1. \A n \in InMemory : PacketKept(n)'
    <3>1. \A n \in ToSet(queue) : PacketKept(n)'
      BY <1>1 DEF PacketKept, InMemory
    <3> QED BY <1>1, <1>4, <3>1 DEF InMemory
  <2> QED BY <1>1, <1>4, <2>1, StillKept
<1> QED BY <1>4, <1>6, <1>7, <1>8 DEF SpoolInv

\* Where the packets of the queue are after the writer is closed.
Placed(last) ==
  /\ missed \subseteq missed' /\ missed' \subseteq Packets
  /\ queue' \in Seq(Packets) /\ Len(queue') <= QueueSize
  /\ ToSet(queue) \subseteq ToSet(last) \cup ToSet(queue') \cup missed'

\* An empty file is deleted with its name, any other one sealed.
LEMMA CloseKeeps ==
  ASSUME SpoolInv, capture.phase = "writing", NEW last \in Seq(Packets), NEW next \in {Stopped, Down},
         Close(last, next), Placed(last),
         UNCHANGED <<sniffed, forwarder, stored, seized, faults>>
  PROVE  SpoolInv'
<1> SUFFICES ASSUME NEW w, w = capture.file, NEW b, b = capture.buffer,
                    NEW old, old = files[w].data, NEW more, more = b \o last,
                    NEW all, all = old \o b \o last,
                    NEW g, g = [place |-> IF files[w].place = "writing" THEN "ready" ELSE files[w].place,
                                data |-> all]
             PROVE  SpoolInv'
  OBVIOUS
<1>1. /\ files' = IF all = <<>> /\ files[w].place = "writing" THEN Front(files)
                  ELSE [files EXCEPT ![w] = g]
      /\ capture' = IF all = <<>> \/ files[w].place = "writing" THEN next ELSE Down
      /\ sniffed' = sniffed /\ faults' = faults
      /\ forwarder' = forwarder /\ stored' = stored /\ seized' = seized
  BY DEF Close
<1>2. /\ b \in Seq(Packets) /\ w \in DOMAIN files /\ files[w] \in File /\ old \in Seq(Packets)
      /\ w = Len(files) /\ Len(files) \in Nat /\ DOMAIN files = 1..Len(files) /\ Len(files) <= MaxFiles
      /\ files \in Seq(File)
  BY SpoolShapes DEF SpoolInv, WritesLast, SpoolTypeOK
<1>3. /\ more \in Seq(Packets) /\ all = old \o more
      /\ ToSet(more) = ToSet(b) \cup ToSet(last) /\ ToSet(all) = ToSet(old) \cup ToSet(more)
  <2>1. more \in Seq(Packets) /\ ToSet(more) = ToSet(b) \cup ToSet(last)
    BY <1>2, PacketsJoined
  <2>2. (old \o b) \o last = old \o (b \o last)
    BY <1>2, PacketsInOrder
  <2>3. ToSet(old \o more) = ToSet(old) \cup ToSet(more)
    BY <1>2, <2>1, PacketsJoined, Zenon
  <2> QED BY <2>1, <2>2, <2>3, Zenon
<1>4. capture' \in {Down, Stopped} /\ capture'.phase # "writing" /\ InMemory' = ToSet(queue')
  BY <1>1 DEF Down, Stopped, InMemory
<1>5. WritesLast'
  BY <1>4 DEF WritesLast
<1>6. ASSUME files' \in Seq(File), Len(files') <= MaxFiles PROVE SpoolTypeOK'
  BY <1>1, <1>4, <1>6 DEF SpoolInv, SpoolTypeOK, Placed
<1>7. ASSUME \A n \in ToSet(more) : PacketKept(n)',
             \A f \in DOMAIN files : Keeping(f) => \A n \in ToSet(files[f].data) : PacketKept(n)'
      PROVE  EvidenceKept'
  <2>1. \A n \in InMemory : PacketKept(n)'
    <3>1. InMemory = ToSet(queue) \cup ToSet(b)
      BY DEF InMemory
    <3>2. \A n \in InMemory : n \in ToSet(more) \/ n \in InMemory' \/ n \in missed'
      BY <1>3, <1>4, <3>1 DEF Placed
    <3> QED BY <1>7, <3>2 DEF PacketKept
  <2> QED BY <1>1, <1>7, <2>1, StillKept DEF Placed
<1>8. CASE all = <<>> /\ files[w].place = "writing"
  <2>1. files' = SubSeq(files, 1, Len(files) - 1)
    BY <1>1, <1>8 DEF Front
  <2>2. /\ files' \in Seq(File) /\ Len(files') = Len(files) - 1
        /\ DOMAIN files' = (DOMAIN files) \ {w} /\ \A f \in DOMAIN files' : files'[f] = files[f]
    BY <1>2, <2>1
  <2>3. w \notin seized
    BY <1>8 DEF SpoolInv, SeizedStays
  <2>4. SeizedStays' /\ Cleared'
    BY <1>1, <2>2, <2>3 DEF SpoolInv, SeizedStays, Cleared
  <2>5. SendsInOrder'
    <3>1. ASSUME NEW f \in DOMAIN files, files[f].place # "writing" PROVE Longer(f)
      BY <1>8, <2>2, <3>1, SpoolShapes DEF SpoolInv, Longer
    <3> QED BY <1>1, <3>1, SendsInOrderKept
  <2>6. EvidenceKept'
    <3>1. ToSet(more) = {} /\ ToSet(files[w].data) = {}
      BY <1>3, <1>8, NoPacketIn
    <3>2. ASSUME NEW f \in DOMAIN files, Keeping(f), NEW n \in ToSet(files[f].data) PROVE PacketKept(n)'
      BY <1>1, <2>2, <3>1, <3>2 DEF PacketKept, Holds, Keeping
    <3> QED BY <1>7, <3>1, <3>2
  <2>7. Len(files') <= MaxFiles
    BY <1>2, <2>2, SpoolAssumption
  <2> QED BY <1>5, <1>6, <2>2, <2>4, <2>5, <2>6, <2>7 DEF SpoolInv
<1>9. CASE ~(all = <<>> /\ files[w].place = "writing")
  <2>1. files' = [files EXCEPT ![w] = g]
    BY <1>1, <1>9
  <2>2. /\ g = [place |-> g.place, data |-> files[w].data \o more]
        /\ g.place = IF files[w].place = "writing" THEN "ready" ELSE files[w].place
    BY <1>3
  <2>3. /\ g.place \in {"writing", "ready", "archive", "gone"}
        /\ files[w].place # "writing" => g.place = files[w].place
        /\ files[w].place = "writing" => g.place \in {"writing", "ready"}
    BY <1>2, <2>2 DEF File
  <2>4. /\ files' \in Seq(File) /\ Len(files') = Len(files)
        /\ SeizedStays' /\ Cleared' /\ SendsInOrder'
        /\ \A n \in ToSet(more) : PacketKept(n)'
        /\ \A f \in DOMAIN files : Keeping(f) => \A n \in ToSet(files[f].data) : PacketKept(n)'
    <3>1. Grows(w, more, g)
      BY <1>1, <1>3, <2>1, <2>2, <2>3 DEF Grows
    <3>2. Grown(w, more, g)
      BY <3>1, WriterGrows
    <3> QED BY <3>2 DEF Grown
  <2> QED BY <1>2, <1>5, <1>6, <1>7, <2>4 DEF SpoolInv
<1> QED BY <1>8, <1>9

LEMMA RotateKeeps ==
  ASSUME SpoolInv, Rotate
  PROVE  SpoolInv'
<1> DEFINE none == <<>>
<1>1. /\ capture.phase = "writing" /\ Close(none, Stopped) /\ none \in Seq(Packets) /\ ToSet(none) = {}
      /\ \/ queue' = none /\ missed' = missed \cup ToSet(queue)
         \/ queue' = queue /\ missed' = missed
      /\ UNCHANGED <<sniffed, forwarder, stored, seized, faults>>
  BY NoPacketIn DEF Rotate
<1>2. Len(none) = 0 /\ Len(none) <= QueueSize /\ ToSet(queue) \subseteq Packets
  BY SpoolAssumption DEF SpoolInv, SpoolTypeOK, ToSet
<1> HIDE DEF none
<1>3. Placed(none)
  BY <1>1, <1>2 DEF Placed, SpoolInv, SpoolTypeOK
<1> QED BY <1>1, <1>3, CloseKeeps

LEMMA InterruptKeeps ==
  ASSUME SpoolInv, Interrupt
  PROVE  SpoolInv'
<1>1. /\ capture.phase = "writing" /\ Close(queue, Down) /\ queue \in Seq(Packets)
      /\ queue' = <<>> /\ missed' = missed
      /\ UNCHANGED <<sniffed, forwarder, stored, seized, faults>>
  BY DEF Interrupt, SpoolInv, SpoolTypeOK
<1>2. Placed(queue)
  BY <1>1, SpoolAssumption DEF Placed, SpoolInv, SpoolTypeOK
<1> QED BY <1>1, <1>2, CloseKeeps

\* Files change their places only, those that are archived or deleted.
LEMMA PlacesChange ==
  ASSUME SpoolInv, files' \in Seq(File), Len(files') = Len(files), DOMAIN files' = DOMAIN files,
         \A f \in DOMAIN files :
           /\ files'[f].data = files[f].data
           /\ \/ files'[f].place = files[f].place
              \/ /\ files[f].place # "writing"
                 /\ files'[f].place \in {"archive", "gone"}
                 /\ f \in seized \/ ToSet(files[f].data) \subseteq stored,
         UNCHANGED <<capture, queue, sniffed, missed, stored, seized, faults>>,
         ForwarderTyped', SendsInOrder'
  PROVE  SpoolInv'
<1>1. SpoolTypeOK'
  BY DEF SpoolInv, SpoolTypeOK, ForwarderTyped
<1>2. WritesLast'
  BY SpoolShapes DEF SpoolInv, WritesLast
<1>3. SeizedStays' /\ Cleared'
  BY DEF SpoolInv, SeizedStays, Cleared
<1>4. EvidenceKept'
  <2>1. \A n \in InMemory : PacketKept(n)'
    BY DEF InMemory, PacketKept
  <2>2. ASSUME NEW f \in DOMAIN files, Keeping(f), NEW n \in ToSet(files[f].data) PROVE PacketKept(n)'
    BY <2>2 DEF PacketKept, Holds, Keeping
  <2> QED BY <2>1, <2>2, StillKept
<1> QED BY <1>1, <1>2, <1>3, <1>4 DEF SpoolInv

LEMMA ArchiveKeeps ==
  ASSUME SpoolInv, Archive
  PROVE  SpoolInv'
<1> SUFFICES ASSUME NEW p, p = Path, NEW z, z = [files[p] EXCEPT !.place = "archive"]
             PROVE  SpoolInv'
  OBVIOUS
<1>1. /\ AtFile /\ ~AtRecord /\ files' = [files EXCEPT ![p].place = "archive"] /\ NextFile
      /\ UNCHANGED <<capture, queue, sniffed, missed, stored, seized, faults>>
      /\ forwarder.phase = "files" /\ forwarder.todo # {}
  BY DEF Archive, AtFile
<1>2. /\ p \in forwarder.todo /\ forwarder.sent \in Nat
      /\ \A f \in forwarder.todo : f \in DOMAIN files /\ files[f].place # "writing"
  BY <1>1, SpoolShapes, LeastIsIn DEF SpoolInv, SendsInOrder, Path
<1>3. files[p] \in File /\ files[p].data \in Seq(Packets) /\ Len(files[p].data) \in Nat
  BY <1>2, SpoolShapes DEF SpoolInv
<1>4. ToSet(files[p].data) \subseteq stored
  <2>1. /\ forwarder.sent <= Len(files[p].data) /\ ~(forwarder.sent < Len(files[p].data))
        /\ \A i \in 1..forwarder.sent : files[p].data[i] \in stored
    BY <1>1 DEF SpoolInv, SendsInOrder, AtRecord
  <2>2. forwarder.sent = Len(files[p].data)
    BY <1>2, <1>3, <2>1
  <2>3. DOMAIN files[p].data = 1..Len(files[p].data)
    BY <1>3
  <2> QED BY <2>1, <2>2, <2>3 DEF ToSet
<1>5. z \in File /\ z.data = files[p].data /\ z.place = "archive"
  BY <1>3 DEF File
<1>6. /\ files' \in Seq(File) /\ Len(files') = Len(files) /\ DOMAIN files' = DOMAIN files
      /\ files'[p] = z /\ \A f \in DOMAIN files \ {p} : files'[f] = files[f]
  <2>1. files' = [files EXCEPT ![p] = z]
    BY <1>1
  <2>2. files \in Seq(File)
    BY DEF SpoolInv, SpoolTypeOK
  <2>3. p \in DOMAIN files
    BY <1>2
  <2> QED BY <1>5, <2>1, <2>2, <2>3, FileReplaced
<1>7. \A f \in forwarder.todo : f \in DOMAIN files' /\ files'[f].place # "writing"
                                /\ files'[f].data \in Seq(Packets)
  BY <1>2, <1>5, <1>6, SpoolShapes DEF SpoolInv
<1>8. ForwarderTyped' /\ SendsInOrder'
  BY <1>1, <1>7, NextIsFresh
<1> QED BY <1>1, <1>2, <1>4, <1>5, <1>6, <1>8, PlacesChange

\* enforce_archive_retention: archived files are deleted.
LEMMA RetainKeeps ==
  ASSUME SpoolInv, Retain
  PROVE  SpoolInv'
<1>1. PICK expired \in SUBSET In("archive") : Delete(expired)
  BY DEF Retain
<1>2. /\ forwarder' = [phase |-> "list"]
      /\ UNCHANGED <<capture, queue, sniffed, missed, stored, seized, faults>>
  BY DEF Retain, PassEnds
<1>3. /\ Len(files) \in Nat /\ DOMAIN files = 1..Len(files)
      /\ \A f \in DOMAIN files : files[f] \in File
  BY SpoolShapes DEF SpoolInv
<1>4. \A f \in expired : f \in DOMAIN files /\ files[f].place = "archive"
  BY DEF In
<1> DEFINE left(f) == IF f \in expired THEN [files[f] EXCEPT !.place = "gone"] ELSE files[f]
<1>5. files' = [f \in 1..Len(files) |-> left(f)]
  BY <1>1, <1>3 DEF Delete
<1>6. ASSUME NEW f \in DOMAIN files
      PROVE  /\ left(f) \in File /\ left(f).data = files[f].data
             /\ left(f).place = IF f \in expired THEN "gone" ELSE files[f].place
  <2> DEFINE z == [files[f] EXCEPT !.place = "gone"]
  <2>1. z \in File /\ z.place = "gone" /\ z.data = files[f].data
    BY <1>3 DEF File
  <2>2. left(f) = IF f \in expired THEN z ELSE files[f]
    OBVIOUS
  <2> HIDE DEF z, left
  <2> QED BY <1>3, <2>1, <2>2
<1> HIDE DEF left
<1>7. /\ files' \in Seq(File) /\ Len(files') = Len(files) /\ DOMAIN files' = DOMAIN files
      /\ \A f \in DOMAIN files : files'[f] = left(f)
  BY <1>3, <1>5, <1>6
<1>8. \A f \in expired : f \in seized \/ ToSet(files[f].data) \subseteq stored
  BY <1>4 DEF SpoolInv, Cleared
<1>9. ForwarderTyped' /\ SendsInOrder'
  BY <1>2 DEF ForwarderTyped, SendsInOrder
<1>10. \A f \in DOMAIN files :
         /\ files'[f].data = files[f].data
         /\ \/ files'[f].place = files[f].place
            \/ /\ files[f].place # "writing"
               /\ files'[f].place \in {"archive", "gone"}
               /\ f \in seized \/ ToSet(files[f].data) \subseteq stored
  BY <1>4, <1>6, <1>7, <1>8
<1> QED BY <1>2, <1>7, <1>9, <1>10, PlacesChange

LEMMA SpoolInductive == SpoolInv /\ [SpoolNext]_spoolVars => SpoolInv'
<1> SUFFICES ASSUME SpoolInv, [SpoolNext]_spoolVars PROVE SpoolInv'
  OBVIOUS
<1>1. CASE UNCHANGED spoolVars
  <2>1. SendsInOrder'
    BY <1>1 DEF SpoolInv, SendsInOrder, Path, spoolVars
  <2>2. EvidenceKept'
    BY <1>1 DEF SpoolInv, EvidenceKept, Holds, InMemory, spoolVars
  <2> QED BY <1>1, <2>1, <2>2 DEF SpoolInv, SpoolTypeOK, WritesLast, SeizedStays, Cleared, spoolVars
<1>2. CASE CaptureStart
  BY <1>2, CaptureStartKeeps
<1>3. CASE Sniff
  BY <1>3, SniffKeeps
<1>4. CASE OpenFile
  BY <1>4, OpenFileKeeps
<1>5. CASE StopAtLimit
  <2>1. Exit /\ UNCHANGED <<files, forwarder, stored, seized, sniffed>> /\ faults' \in 0..MaxFaults
    BY <1>5 DEF StopAtLimit, SpoolInv, SpoolTypeOK
  <2> QED BY <2>1, ExitKeeps
<1>6. CASE Write
  BY <1>6, WriteKeeps
<1>7. CASE Flush
  BY <1>7, FlushKeeps
<1>8. CASE Rotate
  BY <1>8, RotateKeeps
<1>9. CASE Interrupt
  BY <1>9, InterruptKeeps
<1>10. CASE CrashCapture
  <2>1. Exit /\ UNCHANGED <<files, forwarder, stored, seized, sniffed>> /\ faults' \in 0..MaxFaults
    BY <1>10, SpoolAssumption DEF CrashCapture, Fault, SpoolInv, SpoolTypeOK
  <2> QED BY <2>1, ExitKeeps
<1>11. CASE ForwardStart
  BY <1>11, ForwardStartKeeps
<1>12. CASE List
  BY <1>12, ListKeeps
<1>13. CASE PostAccepted \/ PostRefused \/ PostUnanswered
  BY <1>13, PostKeeps
<1>14. CASE Archive
  BY <1>14, ArchiveKeeps
<1>15. CASE Retain
  BY <1>15, RetainKeeps
<1>16. CASE CrashForwarder
  BY <1>16, CrashForwarderKeeps
<1> QED BY <1>1, <1>2, <1>3, <1>4, <1>5, <1>6, <1>7, <1>8, <1>9, <1>10, <1>11, <1>12, <1>13,
           <1>14, <1>15, <1>16, Zenon DEF SpoolNext, Capture, Forward

LEMMA SpoolInvariant == SpoolSpec => []SpoolInv
<1> QED BY SpoolInitially, SpoolInductive, PTL DEF SpoolSpec

\* The state of the spool and of both processes stays of its type.
THEOREM SpoolTypeCorrect == SpoolSpec => []SpoolTypeOK
<1>1. SpoolInv => SpoolTypeOK
  BY DEF SpoolInv
<1> QED BY <1>1, SpoolInvariant, PTL

\* A packet on the wire is missed, in memory, in a file still to be forwarded or
\* stored (capture, forward, recover_abandoned_captures, enforce_archive_retention),
\* whatever crashes; but for files that forward takes from a running capture.
THEOREM NoEvidenceForgotten == SpoolSpec => []EvidenceKept
<1>1. SpoolInv => EvidenceKept
  BY DEF SpoolInv
<1> QED BY <1>1, SpoolInvariant, PTL

-----------------------------------------------------------------------------
\* One piece of a stream, within lo..hi, that could be a frame.
Piece(m, lo, hi) ==
  \E p, q \in Nat : lo <= p /\ p + 2 <= q /\ q <= hi /\ m = Range1(p, q)

\* The messages of f within lo..hi.
Between(f, lo, hi) ==
  {Range1(e + 1, e + Wire[f][e + 2]) :
     e \in {d \in Ends[f] \ {Len(Wire[f])} : lo <= d + 1 /\ d + Wire[f][d + 2] <= hi}}

\* Position p begins the message that goes on after b.
Resumes(f, p, b) == p - 1 \in Ends[f] /\ \A d \in Ends[f] : d < p \/ b < d

\* What is left of a stream up to b, at p or after it.
Remains(rest, p, b) == \E r \in p..(b + 1) : rest = Range1(r, b)

\* What the turns of the loop make of positions p to b.
Cuts(f, p, b, o) ==
  /\ o \in [valid : BOOLEAN, frames : Seq(Seq(Nat)), rest : Seq(Nat)]
  /\ \A m \in ToSet(o.frames) : Piece(m, p, b)
  /\ o.valid => Remains(o.rest, p, b)
  /\ p - 1 \in Ends[f] =>
       /\ o.valid /\ ToSet(o.frames) = Between(f, p, b)
       /\ \E r \in p..(b + 1) : o.rest = Range1(r, b) /\ Resumes(f, r, b)

\* The sequence number after the unfinished frame is that of the segment that it
\* came with, reduced, and its length.
Numbered(f) ==
  \E x \in run[f].from..run[f].to :
    /\ run[f].to - x + 1 <= MaxSegment
    /\ streams[f].sequence + Len(streams[f].buffered)
         = ((Isn[f] + x) % SeqSpace) + (run[f].to - x + 1)

Followed(f) ==
  /\ run[f].from \in 1..(run[f].to + 1) /\ run[f].to \in 0..Len(Wire[f])
  /\ streams[f].sequence \in 0..(SeqSpace + MaxSegment)
  /\ Remains(streams[f].buffered, 1, run[f].to)
  /\ streams[f].buffered # <<>> => Numbered(f)

Complete(f) ==
  run[f].from - 1 \in Ends[f] /\ ~Wraps(f) =>
    /\ {r.frame : r \in decoded[f]} = Between(f, run[f].from, run[f].to)
    /\ \E r \in run[f].from..(run[f].to + 1) :
         streams[f].buffered = Range1(r, run[f].to) /\ Resumes(f, r, run[f].to)

\* OPN with policy None and this channel, on a flow of this file.
Opens(f, i, channel) ==
  /\ i \in 1..(Len(Wire[f]) - 2)
  /\ Wire[f][i] = Open /\ channel = <<Connection[f], Wire[f][i + 2]>>

\* Channels without security were opened in this file.
Announced ==
  /\ \A channel \in none_channels : \E f \in file : \E i \in Nat : Opens(f, i, channel)
  /\ none_channels \subseteq {Connection[f] : f \in Flows} \X Nat

Opaque(f, r) == <<f, Wire[f][r.frame[3]]>> \in Secured => ~r.clear

StreamInv ==
  /\ file \in Files
  /\ streams \in [Flows -> [sequence : Int, buffered : Seq(Nat)]]
  /\ run \in [Flows -> [from : Nat, to : Nat]] /\ decoded = [f \in Flows |-> decoded[f]]
  /\ \A f \in Flows : Followed(f) /\ Complete(f)
  /\ \A f \in Flows : \A r \in decoded[f] :
       r.clear \in BOOLEAN /\ Piece(r.frame, 1, Len(Wire[f]))
  /\ Announced /\ SecuredStaysOpaque

-----------------------------------------------------------------------------
\* The positions from a to b.
LEMMA RangeShape ==
  ASSUME NEW a \in Nat, NEW b \in Int, a <= b + 1
  PROVE  /\ Range1(a, b) \in Seq(Nat) /\ Len(Range1(a, b)) = b - a + 1
         /\ DOMAIN Range1(a, b) = 1..(b - a + 1)
         /\ \A i \in 1..(b - a + 1) : Range1(a, b)[i] = a + i - 1
         /\ Range1(a, b) = <<>> <=> a = b + 1
<1>1. b - a + 1 \in Nat
  OBVIOUS
<1>2. \A i \in 1..(b - a + 1) : a + i - 1 \in Nat
  OBVIOUS
<1>3. Range1(a, b) \in [1..(b - a + 1) -> Nat]
  BY <1>2 DEF Range1
<1>4. Range1(a, b) \in Seq(Nat)
  BY <1>1, <1>3
<1>5. Len(Range1(a, b)) = b - a + 1 /\ DOMAIN Range1(a, b) = 1..(b - a + 1)
  BY <1>1, <1>3, <1>4
<1>6. \A i \in 1..(b - a + 1) : Range1(a, b)[i] = a + i - 1
  BY DEF Range1
<1> QED BY <1>4, <1>5, <1>6, EmptySeq

\* Two sequences with the same positions are the same.
LEMMA SameRange ==
  ASSUME NEW a \in Nat, NEW b \in Int, a <= b + 1, NEW s \in Seq(Nat), Len(s) = b - a + 1,
         \A i \in 1..(b - a + 1) : s[i] = a + i - 1
  PROVE  s = Range1(a, b)
<1>1. Range1(a, b) \in Seq(Nat) /\ Len(Range1(a, b)) = Len(s)
  BY RangeShape
<1>2. \A i \in 1..Len(s) : s[i] = Range1(a, b)[i]
  BY RangeShape
<1> QED BY <1>1, <1>2, SeqEqual

LEMMA RangesJoin ==
  ASSUME NEW a \in Nat, NEW c \in Nat \ {0}, NEW b \in Nat, a <= c, c <= b + 1
  PROVE  Range1(a, c - 1) \o Range1(c, b) = Range1(a, b)
<1> DEFINE s == Range1(a, c - 1)
           t == Range1(c, b)
<1>1. /\ s \in Seq(Nat) /\ Len(s) = c - a
      /\ \A i \in 1..(c - a) : s[i] = a + i - 1
  BY RangeShape
<1>2. /\ t \in Seq(Nat) /\ Len(t) = b - c + 1
      /\ \A i \in 1..(b - c + 1) : t[i] = c + i - 1
  BY RangeShape
<1> HIDE DEF s, t
<1>3. s \o t \in Seq(Nat) /\ Len(s \o t) = b - a + 1
  BY <1>1, <1>2
<1>4. \A i \in 1..(b - a + 1) : (s \o t)[i] = IF i <= c - a THEN s[i] ELSE t[i - (c - a)]
  BY <1>1, <1>2
<1>5. \A i \in 1..(b - a + 1) : (s \o t)[i] = a + i - 1
  BY <1>1, <1>2, <1>4
<1> DEFINE u == s \o t
<1>6. u \in Seq(Nat) /\ Len(u) = b - a + 1 /\ \A i \in 1..(b - a + 1) : u[i] = a + i - 1
  BY <1>3, <1>5
<1> HIDE DEF u
<1>7. u = Range1(a, b)
  BY <1>6, SameRange
<1> QED BY <1>7 DEF s, t, u

LEMMA RangeEnd ==
  ASSUME NEW a \in Nat \ {0}, NEW b \in Nat, a <= b + 1, NEW i \in 0..(b - a + 1),
         NEW data, data = Range1(a, b), NEW p, p = a + i
  PROVE  SubSeq(data, i + 1, b - a + 1) = Range1(p, b)
<1> DEFINE u == SubSeq(data, i + 1, b - a + 1)
<1>1. data \in Seq(Nat) /\ Len(data) = b - a + 1 /\ \A x \in 1..(b - a + 1) : data[x] = a + x - 1
  <2>1. a \in Nat /\ b \in Int /\ a <= b + 1
    OBVIOUS
  <2> QED BY <2>1, RangeShape, Zenon
<1>2. u \in Seq(Nat) /\ Len(u) = b - p + 1
  BY <1>1
<1>3. \A x \in 1..(b - p + 1) : u[x] = p + x - 1
  BY <1>1
<1>4. p \in Nat /\ b \in Int /\ p <= b + 1
  OBVIOUS
<1> HIDE DEF u
<1>5. u = Range1(p, b)
  BY <1>2, <1>3, <1>4, SameRange
<1> QED BY <1>5 DEF u

LEMMA RangeHead ==
  ASSUME NEW a \in Nat \ {0}, NEW b \in Nat, a <= b + 1, NEW i \in 0..(b - a + 1),
         NEW size \in Nat, size <= b - a + 1 - i
  PROVE  SubSeq(Range1(a, b), i + 1, i + size) = Range1(a + i, a + i + size - 1)
<1> DEFINE data == Range1(a, b)
           u == SubSeq(data, i + 1, i + size)
           p == a + i
           d == a + i + size - 1
<1>1. data \in Seq(Nat) /\ Len(data) = b - a + 1 /\ \A x \in 1..(b - a + 1) : data[x] = a + x - 1
  <2>1. a \in Nat /\ b \in Int /\ a <= b + 1
    OBVIOUS
  <2> QED BY <2>1, RangeShape, Zenon
<1> HIDE DEF data
<1>2. u \in Seq(Nat) /\ Len(u) = d - p + 1
  BY <1>1
<1>3. \A x \in 1..(d - p + 1) : u[x] = p + x - 1
  BY <1>1
<1>4. p \in Nat /\ d \in Int /\ p <= d + 1
  OBVIOUS
<1> HIDE DEF u, p, d
<1>5. u = Range1(p, d)
  BY <1>2, <1>3, <1>4, SameRange
<1> QED BY <1>5 DEF u, data, p, d

\* What holds of a number when it holds of the ones after it holds of all.
LEMMA Downward ==
  ASSUME NEW n \in Nat, NEW S, \A i \in 0..n : (\A j \in (i + 1)..n : j \in S) => i \in S
  PROVE  \A i \in 0..n : i \in S
<1> DEFINE T == {k \in Nat : k <= n /\ n - k \notin S}
<1>1. SUFFICES T = {}
  <2>1. ASSUME NEW i \in 0..n, i \notin S PROVE n - i \in T
    BY <2>1
  <2> QED BY <2>1
<1>2. SUFFICES ASSUME T # {} PROVE FALSE
  OBVIOUS
<1>3. T \in SUBSET Nat
  OBVIOUS
<1>4. PICK x \in T : \A y \in T : x <= y
  BY <1>2, <1>3, LeastOf
<1>5. ASSUME NEW j \in (n - x + 1)..n PROVE j \in S
  <2>1. n - j \in Nat /\ n - j < x /\ n - (n - j) = j
    BY <1>5
  <2>2. n - j \notin T
    BY <1>4, <2>1
  <2> QED BY <2>1, <2>2
<1>6. n - x \in 0..n /\ n - x \notin S
  OBVIOUS
<1> QED BY <1>5, <1>6
-----------------------------------------------------------------------------
LEMMA SizesAreNumbers == \A size \in Sizes : size \in Nat /\ size >= 3
BY ReassemblyAssumption DEF Sizes

\* A turn depends only on the turns after it.
LEMMA TurnAgrees ==
  ASSUME NEW f \in Flows, NEW data \in Seq(Nat), NEW i \in 0..Len(data), NEW c, NEW d,
         \A j \in (i + 1)..Len(data) : c[j] = d[j]
  PROVE  Turn(f, data, c, i) = Turn(f, data, d, i)
<1> DEFINE size == Wire[f][data[i + 2]]
<1>1. CASE size \in Sizes /\ Len(data) - i >= size
  <2>1. i + size \in (i + 1)..Len(data)
    <3> HIDE DEF size
    <3> QED BY <1>1, SizesAreNumbers
  <2>2. c[i + size] = d[i + size]
    BY <2>1
  <2> QED BY <2>2 DEF Turn
<1>2. CASE ~(size \in Sizes /\ Len(data) - i >= size)
  <2>1. CASE size \in Sizes
    <3>1. Len(data) - i < size
      <4> HIDE DEF size
      <4> QED BY <1>2, <2>1, SizesAreNumbers
    <3> QED BY <3>1 DEF Turn
  <2>2. CASE size \notin Sizes /\ Len(data) - i >= 2
    BY <2>2 DEF Turn
  <2>3. CASE ~(Len(data) - i >= 2)
    <3>1. Len(data) - i < 2
      BY <2>3
    <3> QED BY <2>3, <3>1 DEF Turn
  <2> QED BY <2>1, <2>2, <2>3
<1> QED BY <1>1, <1>2

\* The turns from i on exist, and so do those from the first.
LEMMA TurnsExist ==
  ASSUME NEW f \in Flows, NEW data \in Seq(Nat), NEW n, n = Len(data)
  PROVE  \E c : c = [i \in 0..n |-> Turn(f, data, c, i)]
<1> DEFINE S == {k \in 0..n : \E c : c = [i \in k..n |-> Turn(f, data, c, i)]}
<1>1. n \in Nat
  OBVIOUS
<1>2. ASSUME NEW k \in 0..n, \A j \in (k + 1)..n : j \in S PROVE k \in S
  <2>1. \E c : \A i \in (k + 1)..n : c[i] = Turn(f, data, c, i)
    <3>1. CASE k = n
      <4>1. \A i \in (k + 1)..n : FALSE
        BY <3>1, <1>1
      <4> QED BY <4>1
    <3>2. CASE k # n
      <4>1. k + 1 \in S
        BY <1>1, <1>2, <3>2
      <4>2. PICK c : c = [i \in (k + 1)..n |-> Turn(f, data, c, i)]
        BY <4>1
      <4>3. \A i \in (k + 1)..n : c[i] = Turn(f, data, c, i)
        BY <4>2
      <4> QED BY <4>3
    <3> QED BY <3>1, <3>2
  <2>2. PICK c : \A i \in (k + 1)..n : c[i] = Turn(f, data, c, i)
    BY <2>1
  <2> DEFINE d == [i \in k..n |-> IF i = k THEN Turn(f, data, c, k) ELSE c[i]]
  <2>3. d[k] = Turn(f, data, c, k) /\ \A i \in (k + 1)..n : d[i] = c[i]
    BY <1>1
  <2> HIDE DEF d
  <2>4. ASSUME NEW i \in k..n PROVE d[i] = Turn(f, data, d, i)
    <3>1. i \in 0..Len(data) /\ \A j \in (i + 1)..Len(data) : c[j] = d[j]
      BY <1>1, <2>3
    <3>2. Turn(f, data, c, i) = Turn(f, data, d, i)
      BY <3>1, TurnAgrees
    <3>3. d[i] = Turn(f, data, c, i)
      BY <1>1, <2>2, <2>3
    <3> QED BY <3>2, <3>3
  <2>5. d = [i \in k..n |-> d[i]]
    BY DEF d
  <2>6. d = [i \in k..n |-> Turn(f, data, d, i)]
    BY <2>4, <2>5, Zenon
  <2> QED BY <2>6
<1> HIDE DEF S
<1>3. \A i \in 0..n : (\A j \in (i + 1)..n : j \in S) => i \in S
  BY <1>2
<1>4. \A i \in 0..n : i \in S
  BY <1>1, <1>3, Downward
<1>5. 0 \in S
  BY <1>1, <1>4
<1> QED BY <1>5 DEF S

\* The recursive function of Split meets its equation.
LEMMA SplitTurns ==
  ASSUME NEW f \in Flows, NEW data \in Seq(Nat), NEW n, n = Len(data)
  PROVE  \E c : /\ \A i \in 0..n : c[i] = Turn(f, data, c, i)
               /\ Split(f, data) = c[0]
<1>1. PICK d : d = [i \in 0..n |-> Turn(f, data, d, i)]
  BY TurnsExist
<1>2. \E c : c = [i \in 0..n |-> Turn(f, data, c, i)] /\ Split(f, data) = c[0]
  BY <1>1 DEF Split
<1>3. PICK c : c = [i \in 0..n |-> Turn(f, data, c, i)] /\ Split(f, data) = c[0]
  BY <1>2
<1>4. \A i \in 0..n : c[i] = Turn(f, data, c, i)
  BY <1>3
<1> QED BY <1>3, <1>4
-----------------------------------------------------------------------------
\* A message of f ends where the next one begins, or where the stream does.
LEMMA MessageShape ==
  ASSUME NEW f \in Flows, NEW e \in Ends[f], NEW l, l = Len(Wire[f])
  PROVE  /\ l \in Nat /\ e \in 0..l
         /\ e # l =>
              /\ Wire[f][e + 1] \in Kinds /\ Wire[f][e + 2] \in Sizes
              /\ Wire[f][e + 2] \in Nat /\ Wire[f][e + 2] >= 3
              /\ e + Wire[f][e + 2] \in Ends[f] /\ e + Wire[f][e + 2] \in Nat
              /\ \A d \in Ends[f] : d <= e \/ d >= e + Wire[f][e + 2]
<1>1. /\ Wire[f] \in Seq(Nat) /\ Ends[f] \subseteq 0..Len(Wire[f])
      /\ \A x \in Ends[f] \ {Len(Wire[f])} :
           /\ Wire[f][x + 1] \in Kinds /\ Wire[f][x + 2] \in Sizes
           /\ x + Wire[f][x + 2] \in Ends[f]
           /\ \A d \in Ends[f] : d <= x \/ d >= x + Wire[f][x + 2]
  BY ReassemblyAssumption
<1>2. l \in Nat /\ e \in 0..l
  BY <1>1
<1>3. ASSUME e # l
      PROVE  /\ Wire[f][e + 1] \in Kinds /\ Wire[f][e + 2] \in Sizes
             /\ e + Wire[f][e + 2] \in Ends[f]
             /\ \A d \in Ends[f] : d <= e \/ d >= e + Wire[f][e + 2]
  BY <1>1, <1>3
<1>4. e # l => Wire[f][e + 2] \in Nat /\ Wire[f][e + 2] >= 3
  BY <1>3, SizesAreNumbers
<1>5. e # l => e + Wire[f][e + 2] \in Nat
  BY <1>2, <1>4
<1> QED BY <1>2, <1>3, <1>4, <1>5

\* What the turn at position p gives, with the turns after the frame there.
TurnGives(f, p, b, size, after, t) ==
  \/ t = Broken /\ p < b /\ (Wire[f][p] \notin Kinds \/ size \notin Sizes)
  \/ /\ t = [valid |-> TRUE, frames |-> <<>>, rest |-> Range1(p, b)]
     /\ p < b => size \in Sizes /\ b - p + 1 < size
  \/ p < b /\ size \in Sizes /\ size <= b - p + 1 /\ ~after.valid /\ t = Broken
  \/ /\ p < b /\ size \in Sizes /\ size <= b - p + 1 /\ after.valid
     /\ t = [after EXCEPT !.frames = <<Range1(p, p + size - 1)>> \o @]

\* The turns, by position: p is the next to be consumed.
LEMMA TurnCases ==
  ASSUME NEW f \in Flows, NEW a \in Nat \ {0}, NEW b \in Nat, a <= b + 1,
         NEW data, data = Range1(a, b), NEW i \in 0..(b - a + 1), NEW p, p = a + i,
         NEW c, NEW t, t = Turn(f, data, c, i)
  PROVE  TurnGives(f, p, b, Wire[f][p + 1], c[i + Wire[f][p + 1]], t)
<1> DEFINE n == b - a + 1
           left == n - i
           kind == Wire[f][data[i + 1]]
           size == Wire[f][data[i + 2]]
           frame == SubSeq(data, i + 1, i + size)
           tail == SubSeq(data, i + 1, n)
<1>1. n \in Nat /\ Len(data) = n /\ left \in Nat /\ left = b - p + 1
      /\ \A k \in 1..n : data[k] = a + k - 1
  <2>1. n \in Nat /\ left \in Nat /\ left = b - p + 1
    OBVIOUS
  <2>2. Len(data) = b - a + 1 /\ \A k \in 1..(b - a + 1) : data[k] = a + k - 1
    <3>1. a \in Nat /\ b \in Int /\ a <= b + 1
      OBVIOUS
    <3> QED BY <3>1, RangeShape, Zenon
  <2> QED BY <2>1, <2>2
<1>2. left >= 2 => data[i + 1] = p /\ data[i + 2] = p + 1
  BY <1>1
<1>3. left >= 2 => kind = Wire[f][p] /\ size = Wire[f][p + 1]
  BY <1>2
<1>4. tail = Range1(p, b)
  BY RangeEnd, Zenon
<1>5. ASSUME left >= size, size \in Sizes PROVE frame = Range1(p, p + size - 1)
  <2> HIDE DEF size
  <2>1. size \in Nat /\ size <= b - a + 1 - i
    BY <1>1, <1>5, SizesAreNumbers
  <2>2. SubSeq(Range1(a, b), i + 1, i + size) = Range1(a + i, a + i + size - 1)
    BY <2>1, RangeHead, Zenon
  <2> QED BY <2>2
<1>6. t = IF left >= 2 /\ (kind \notin Kinds \/ size \notin Sizes) THEN Broken
          ELSE IF left < 2 \/ left < size
          THEN [valid |-> TRUE, frames |-> <<>>, rest |-> tail]
          ELSE IF ~c[i + size].valid THEN Broken
          ELSE [c[i + size] EXCEPT !.frames = <<frame>> \o @]
  <2>1. Len(data) = n
    BY <1>1
  <2> HIDE DEF n
  <2> QED BY <2>1, Zenon DEF Turn
<1> DEFINE goal == TurnGives(f, p, b, Wire[f][p + 1], c[i + Wire[f][p + 1]], t)
<1> HIDE DEF n, kind, size, frame, tail
<1>7. ASSUME left < 2 PROVE goal
  <2>1. t = [valid |-> TRUE, frames |-> <<>>, rest |-> tail] /\ ~(p < b)
    BY <1>1, <1>6, <1>7
  <2> QED BY <2>1, <1>4 DEF TurnGives
<1>8. ASSUME left >= 2 PROVE goal
  <2>1. p < b /\ kind = Wire[f][p] /\ size = Wire[f][p + 1]
    BY <1>1, <1>3, <1>8
  <2>2. CASE kind \notin Kinds \/ size \notin Sizes
    BY <2>1, <2>2, <1>6, <1>8 DEF TurnGives
  <2>3. CASE kind \in Kinds /\ size \in Sizes
    <3>1. size \in Nat
      BY <2>3, SizesAreNumbers
    <3>2. CASE left < size
      <4>1. t = [valid |-> TRUE, frames |-> <<>>, rest |-> tail]
        BY <3>2, <2>3, <1>6, <1>8
      <4> QED BY <4>1, <3>2, <2>1, <2>3, <1>1, <1>4 DEF TurnGives
    <3>3. CASE left >= size
      <4>1. ~(left < size) /\ ~(left < 2)
        BY <3>1, <3>3, <1>1, <1>8
      <4>2. t = IF ~c[i + size].valid THEN Broken
                ELSE [c[i + size] EXCEPT !.frames = <<frame>> \o @]
        BY <4>1, <2>3, <1>6, <1>8
      <4>3. frame = Range1(p, p + size - 1) /\ size <= b - p + 1
        BY <3>3, <2>3, <1>1, <1>5
      <4> QED BY <4>2, <4>3, <2>1, <2>3 DEF TurnGives
    <3> QED BY <3>1, <3>2, <3>3, <1>1
  <2> QED BY <2>2, <2>3
<1> QED BY <1>1, <1>7, <1>8
-----------------------------------------------------------------------------
\* The messages from p on are the first one and those after it.
LEMMA BetweenFirst ==
  ASSUME NEW f \in Flows, NEW p \in Nat, NEW b \in 0..Len(Wire[f]), p < b, p - 1 \in Ends[f],
         NEW size, size = Wire[f][p + 1], size <= b - p + 1
  PROVE  /\ p + size - 1 \in Ends[f] /\ size \in Nat /\ size >= 3
         /\ Between(f, p, b) = {Range1(p, p + size - 1)} \cup Between(f, p + size, b)
<1> DEFINE l == Len(Wire[f])
           e == p - 1
<1>1. l \in Nat
  BY MessageShape
<1>2. e \in 0..l /\ e # l /\ e + 1 = p /\ e + 2 = p + 1
  BY <1>1, MessageShape
<1>3. /\ size \in Nat /\ size >= 3 /\ e + size \in Ends[f]
      /\ \A d \in Ends[f] : d <= e \/ d >= e + size
  BY <1>2, MessageShape
<1>4. e + size = p + size - 1 /\ p + size - 1 = e + size
  <2>1. size \in Nat
    BY <1>3
  <2> QED BY <2>1, SMTT(30)
<1>5. ASSUME NEW d \in Ends[f] \ {l}
      PROVE  /\ d \in Nat /\ Wire[f][d + 2] \in Nat /\ Wire[f][d + 2] >= 3
             /\ d + 1 >= p <=> d = e \/ d + 1 >= p + size
  <2>1. d \in 0..l /\ Wire[f][d + 2] \in Nat /\ Wire[f][d + 2] >= 3
    BY MessageShape
  <2>2. d <= e \/ d >= e + size
    BY <1>3
  <2>3. l \in Nat /\ e \in Int /\ e + 1 = p /\ size \in Nat /\ d \in Int
    BY <2>1, <1>1, <1>2, <1>3
  <2>4. d + 1 >= p <=> d = e \/ d + 1 >= p + size
    BY <2>2, <2>3
  <2> QED BY <2>1, <2>4
<1>6. ASSUME NEW m \in Between(f, p, b) PROVE m \in {Range1(p, p + size - 1)} \cup Between(f, p + size, b)
  <2>1. PICK d \in Ends[f] \ {l} :
          /\ p <= d + 1 /\ d + Wire[f][d + 2] <= b /\ m = Range1(d + 1, d + Wire[f][d + 2])
    BY DEF Between
  <2>2. CASE d = e
    <3>1. d + 1 = p /\ d + 2 = p + 1
      BY <2>2, <1>2
    <3>2. d + Wire[f][d + 2] = p + size - 1
      BY <2>2, <3>1, <1>4
    <3> QED BY <2>1, <3>1, <3>2
  <2>3. CASE d # e
    <3>1. p + size <= d + 1
      BY <2>1, <2>3, <1>3, <1>5
    <3> QED BY <2>1, <3>1 DEF Between
  <2> QED BY <2>2, <2>3
<1>7. ASSUME NEW m \in Between(f, p + size, b) PROVE m \in Between(f, p, b)
  <2>1. PICK d \in Ends[f] \ {l} :
          /\ p + size <= d + 1 /\ d + Wire[f][d + 2] <= b /\ m = Range1(d + 1, d + Wire[f][d + 2])
    BY DEF Between
  <2>2. p <= d + 1
    BY <2>1, <1>3, <1>5
  <2> QED BY <2>1, <2>2 DEF Between
<1>8. Range1(p, p + size - 1) \in Between(f, p, b)
  <2>1. e \in Ends[f] \ {l} /\ e + 1 = p /\ Wire[f][e + 2] = size
    BY <1>2
  <2>2. p <= e + 1 /\ e + size <= b
    BY <2>1, <1>3
  <2>3. Range1(e + 1, e + Wire[f][e + 2]) \in Between(f, p, b)
    BY <2>1, <2>2 DEF Between
  <2> QED BY <2>1, <2>3, <1>4
<1> QED BY <1>3, <1>4, <1>6, <1>7, <1>8

\* No message ends in p to b when what is there is shorter than the first one.
LEMMA BetweenNone ==
  ASSUME NEW f \in Flows, NEW p \in Nat \ {0}, NEW b \in 0..Len(Wire[f]), p - 1 \in Ends[f],
         p < b => Wire[f][p + 1] \in Sizes /\ b - p + 1 < Wire[f][p + 1]
  PROVE  Between(f, p, b) = {} /\ Resumes(f, p, b)
<1> DEFINE l == Len(Wire[f])
           e == p - 1
<1>1. l \in Nat /\ e \in 0..l /\ e + 1 = p /\ e + 2 = p + 1
  BY MessageShape
<1>2. ASSUME NEW d \in Ends[f] PROVE d < p \/ b < d
  <2>1. CASE e = l
    <3>1. d \in 0..l
      BY MessageShape
    <3> QED BY <2>1, <3>1, <1>1
  <2>2. CASE e # l
    <3> DEFINE size == Wire[f][p + 1]
    <3>1. size \in Nat /\ size >= 3 /\ (d <= e \/ d >= e + size) /\ d \in Nat
      BY <2>2, <1>1, MessageShape, SMTT(30)
    <3> HIDE DEF size
    <3>2. p < b => b - p + 1 < size
      BY DEF size
    <3> QED BY <3>1, <3>2, <1>1
  <2> QED BY <2>1, <2>2
<1>3. ASSUME NEW m \in Between(f, p, b) PROVE FALSE
  <2>1. PICK d \in Ends[f] \ {l} : p <= d + 1 /\ d + Wire[f][d + 2] <= b
    BY <1>3 DEF Between
  <2> DEFINE size == Wire[f][d + 2]
  <2>2. d \in Nat /\ size \in Nat /\ size >= 3 /\ d + size \in Ends[f]
    BY MessageShape
  <2>3. d + size < p \/ b < d + size
    BY <2>2, <1>2
  <2> QED BY <2>1, <2>2, <2>3, SMTT(30)
<1> QED BY <1>2, <1>3 DEF Resumes
-----------------------------------------------------------------------------
LEMMA OneBefore ==
  ASSUME NEW S, NEW m \in S, NEW s \in Seq(S)
  PROVE  <<m>> \o s \in Seq(S) /\ ToSet(<<m>> \o s) = {m} \cup ToSet(s)
<1> DEFINE t == <<m>> \o s
<1>1. t \in Seq(S) /\ Len(t) = Len(s) + 1 /\ Len(s) \in Nat
  OBVIOUS
<1>2. t[1] = m /\ \A i \in 1..Len(s) : t[i + 1] = s[i]
  OBVIOUS
<1> HIDE DEF t
<1>3. \A i \in 1..Len(t) : i = 1 \/ (i - 1 \in 1..Len(s) /\ t[i] = s[i - 1])
  BY <1>1, <1>2
<1>4. \A i \in 1..Len(s) : i + 1 \in 1..Len(t)
  BY <1>1
<1>5. DOMAIN t = 1..Len(t) /\ DOMAIN s = 1..Len(s) /\ 1 \in 1..Len(t)
  BY <1>1
<1>6. ToSet(t) \subseteq {m} \cup ToSet(s)
  BY <1>2, <1>3, <1>5 DEF ToSet
<1>7. {m} \cup ToSet(s) \subseteq ToSet(t)
  BY <1>2, <1>4, <1>5 DEF ToSet
<1> QED BY <1>1, <1>6, <1>7 DEF t

LEMMA BrokenShape ==
  /\ Broken \in [valid : BOOLEAN, frames : Seq(Seq(Nat)), rest : Seq(Nat)]
  /\ ~Broken.valid /\ ToSet(Broken.frames) = {}
BY DEF Broken, ToSet

\* If the turns after it do so, the turn at p makes of the positions from p on
\* what Cuts says.
LEMMA TurnCuts ==
  ASSUME NEW f \in Flows, NEW a \in Nat \ {0}, NEW b \in 0..Len(Wire[f]), a <= b + 1,
         NEW data, data = Range1(a, b), NEW i \in 0..(b - a + 1), NEW p, p = a + i,
         NEW c, \A j \in (i + 1)..(b - a + 1) : Cuts(f, a + j, b, c[j]),
         NEW t, t = Turn(f, data, c, i)
  PROVE  Cuts(f, p, b, t)
<1> DEFINE size == Wire[f][p + 1]
           after == c[i + size]
           frame == Range1(p, p + size - 1)
<1>1. p \in Nat \ {0} /\ p <= b + 1 /\ b \in Nat /\ p - 1 \in Int
  OBVIOUS
<1>2. ASSUME t = Broken, p < b, Wire[f][p] \notin Kinds \/ size \notin Sizes
      PROVE  Cuts(f, p, b, t)
  <2>1. ASSUME p - 1 \in Ends[f] PROVE FALSE
    <3>1. p - 1 # Len(Wire[f]) /\ (p - 1) + 1 = p /\ (p - 1) + 2 = p + 1
      BY <1>1, <1>2, MessageShape
    <3>2. Wire[f][p] \in Kinds /\ size \in Sizes
      BY <2>1, <3>1, MessageShape
    <3> QED BY <1>2, <3>2
  <2> QED BY <1>2, <2>1, BrokenShape DEF Cuts
<1>3. ASSUME t = [valid |-> TRUE, frames |-> <<>>, rest |-> Range1(p, b)],
             p < b => size \in Sizes /\ b - p + 1 < size
      PROVE  Cuts(f, p, b, t)
  <2>1. Range1(p, b) \in Seq(Nat)
    BY <1>1, RangeShape
  <2>2. t \in [valid : BOOLEAN, frames : Seq(Seq(Nat)), rest : Seq(Nat)]
    BY <1>3, <2>1
  <2>3. t.valid /\ t.rest = Range1(p, b) /\ ToSet(t.frames) = {}
    BY <1>3 DEF ToSet
  <2>4. p \in p..(b + 1)
    BY <1>1
  <2>5. p - 1 \in Ends[f] => Between(f, p, b) = {} /\ Resumes(f, p, b)
    BY <1>1, <1>3, BetweenNone
  <2> QED BY <2>2, <2>3, <2>4, <2>5 DEF Cuts, Remains
<1>4. ASSUME p < b, size \in Sizes, size <= b - p + 1
      PROVE  /\ size \in Nat /\ size >= 3 /\ Cuts(f, p + size, b, after)
             /\ p - 1 \in Ends[f] =>
                  /\ p + size - 1 \in Ends[f]
                  /\ Between(f, p, b) = {frame} \cup Between(f, p + size, b)
  <2>1. size \in Nat /\ size >= 3
    BY <1>4, SizesAreNumbers
  <2>2. i + size \in (i + 1)..(b - a + 1) /\ a + (i + size) = p + size
    <3> HIDE DEF size
    <3> QED BY <2>1, <1>4
  <2>3. Cuts(f, p + size, b, after)
    BY <2>2
  <2>4. ASSUME p - 1 \in Ends[f]
        PROVE  /\ p + size - 1 \in Ends[f]
               /\ Between(f, p, b) = {frame} \cup Between(f, p + size, b)
    BY <1>1, <1>4, <2>4, BetweenFirst
  <2> QED BY <2>1, <2>3, <2>4
<1>5. ASSUME p < b, size \in Sizes, size <= b - p + 1, ~after.valid, t = Broken
      PROVE  Cuts(f, p, b, t)
  <2>1. ASSUME p - 1 \in Ends[f] PROVE FALSE
    <3>1. (p + size) - 1 \in Ends[f]
      BY <1>4, <1>5, <2>1, SMTT(30)
    <3> HIDE DEF size, after
    <3> QED BY <1>4, <1>5, <3>1 DEF Cuts
  <2> QED BY <1>5, <2>1, BrokenShape DEF Cuts
<1>6. ASSUME p < b, size \in Sizes, size <= b - p + 1, after.valid,
             t = [after EXCEPT !.frames = <<frame>> \o @]
      PROVE  Cuts(f, p, b, t)
  <2>1. /\ size \in Nat /\ size >= 3 /\ Cuts(f, p + size, b, after)
        /\ p - 1 \in Ends[f] =>
             /\ (p + size) - 1 \in Ends[f]
             /\ Between(f, p, b) = {frame} \cup Between(f, p + size, b)
    BY <1>4, <1>6, SMTT(30)
  <2> HIDE DEF size, after
  <2>2. frame \in Seq(Nat)
    <3>1. p \in Nat /\ p + size - 1 \in Int /\ p <= (p + size - 1) + 1
      BY <1>1, <2>1, SMTT(30)
    <3> QED BY <3>1, RangeShape, Zenon
  <2>3. Piece(frame, p, b)
    <3>1. p \in Nat /\ p + size - 1 \in Nat /\ p + 2 <= p + size - 1 /\ p + size - 1 <= b /\ p <= p
      <4>1. size \in Nat /\ size >= 3 /\ size <= b - p + 1
        BY <1>6, <2>1
      <4> QED BY <4>1, <1>1
    <3> QED BY <3>1 DEF Piece
  <2> HIDE DEF frame
  <2> DEFINE old == after.frames
             new == <<frame>> \o old
  <2>4. after \in [valid : BOOLEAN, frames : Seq(Seq(Nat)), rest : Seq(Nat)]
    BY <2>1 DEF Cuts
  <2>5. new \in Seq(Seq(Nat)) /\ ToSet(new) = {frame} \cup ToSet(old)
    BY <2>2, <2>4, OneBefore
  <2> HIDE DEF new
  <2>6. t = [after EXCEPT !.frames = new]
    BY <1>6 DEF new
  <2>7. /\ t \in [valid : BOOLEAN, frames : Seq(Seq(Nat)), rest : Seq(Nat)]
        /\ t.valid /\ t.frames = new /\ t.rest = after.rest
    BY <1>6, <2>4, <2>5, <2>6
  <2>8. \A m \in ToSet(old) : Piece(m, p, b)
    <3>1. \A m \in ToSet(old) : Piece(m, p + size, b)
      BY <2>1 DEF Cuts
    <3>2. \A x \in Nat : p + size <= x => p <= x
      BY <1>1, <2>1
    <3> QED BY <3>1, <3>2 DEF Piece
  <2>9. (p + size)..(b + 1) \subseteq p..(b + 1)
    BY <1>1, <2>1
  <2>10. Remains(t.rest, p, b)
    BY <1>6, <2>1, <2>7, <2>9 DEF Cuts, Remains
  <2>11. p - 1 \in Ends[f] =>
           /\ ToSet(t.frames) = Between(f, p, b)
           /\ \E r \in p..(b + 1) : t.rest = Range1(r, b) /\ Resumes(f, r, b)
    BY <2>1, <2>5, <2>7, <2>9 DEF Cuts
  <2> QED BY <2>3, <2>5, <2>7, <2>8, <2>10, <2>11 DEF Cuts
<1>7. TurnGives(f, p, b, size, after, t)
  BY <1>1, TurnCases
<1> HIDE DEF size, after
<1> QED BY <1>2, <1>3, <1>5, <1>6, <1>7 DEF TurnGives

\* Split gives what Cuts says of the whole of its data.
LEMMA SplitCuts ==
  ASSUME NEW f \in Flows, NEW a \in Nat \ {0}, NEW b \in 0..Len(Wire[f]), a <= b + 1,
         NEW data, data = Range1(a, b)
  PROVE  Cuts(f, a, b, Split(f, data))
<1> DEFINE n == b - a + 1
<1>1. n \in Nat /\ data \in Seq(Nat) /\ n = Len(data)
  <2>1. a \in Nat /\ b \in Int /\ a <= b + 1 /\ n \in Nat
    OBVIOUS
  <2>2. data \in Seq(Nat) /\ Len(data) = b - a + 1
    BY <2>1, RangeShape, Zenon
  <2> QED BY <2>1, <2>2
<1>2. PICK c : /\ \A i \in 0..n : c[i] = Turn(f, data, c, i)
               /\ Split(f, data) = c[0]
  BY <1>1, SplitTurns
<1> DEFINE S == {i \in 0..n : Cuts(f, a + i, b, c[i])}
<1>3. ASSUME NEW i \in 0..n, \A j \in (i + 1)..n : j \in S PROVE i \in S
  <2>1. \A j \in (i + 1)..n : Cuts(f, a + j, b, c[j])
    BY <1>3
  <2>2. c[i] = Turn(f, data, c, i)
    BY <1>2
  <2>3. Cuts(f, a + i, b, c[i])
    BY <2>1, <2>2, TurnCuts
  <2> QED BY <2>3
<1> HIDE DEF S
<1>4. \A i \in 0..n : i \in S
  BY <1>1, <1>3, Downward
<1>5. 0 \in S /\ a + 0 = a
  BY <1>1, <1>4
<1> QED BY <1>2, <1>5 DEF S
-----------------------------------------------------------------------------
LEMMA FlowShape ==
  ASSUME NEW f \in Flows
  PROVE  /\ Wire[f] \in Seq(Nat) /\ Len(Wire[f]) \in Nat /\ DOMAIN Wire[f] = 1..Len(Wire[f])
         /\ Len(Wire[f]) < SeqSpace /\ Isn[f] \in 0..(SeqSpace - 1)
         /\ SeqSpace \in Nat /\ SeqSpace > 0 /\ MaxSegment \in Nat /\ MaxSegment > 0
         /\ 0 \in Ends[f]
BY ReassemblyAssumption

LEMMA Modulo ==
  ASSUME NEW S \in Nat, S > 0, NEW n \in Nat, n < S + S
  PROVE  n % S \in 0..(S - 1) /\ n % S = IF n < S THEN n ELSE n - S
<1>1. n % S \in 0..(S - 1)
  OBVIOUS
<1>2. n < S => n % S = n
  OBVIOUS
<1>3. ASSUME ~(n < S) PROVE n % S = n - S
  <2>1. PICK m \in Nat : m = n - S
    BY <1>3
  <2>2. m < S /\ n = m + S
    BY <2>1
  <2>3. (m + S) % S = m
    BY <2>2
  <2> QED BY <2>1, <2>2, <2>3
<1> QED BY <1>1, <1>2, <1>3

LEMMA Reduced ==
  ASSUME NEW f \in Flows, NEW x \in 0..Len(Wire[f])
  PROVE  /\ (Isn[f] + x) % SeqSpace \in 0..(SeqSpace - 1)
         /\ (Isn[f] + x) % SeqSpace
              = IF Isn[f] + x < SeqSpace THEN Isn[f] + x ELSE (Isn[f] + x) - SeqSpace
<1>1. SeqSpace \in Nat /\ SeqSpace > 0 /\ Isn[f] + x \in Nat /\ Isn[f] + x < SeqSpace + SeqSpace
  BY FlowShape
<1> QED BY <1>1, Modulo, Zenon

\* Two positions of a flow that is shorter than the sequence space: the number after
\* the segment from x to t is that of n only if n comes next.
LEMMA NextNumber ==
  ASSUME NEW f \in Flows, NEW x \in 1..Len(Wire[f]), NEW t \in x..Len(Wire[f]),
         NEW n \in 1..Len(Wire[f])
  PROVE  /\ (Isn[f] + n) % SeqSpace = ((Isn[f] + x) % SeqSpace) + (t - x + 1) => n = t + 1
         /\ n = t + 1 /\ ~(Isn[f] + x < SeqSpace /\ Isn[f] + n >= SeqSpace) =>
              (Isn[f] + n) % SeqSpace = ((Isn[f] + x) % SeqSpace) + (t - x + 1)
<1> DEFINE u == (Isn[f] + n) % SeqSpace
           v == (Isn[f] + x) % SeqSpace
           l == Len(Wire[f])
<1>1. l \in Nat /\ l < SeqSpace /\ Isn[f] \in 0..(SeqSpace - 1) /\ SeqSpace \in Nat
  BY FlowShape
<1>2. u = IF Isn[f] + n < SeqSpace THEN Isn[f] + n ELSE (Isn[f] + n) - SeqSpace
  <2>1. n \in 0..Len(Wire[f])
    BY <1>1
  <2> QED BY <2>1, Reduced, Zenon
<1>3. v = IF Isn[f] + x < SeqSpace THEN Isn[f] + x ELSE (Isn[f] + x) - SeqSpace
  <2>1. x \in 0..Len(Wire[f])
    BY <1>1
  <2> QED BY <2>1, Reduced, Zenon
<1> HIDE DEF u, v
<1>4. n \in 1..l /\ x \in 1..l /\ t \in x..l
  OBVIOUS
<1> DEFINE S == SeqSpace
           i == Isn[f]
<1>5. /\ l \in Nat /\ S \in Nat /\ i \in Nat /\ l < S /\ i < S
      /\ n \in Nat /\ x \in Nat /\ t \in Nat /\ 1 <= n /\ n <= l /\ 1 <= x /\ x <= t /\ t <= l
      /\ u = (IF i + n < S THEN i + n ELSE (i + n) - S)
      /\ v = (IF i + x < S THEN i + x ELSE (i + x) - S)
  BY <1>1, <1>2, <1>3, <1>4
<1> HIDE DEF l, S, i
<1>6. u = v + (t - x + 1) => n = t + 1
  BY <1>5
<1>7. n = t + 1 /\ ~(i + x < S /\ i + n >= S) => u = v + (t - x + 1)
  BY <1>5
<1> QED BY <1>6, <1>7 DEF u, v, S, i

-----------------------------------------------------------------------------
\* With a segment from..to that has the number n, the flow's data begins at a.
Prepends(f, from, to, n, a) ==
  /\ Kept(f, n) \o Range1(from, to) = Range1(a, to)
  /\ a < from => from = run[f].to + 1 /\ n = streams[f].sequence + (from - a)
  /\ /\ from = run[f].to + 1
     /\ ~(Isn[f] + run[f].from < SeqSpace /\ Isn[f] + to + 1 >= SeqSpace)
     => streams[f].buffered = Range1(a, run[f].to)

\* What is put in front of the segment from..to, if anything, is what was left of the
\* stream just before it.
LEMMA KeptData ==
  ASSUME StreamInv, NEW f \in Flows,
         NEW from \in 1..Len(Wire[f]), NEW to \in from..Len(Wire[f]),
         NEW n, n = (Isn[f] + from) % SeqSpace
  PROVE  \E a \in 1..from : Prepends(f, from, to, n, a)
<1> DEFINE old == streams[f].buffered
           t == run[f].to
           l == Len(Wire[f])
<1>1. /\ l \in Nat /\ from \in Nat \ {0} /\ to \in Nat /\ from <= to + 1
      /\ t \in 0..l /\ run[f].from \in 1..(t + 1) /\ streams[f].sequence \in Int
      /\ old \in Seq(Nat) /\ Remains(old, 1, t) /\ (old # <<>> => Numbered(f))
  <2>1. l \in Nat
    BY FlowShape
  <2>2. Followed(f) /\ old \in Seq(Nat) /\ streams[f].sequence \in Int
    BY DEF StreamInv
  <2> QED BY <2>1, <2>2 DEF Followed
<1>2. PICK r \in 1..(t + 1) : old = Range1(r, t)
  BY <1>1 DEF Remains
<1>3. /\ Range1(from, to) \in Seq(Nat) /\ Len(old) = t - r + 1 /\ (old = <<>> <=> r = t + 1)
  <2>1. r \in Nat /\ t \in Int /\ r <= t + 1
    BY <1>1
  <2>2. Len(Range1(r, t)) = t - r + 1 /\ (Range1(r, t) = <<>> <=> r = t + 1)
    BY <2>1, RangeShape, Zenon
  <2>3. Range1(from, to) \in Seq(Nat)
    <3>1. from \in Nat /\ to \in Int /\ from <= to + 1
      BY <1>1
    <3> QED BY <3>1, RangeShape, Zenon
  <2> QED BY <1>2, <2>2, <2>3
<1>4. ASSUME old # <<>>
      PROVE  /\ n = streams[f].sequence + Len(old) => from = t + 1
             /\ /\ from = t + 1
                /\ ~(Isn[f] + run[f].from < SeqSpace /\ Isn[f] + to + 1 >= SeqSpace)
                => n = streams[f].sequence + Len(old)
  <2>1. PICK x \in run[f].from..t :
           streams[f].sequence + Len(old) = ((Isn[f] + x) % SeqSpace) + (t - x + 1)
    BY <1>1, <1>4 DEF Numbered
  <2>2. x \in 1..l /\ t \in x..l /\ x >= run[f].from
    BY <1>1, <2>1, SMTT(30)
  <2>3. /\ n = streams[f].sequence + Len(old) => from = t + 1
        /\ from = t + 1 /\ ~(Isn[f] + x < SeqSpace /\ Isn[f] + from >= SeqSpace) =>
             n = streams[f].sequence + Len(old)
    <3>1. /\ n = ((Isn[f] + x) % SeqSpace) + (t - x + 1) => from = t + 1
          /\ from = t + 1 /\ ~(Isn[f] + x < SeqSpace /\ Isn[f] + from >= SeqSpace) =>
               n = ((Isn[f] + x) % SeqSpace) + (t - x + 1)
      BY <2>2, NextNumber, Zenon
    <3> QED BY <2>1, <3>1
  <2>4. Isn[f] + x < SeqSpace /\ Isn[f] + from >= SeqSpace =>
          Isn[f] + run[f].from < SeqSpace /\ Isn[f] + to + 1 >= SeqSpace
    <3>1. Isn[f] \in Nat /\ SeqSpace \in Nat
      BY FlowShape
    <3>2. /\ x \in Nat /\ run[f].from \in Nat /\ run[f].from <= x
          /\ from \in Nat /\ to \in Nat /\ from <= to + 1
      BY <1>1, <2>2
    <3> DEFINE i == Isn[f]
               s == SeqSpace
               y == run[f].from
    <3> HIDE DEF i, s, y
    <3>3. /\ i \in Nat /\ s \in Nat /\ x \in Nat /\ y \in Nat /\ y <= x
          /\ from \in Nat /\ to \in Nat /\ from <= to + 1
      BY <3>1, <3>2 DEF i, s, y
    <3>4. i + x < s /\ i + from >= s => i + y < s /\ i + to + 1 >= s
      BY <3>3
    <3> QED BY <3>4 DEF i, s, y
  <2> QED BY <2>3, <2>4
<1>5. <<>> \o Range1(from, to) = Range1(from, to)
  BY <1>3
<1>6. from \in 1..from
  BY <1>1
<1> DEFINE Fits(a) == Prepends(f, from, to, n, a)
<1>7. ASSUME old = <<>> PROVE Fits(from)
  <2>1. Kept(f, n) = <<>>
    BY <1>7 DEF Kept
  <2>2. from = t + 1 => old = Range1(from, t)
    BY <1>2, <1>3, <1>7
  <2>3. ~(from < from)
    BY <1>1
  <2> QED BY <1>5, <2>1, <2>2, <2>3 DEF Prepends
<1>8. ASSUME old # <<>>, n # streams[f].sequence + Len(old) PROVE Fits(from)
  <2>1. Kept(f, n) = <<>>
    BY <1>8 DEF Kept
  <2>2. ~(from < from)
    BY <1>1
  <2> QED BY <1>4, <1>5, <1>8, <2>1, <2>2 DEF Prepends
<1>9. ASSUME old # <<>>, n = streams[f].sequence + Len(old) PROVE r \in 1..from /\ Fits(r)
  <2>1. Kept(f, n) = old /\ from = t + 1
    BY <1>4, <1>9 DEF Kept
  <2>2. r \in 1..from /\ r \in Nat /\ r <= from /\ from - 1 = t
    BY <1>1, <2>1
  <2>3. n = streams[f].sequence + (from - r)
    <3>1. t - r + 1 = from - r
      BY <1>1, <2>1, <2>2
    <3> QED BY <1>3, <1>9, <3>1
  <2>4. Range1(r, from - 1) \o Range1(from, to) = Range1(r, to)
    BY <1>1, <2>2, RangesJoin
  <2> QED BY <1>2, <2>1, <2>2, <2>3, <2>4 DEF Prepends
<1>10. \E a \in 1..from : Fits(a)
  BY <1>6, <1>7, <1>8, <1>9
<1> QED BY <1>10
-----------------------------------------------------------------------------
LEMMA PieceShape ==
  ASSUME NEW f \in Flows, NEW m, Piece(m, 1, Len(Wire[f]))
  PROVE  /\ m \in Seq(Nat) /\ m[1] \in DOMAIN Wire[f] /\ m[3] \in DOMAIN Wire[f]
         /\ Wire[f][m[3]] \in Nat /\ Wire[f][m[1]] \in ToSet(Wire[f])
         /\ ToSet(m) \subseteq DOMAIN Wire[f]
         /\ \A i \in 1..(Len(m) - 1) : m[i + 1] = m[i] + 1
         /\ m[1] \in 1..(Len(Wire[f]) - 2) /\ m[3] = m[1] + 2
<1>1. PICK p, q \in Nat : 1 <= p /\ p + 2 <= q /\ q <= Len(Wire[f]) /\ m = Range1(p, q)
  BY DEF Piece
<1>2. /\ m \in Seq(Nat) /\ Len(m) = q - p + 1 /\ DOMAIN m = 1..(q - p + 1)
      /\ \A i \in 1..(q - p + 1) : m[i] = p + i - 1
  <2>1. p \in Nat /\ q \in Int /\ p <= q + 1
    BY <1>1
  <2>2. /\ Range1(p, q) \in Seq(Nat) /\ Len(Range1(p, q)) = q - p + 1
        /\ DOMAIN Range1(p, q) = 1..(q - p + 1)
        /\ \A i \in 1..(q - p + 1) : Range1(p, q)[i] = p + i - 1
    BY <2>1, RangeShape, Zenon
  <2> QED BY <1>1, <2>2
<1>3. /\ Wire[f] \in Seq(Nat) /\ Len(Wire[f]) \in Nat /\ DOMAIN Wire[f] = 1..Len(Wire[f])
  BY FlowShape
<1>4. ASSUME NEW i \in 1..(q - p + 1) PROVE m[i] \in DOMAIN Wire[f]
  <2>1. m[i] = p + i - 1
    BY <1>2
  <2>2. p + i - 1 \in 1..Len(Wire[f])
    BY <1>1, <1>3
  <2> QED BY <1>3, <2>1, <2>2
<1>5. 1 \in 1..(q - p + 1) /\ 3 \in 1..(q - p + 1)
  BY <1>1
<1>6. m[1] \in DOMAIN Wire[f] /\ m[3] \in DOMAIN Wire[f]
  BY <1>4, <1>5
<1>7. Wire[f][m[3]] \in Nat
  BY <1>3, <1>6
<1>8. Wire[f][m[1]] \in ToSet(Wire[f])
  BY <1>6 DEF ToSet
<1>9. ToSet(m) \subseteq DOMAIN Wire[f]
  BY <1>2, <1>4 DEF ToSet
<1>10. \A i \in 1..(Len(m) - 1) : m[i + 1] = m[i] + 1
  BY <1>1, <1>2
<1>11. m[1] \in 1..(Len(Wire[f]) - 2) /\ m[3] = m[1] + 2
  <2>1. m[1] = p + 1 - 1 /\ m[3] = p + 3 - 1
    BY <1>2, <1>5
  <2> QED BY <1>1, <1>3, <2>1
<1> QED BY <1>2, <1>6, <1>7, <1>8, <1>9, <1>10, <1>11

\* A channel is opened without security only where the wire has such a message.
LEMMA ChannelsOf ==
  ASSUME NEW f \in Flows, NEW frames, \A m \in ToSet(frames) : Piece(m, 1, Len(Wire[f])),
         NEW channel \in Opened(f, frames)
  PROVE  /\ \E i \in Nat : Opens(f, i, channel)
         /\ channel \in {Connection[g] : g \in Flows} \X Nat
<1>1. PICK m \in ToSet(frames) : Wire[f][m[1]] = Open /\ channel = <<Connection[f], Wire[f][m[3]]>>
  BY DEF Opened, Channel
<1>2. /\ Wire[f][m[3]] \in Nat
      /\ m[1] \in 1..(Len(Wire[f]) - 2) /\ m[3] = m[1] + 2
  BY PieceShape
<1>3. Opens(f, m[1], channel) /\ m[1] \in Nat
  BY <1>1, <1>2 DEF Opens
<1> QED BY <1>1, <1>2, <1>3

LEMMA TheOnesBefore ==
  ASSUME NEW S, NEW s \in Seq(S), NEW k \in DOMAIN s, NEW u, u = SubSeq(s, 1, k - 1)
  PROVE  s[k] \in ToSet(s) /\ ToSet(u) \subseteq ToSet(s)
<1>1. DOMAIN s = 1..Len(s) /\ Len(s) \in Nat
  OBVIOUS
<1>2. Len(u) = k - 1 /\ u \in Seq(S) /\ \A i \in 1..(k - 1) : i \in DOMAIN s /\ u[i] = s[i]
  BY <1>1
<1>3. DOMAIN u = 1..(k - 1)
  BY <1>2
<1>4. ToSet(u) \subseteq ToSet(s)
  BY <1>2, <1>3 DEF ToSet
<1>5. s[k] \in ToSet(s)
  BY DEF ToSet
<1> QED BY <1>4, <1>5

LEMMA ReportShape ==
  ASSUME Announced, file \in Files, NEW f \in file, f \in Flows, NEW frames \in Seq(Seq(Nat)),
         \A m \in ToSet(frames) : Piece(m, 1, Len(Wire[f])),
         NEW k \in DOMAIN frames
  PROVE  /\ Report(f, frames, k).frame \in ToSet(frames)
         /\ Report(f, frames, k).clear \in BOOLEAN
         /\ Opaque(f, Report(f, frames, k))
<1> DEFINE r == Report(f, frames, k)
<1>0. PICK before : before = SubSeq(frames, 1, k - 1)
  OBVIOUS
<1>1. frames[k] \in ToSet(frames) /\ ToSet(before) \subseteq ToSet(frames)
  BY <1>0, TheOnesBefore
<1>2. /\ r.frame = frames[k]
      /\ r.clear = (Wire[f][frames[k][1]] = Msg
                    /\ Channel(f, frames[k]) \in none_channels \cup Opened(f, before))
  BY <1>0 DEF Report
<1>3. r.clear \in BOOLEAN
  BY <1>2
<1>4. ASSUME <<f, Wire[f][frames[k][3]]>> \in Secured, r.clear PROVE FALSE
  <2> DEFINE channel == Channel(f, frames[k])
  <2>1. channel \in none_channels \/ channel \in Opened(f, before)
    BY <1>2, <1>4
  <2>2. \E g \in file : \E i \in Nat : Opens(g, i, channel)
    <3>1. CASE channel \in none_channels
      BY <3>1 DEF Announced
    <3>2. CASE channel \in Opened(f, before)
      <4>1. \A m \in ToSet(before) : Piece(m, 1, Len(Wire[f]))
        BY <1>1
      <4> HIDE DEF channel
      <4> QED BY <3>2, <4>1, ChannelsOf
    <3> QED BY <2>1, <3>1, <3>2
  <2>3. PICK g \in file : \E i \in Nat : Opens(g, i, channel)
    BY <2>2
  <2>4. PICK i \in Nat : Opens(g, i, channel)
    BY <2>3
  <2>5. /\ i \in 1..(Len(Wire[g]) - 2) /\ Wire[g][i] = Open
        /\ Connection[g] = Connection[f] /\ Wire[g][i + 2] = Wire[f][frames[k][3]]
    BY <2>4 DEF Opens, Channel
  <2> DEFINE s == <<f, Wire[f][frames[k][3]]>>
  <2>6. s \in Secured /\ s[1] = f /\ s[2] = Wire[f][frames[k][3]]
    BY <1>4
  <2> HIDE DEF s
  <2> QED BY <2>5, <2>6, ReassemblyAssumption
<1>5. Opaque(f, r)
  BY <1>2, <1>4 DEF Opaque
<1> QED BY <1>1, <1>2, <1>3, <1>5

\* The messages up to t and those from where the unfinished one begins.
LEMMA BetweenJoin ==
  ASSUME NEW f \in Flows, NEW y \in Nat, NEW a \in Nat, NEW t \in Nat, NEW b \in Nat,
         y <= a, a <= t + 1, t <= b, Resumes(f, a, t)
  PROVE  Between(f, y, t) \cup Between(f, a, b) = Between(f, y, b)
<1> DEFINE l == Len(Wire[f])
<1>1. ASSUME NEW d \in Ends[f] \ {l}
      PROVE  /\ d \in Nat /\ Wire[f][d + 2] \in Nat
             /\ a - 1 <= d \/ a - 1 >= d + Wire[f][d + 2]
  <2>1. a - 1 \in Ends[f]
    BY DEF Resumes
  <2>2. d \in 0..l /\ l \in Nat /\ Wire[f][d + 2] \in Nat
        /\ \A e \in Ends[f] : e <= d \/ e >= d + Wire[f][d + 2]
    BY MessageShape
  <2> QED BY <2>1, <2>2
<1> HIDE DEF l
<1>2. ASSUME NEW d \in Ends[f] \ {l}
      PROVE  \/ y <= d + 1 /\ d + Wire[f][d + 2] <= t
             \/ a <= d + 1 /\ d + Wire[f][d + 2] <= b
             <=> y <= d + 1 /\ d + Wire[f][d + 2] <= b
  <2> DEFINE size == Wire[f][d + 2]
  <2>1. d \in Nat /\ size \in Nat /\ (a - 1 <= d \/ a - 1 >= d + size)
    BY <1>1
  <2> HIDE DEF size
  <2>2. (y <= d + 1 /\ d + size <= t) \/ (a <= d + 1 /\ d + size <= b)
           <=> y <= d + 1 /\ d + size <= b
    BY <2>1
  <2> QED BY <2>2 DEF size
<1> QED BY <1>2 DEF Between, l
-----------------------------------------------------------------------------
LEMMA StreamInitially == StreamInit => StreamInv
<1> SUFFICES ASSUME StreamInit PROVE StreamInv
  OBVIOUS
<1>1. ASSUME NEW f \in Flows
      PROVE  /\ streams[f].sequence = 0 /\ streams[f].buffered = <<>>
             /\ run[f].from = 1 /\ run[f].to = 0 /\ decoded[f] = {}
  BY DEF StreamInit, NoStream, NoRun
<1>2. /\ streams \in [Flows -> [sequence : Int, buffered : Seq(Nat)]]
      /\ run \in [Flows -> [from : Nat, to : Nat]] /\ decoded = [f \in Flows |-> decoded[f]]
  BY DEF StreamInit, NoStream, NoRun
<1>3. Range1(1, 0) = <<>>
  BY RangeShape
<1>4. ASSUME NEW f \in Flows PROVE Followed(f)
  <2>1. Len(Wire[f]) \in Nat /\ 0 \in 0..(SeqSpace + MaxSegment)
    BY FlowShape
  <2>2. Remains(<<>>, 1, 0)
    <3>1. 1 \in 1..(0 + 1)
      OBVIOUS
    <3> QED BY <1>3, <3>1 DEF Remains
  <2> QED BY <1>1, <2>1, <2>2 DEF Followed
<1>5. ASSUME NEW f \in Flows PROVE Complete(f)
  <2>1. 0 \in Ends[f] /\ Len(Wire[f]) \in Nat
    BY FlowShape
  <2>2. Between(f, 1, 0) = {} /\ Resumes(f, 1, 0)
    <3>1. 0 \in 0..Len(Wire[f]) /\ 1 - 1 \in Ends[f] /\ 1 \in Nat \ {0} /\ ~(1 < 0)
      BY <2>1
    <3> QED BY <3>1, BetweenNone
  <2>3. {r.frame : r \in decoded[f]} = {}
    BY <1>1
  <2>4. 1 \in 1..(0 + 1)
    OBVIOUS
  <2> QED BY <1>1, <1>3, <2>2, <2>3, <2>4 DEF Complete
<1>6. Announced /\ SecuredStaysOpaque /\ file \in Files
  BY <1>1 DEF StreamInit, Announced, SecuredStaysOpaque
<1> QED BY <1>1, <1>2, <1>4, <1>5, <1>6 DEF StreamInv

\* The number of what is left is not negative, and at most one segment too high.
LEMMA Offset ==
  ASSUME NEW S \in Nat, NEW m \in Nat, NEW n \in 0..(S - 1), NEW q \in Nat, NEW from \in Nat,
         NEW to \in Nat, to - from + 1 <= m, NEW a \in 1..from, NEW r \in a..(to + 1),
         a < from => n = q + (from - a)
  PROVE  n + (r - from) \in 0..(S + m)
<1>1. CASE a < from
  BY <1>1
<1>2. CASE a = from
  BY <1>2
<1> QED BY <1>1, <1>2

\* What a segment leaves of its flow.
LEMMA SegmentFollowed ==
  ASSUME StreamInv, NEW f \in Flows,
         NEW from \in 1..Len(Wire[f]), NEW to \in from..Len(Wire[f]), to - from + 1 <= MaxSegment,
         NEW n, n = (Isn[f] + from) % SeqSpace, NEW a \in 1..from,
         a < from => from = run[f].to + 1 /\ n = streams[f].sequence + (from - a),
         NEW o, Cuts(f, a, to, o), run' \in [Flows -> [from : Nat, to : Nat]],
         run'[f] = [from |-> IF from = run[f].to + 1 THEN run[f].from ELSE from, to |-> to],
         streams'[f] = IF o.valid THEN Unfinished(n, to - from + 1, o.rest) ELSE NoStream
  PROVE  /\ streams'[f] \in [sequence : Int, buffered : Seq(Nat)]
         /\ Followed(f)'
<1> DEFINE l == Len(Wire[f])
<1>1. /\ l \in Nat /\ l < SeqSpace /\ SeqSpace \in Nat /\ MaxSegment \in Nat
      /\ from \in 1..l /\ to \in from..l /\ a \in 1..from
  BY FlowShape
<1>2. /\ run[f].from \in 1..(run[f].to + 1) /\ run[f].to \in 0..l
      /\ streams[f].sequence \in 0..(SeqSpace + MaxSegment)
  BY DEF StreamInv, Followed
<1>3. n \in 0..(SeqSpace - 1)
  <2>1. from \in 0..Len(Wire[f])
    BY <1>1
  <2> QED BY <2>1, Reduced
<1>4. run'[f].to = to /\ run'[f].from \in 1..from
  BY <1>1, <1>2
<1>5. CASE ~o.valid
  <2>1. streams'[f].sequence = 0 /\ streams'[f].buffered = <<>> /\ streams'[f] = NoStream
    BY <1>5 DEF NoStream
  <2>2. NoStream \in [sequence : Int, buffered : Seq(Nat)]
    BY DEF NoStream
  <2>3. Range1(to + 1, to) = <<>> /\ to + 1 \in 1..(to + 1)
    <3>1. to + 1 \in Nat /\ to \in Int /\ to + 1 <= to + 1 /\ to + 1 \in 1..(to + 1)
      BY <1>1
    <3> QED BY <3>1, RangeShape
  <2>4. Remains(<<>>, 1, to)
    BY <2>3 DEF Remains
  <2>5. 0 \in 0..(SeqSpace + MaxSegment) /\ run'[f].from \in 1..(to + 1) /\ to \in 0..l
    BY <1>1, <1>4
  <2> QED BY <1>4, <2>1, <2>2, <2>4, <2>5 DEF Followed
<1>6. CASE o.valid
  <2>1. PICK r \in a..(to + 1) : o.rest = Range1(r, to)
    BY <1>6 DEF Cuts, Remains
  <2>2. r \in Nat /\ to \in Int /\ r <= to + 1 /\ r \in 1..(to + 1)
    BY <1>1, <2>1
  <2>3. o.rest \in Seq(Nat) /\ Len(o.rest) = to - r + 1
    <3>1. Range1(r, to) \in Seq(Nat) /\ Len(Range1(r, to)) = to - r + 1
      BY <2>2, RangeShape, Zenon
    <3> QED BY <2>1, <3>1
  <2> DEFINE sequence == n + ((to - from + 1) - Len(o.rest))
  <2>4. streams'[f] = [sequence |-> sequence, buffered |-> o.rest]
    BY <1>6 DEF Unfinished
  <2>5. sequence = n + (r - from) /\ sequence + Len(o.rest) = n + (to - from + 1)
    BY <1>1, <1>3, <2>2, <2>3
  <2>6. sequence \in 0..(SeqSpace + MaxSegment)
    <3>1. streams[f].sequence \in Nat /\ from \in Nat /\ to \in Nat
      BY <1>1, <1>2
    <3>2. a < from => n = streams[f].sequence + (from - a)
      OBVIOUS
    <3>3. n + (r - from) \in 0..(SeqSpace + MaxSegment)
      BY <3>1, <3>2, <1>1, <1>3, Offset, Zenon
    <3> HIDE DEF sequence
    <3> QED BY <3>3, <2>5
  <2> HIDE DEF sequence
  <2>7. streams'[f] \in [sequence : Int, buffered : Seq(Nat)]
    BY <1>1, <2>3, <2>4, <2>6
  <2>8. streams'[f].sequence = sequence /\ streams'[f].buffered = o.rest
    BY <2>4
  <2>9. Remains(o.rest, 1, to)
    BY <2>1, <2>2 DEF Remains
  <2>10. Numbered(f)'
    <3>1. from \in run'[f].from..run'[f].to
      BY <1>1, <1>4
    <3>2. run'[f].to - from + 1 <= MaxSegment
      BY <1>4
    <3>3. streams'[f].sequence + Len(streams'[f].buffered)
            = ((Isn[f] + from) % SeqSpace) + (run'[f].to - from + 1)
      BY <1>4, <2>5, <2>8
    <3> QED BY <3>1, <3>2, <3>3 DEF Numbered
  <2>11. run'[f].from \in 1..(to + 1) /\ to \in 0..l
    BY <1>1, <1>4
  <2> QED BY <1>4, <2>6, <2>7, <2>8, <2>9, <2>10, <2>11 DEF Followed
<1> QED BY <1>5, <1>6
\* A flow followed from the start of a message on stays complete.
LEMMA SegmentComplete ==
  ASSUME StreamInv, NEW f \in Flows,
         NEW from \in 1..Len(Wire[f]), NEW to \in from..Len(Wire[f]), NEW a \in 1..from,
         a < from => from = run[f].to + 1,
         /\ from = run[f].to + 1
         /\ ~(Isn[f] + run[f].from < SeqSpace /\ Isn[f] + to + 1 >= SeqSpace)
         => streams[f].buffered = Range1(a, run[f].to),
         NEW o, Cuts(f, a, to, o),
         run'[f] = [from |-> IF from = run[f].to + 1 THEN run[f].from ELSE from, to |-> to],
         o.valid => streams'[f].buffered = o.rest,
         {r.frame : r \in decoded'[f]}
           = IF from = run[f].to + 1 THEN {r.frame : r \in decoded[f]} \cup ToSet(o.frames)
             ELSE ToSet(o.frames)
  PROVE  Complete(f)'
<1> DEFINE l == Len(Wire[f])
           t == run[f].to
           y == run[f].from
           got == {r.frame : r \in decoded[f]}
           gotNow == {r.frame : r \in decoded'[f]}
<1>1. /\ l \in Nat /\ Isn[f] \in Nat /\ SeqSpace \in Nat /\ from \in Nat /\ to \in Nat
      /\ from <= to /\ to <= l /\ a \in Nat /\ 1 <= a /\ a <= from
  BY FlowShape
<1>2. y \in 1..(t + 1) /\ t \in 0..l /\ Complete(f)
  BY DEF StreamInv, Followed
<1>3. run'[f].to = to /\ run'[f].from = IF from = t + 1 THEN y ELSE from
  OBVIOUS
<1>4. ASSUME a - 1 \in Ends[f]
      PROVE  /\ ToSet(o.frames) = Between(f, a, to)
             /\ \E r \in a..(to + 1) : streams'[f].buffered = Range1(r, to) /\ Resumes(f, r, to)
  BY <1>4 DEF Cuts
<1>5. SUFFICES ASSUME run'[f].from - 1 \in Ends[f], ~Wraps(f)'
      PROVE  /\ gotNow = Between(f, run'[f].from, to)
             /\ \E r \in run'[f].from..(to + 1) :
                  streams'[f].buffered = Range1(r, to) /\ Resumes(f, r, to)
  BY <1>3 DEF Complete, Resumes, Between
<1>6. CASE from # t + 1
  <2>1. a = from /\ run'[f].from = from
    BY <1>1, <1>3, <1>6
  <2>2. gotNow = ToSet(o.frames)
    BY <1>6
  <2> HIDE DEF gotNow
  <2> QED BY <1>4, <1>5, <2>1, <2>2
<1>7. CASE from = t + 1
  <2>1. run'[f].from = y /\ gotNow = got \cup ToSet(o.frames)
    BY <1>3, <1>7
  <2>2. ~(Isn[f] + y < SeqSpace /\ Isn[f] + to + 1 >= SeqSpace)
    BY <1>3, <1>5, <2>1 DEF Wraps
  <2>3. streams[f].buffered = Range1(a, t)
    BY <1>7, <2>2
  <2>4. ~Wraps(f)
    <3> DEFINE i == Isn[f]
               s == SeqSpace
    <3> HIDE DEF i, s
    <3>1. i \in Nat /\ s \in Nat /\ y \in Nat /\ t \in Nat /\ to \in Nat /\ t + 1 <= to
      BY <1>1, <1>2, <1>7 DEF i, s
    <3>2. ~(i + y < s /\ i + to + 1 >= s)
      BY <2>2 DEF i, s
    <3>3. ~(i + y < s /\ i + t + 1 >= s)
      BY <3>1, <3>2
    <3> QED BY <3>3 DEF i, s, Wraps
  <2>5. PICK r \in y..(t + 1) :
           got = Between(f, y, t) /\ Range1(a, t) = Range1(r, t) /\ Resumes(f, r, t)
    BY <1>2, <1>5, <2>1, <2>3, <2>4 DEF Complete
  <2>6. r = a
    <3>1. r \in Nat /\ t \in Int /\ r <= t + 1 /\ a \in Nat /\ a <= t + 1
      BY <1>1, <1>2, <1>7
    <3>2. Len(Range1(a, t)) = t - a + 1
      BY <3>1, RangeShape, Zenon
    <3>3. Len(Range1(r, t)) = t - r + 1
      BY <3>1, RangeShape, Zenon
    <3> QED BY <2>5, <3>1, <3>2, <3>3
  <2>7. y <= a /\ y \in Nat /\ t \in Nat /\ a <= t + 1 /\ t <= to /\ Resumes(f, a, t) /\ a - 1 \in Ends[f]
    BY <1>1, <1>2, <1>7, <2>5, <2>6 DEF Resumes
  <2>8. Between(f, y, t) \cup Between(f, a, to) = Between(f, y, to)
    <3>1. to \in Nat /\ a \in Nat
      BY <1>1
    <3> HIDE DEF y, t
    <3> QED BY <3>1, <2>7, BetweenJoin
  <2>9. PICK q \in a..(to + 1) : streams'[f].buffered = Range1(q, to) /\ Resumes(f, q, to)
    BY <1>4, <2>7
  <2>10. q \in y..(to + 1)
    BY <1>1, <2>7
  <2> HIDE DEF got, gotNow
  <2> QED BY <1>4, <2>1, <2>5, <2>7, <2>8, <2>9, <2>10
<1> QED BY <1>6, <1>7

\* One more segment of a flow.
LEMMA SegmentKeeps ==
  ASSUME StreamInv, NEW f \in file, f \in Flows,
         NEW from \in 1..Len(Wire[f]), NEW to \in from..Len(Wire[f]), to - from + 1 <= MaxSegment,
         Segment(f, from, to)
  PROVE  StreamInv'
<1> DEFINE l == Len(Wire[f])
<1>1. PICK n : n = (Isn[f] + from) % SeqSpace
  OBVIOUS
<1>2. PICK a \in 1..from : Prepends(f, from, to, n, a)
  BY <1>1, KeptData
<1>3. PICK o : o = Split(f, Range1(a, to))
  OBVIOUS
<1>4. Cuts(f, a, to, o)
  <2>1. l \in Nat
    BY FlowShape
  <2>2. a \in Nat \ {0} /\ to \in 0..l /\ a <= to + 1
    BY <2>1
  <2> QED BY <1>3, <2>2, SplitCuts
<1> DEFINE new == IF o.valid THEN Unfinished(n, to - from + 1, o.rest) ELSE NoStream
           now == [from |-> IF from = run[f].to + 1 THEN run[f].from ELSE from, to |-> to]
           reports == {Report(f, o.frames, k) : k \in DOMAIN o.frames}
           all == IF from = run[f].to + 1 THEN decoded[f] \cup reports ELSE reports
<1>5. /\ streams' = [streams EXCEPT ![f] = new]
      /\ none_channels' = none_channels \cup Opened(f, o.frames)
      /\ run' = [run EXCEPT ![f] = now] /\ decoded' = [decoded EXCEPT ![f] = all]
      /\ file' = file
  BY <1>1, <1>2, <1>3 DEF Segment, Follow, Prepends
<1>6. /\ streams \in [Flows -> [sequence : Int, buffered : Seq(Nat)]]
      /\ run \in [Flows -> [from : Nat, to : Nat]] /\ decoded = [g \in Flows |-> decoded[g]]
      /\ Announced /\ file \in Files
  BY DEF StreamInv
<1>7. /\ streams'[f] = new /\ run'[f] = now /\ decoded'[f] = all
      /\ decoded' = [g \in Flows |-> decoded'[g]]
      /\ \A g \in Flows \ {f} :
           streams'[g] = streams[g] /\ run'[g] = run[g] /\ decoded'[g] = decoded[g]
  <2> HIDE DEF new, now, all
  <2> QED BY <1>5, <1>6
<1>8. /\ now \in [from : Nat, to : Nat] /\ run' \in [Flows -> [from : Nat, to : Nat]]
  <2>1. now \in [from : Nat, to : Nat]
    <3>1. run[f].from \in Nat
      BY <1>6
    <3>2. from \in Nat /\ to \in Nat
      BY FlowShape
    <3> QED BY <3>1, <3>2
  <2> HIDE DEF now
  <2> QED BY <1>5, <1>6, <2>1
<1>9. o.frames \in Seq(Seq(Nat)) /\ \A m \in ToSet(o.frames) : Piece(m, 1, l)
  <2>1. o.frames \in Seq(Seq(Nat)) /\ \A m \in ToSet(o.frames) : Piece(m, a, to)
    BY <1>4 DEF Cuts
  <2>2. \A p, q \in Nat : a <= p /\ q <= to => 1 <= p /\ q <= l
    BY FlowShape
  <2> QED BY <2>1, <2>2 DEF Piece
<1>10. \A r \in reports : r.frame \in ToSet(o.frames) /\ r.clear \in BOOLEAN /\ Opaque(f, r)
  <2>1. \A m \in ToSet(o.frames) : Piece(m, 1, Len(Wire[f]))
    BY <1>9
  <2>2. Announced /\ o.frames \in Seq(Seq(Nat))
    BY <1>6, <1>9
  <2>3. ASSUME NEW k \in DOMAIN o.frames
        PROVE  /\ Report(f, o.frames, k).frame \in ToSet(o.frames)
               /\ Report(f, o.frames, k).clear \in BOOLEAN
               /\ Opaque(f, Report(f, o.frames, k))
    BY <1>6, <2>1, <2>2, ReportShape
  <2> QED BY <2>3
<1>11. {r.frame : r \in reports} = ToSet(o.frames)
  <2>1. \A k \in DOMAIN o.frames : Report(f, o.frames, k).frame = o.frames[k]
    BY DEF Report
  <2> QED BY <2>1 DEF ToSet
<1> HIDE DEF l, reports
<1>12. streams'[f] \in [sequence : Int, buffered : Seq(Nat)] /\ Followed(f)'
  BY <1>1, <1>2, <1>4, <1>7, <1>8, SegmentFollowed DEF Prepends
<1>13. Complete(f)'
  <2>1. o.valid => streams'[f].buffered = o.rest
    BY <1>7 DEF Unfinished
  <2>2. {r.frame : r \in decoded'[f]}
           = IF from = run[f].to + 1 THEN {r.frame : r \in decoded[f]} \cup ToSet(o.frames)
             ELSE ToSet(o.frames)
    BY <1>7, <1>11
  <2> QED BY <1>2, <1>4, <1>7, <2>1, <2>2, SegmentComplete DEF Prepends
<1>14. streams' \in [Flows -> [sequence : Int, buffered : Seq(Nat)]]
  <2> HIDE DEF new
  <2> QED BY <1>5, <1>6, <1>7, <1>12
<1>15. ASSUME NEW g \in Flows \ {f} PROVE Followed(g)' /\ Complete(g)'
  <2>1. Followed(g) /\ Complete(g)
    BY DEF StreamInv
  <2>2. streams'[g] = streams[g] /\ run'[g] = run[g] /\ decoded'[g] = decoded[g]
    BY <1>7
  <2>3. Followed(g)'
    BY <2>1, <2>2 DEF Followed, Numbered, Remains
  <2>4. Complete(g)'
    BY <2>1, <2>2 DEF Complete, Wraps, Between, Resumes
  <2> QED BY <2>3, <2>4
<1>16. ASSUME NEW g \in Flows, NEW r \in decoded'[g]
       PROVE  r.clear \in BOOLEAN /\ Piece(r.frame, 1, Len(Wire[g])) /\ Opaque(g, r)
  <2>1. r \in decoded[g] \/ (g = f /\ r \in reports)
    BY <1>7
  <2>2. CASE r \in decoded[g]
    BY <2>2 DEF StreamInv, SecuredStaysOpaque, Opaque
  <2>3. CASE g = f /\ r \in reports
    BY <2>3, <1>9, <1>10 DEF l
  <2> QED BY <2>1, <2>2, <2>3
<1>17. Announced'
  <2>1. \A channel \in Opened(f, o.frames) :
           /\ \E i \in Nat : Opens(f, i, channel)
           /\ channel \in {Connection[g] : g \in Flows} \X Nat
    BY <1>9, ChannelsOf DEF l
  <2> QED BY <1>5, <1>6, <2>1 DEF Announced
<1>18. SecuredStaysOpaque'
  BY <1>16 DEF SecuredStaysOpaque, Opaque
<1> QED BY <1>5, <1>6, <1>7, <1>8, <1>12, <1>13, <1>14, <1>15, <1>16, <1>17, <1>18 DEF StreamInv
LEMMA StreamInductive == StreamInv /\ [StreamNext]_streamVars => StreamInv'
<1> SUFFICES ASSUME StreamInv, [StreamNext]_streamVars PROVE StreamInv'
  OBVIOUS
<1>1. CASE NextCapture
  <2>1. StreamInit'
    BY <1>1 DEF NextCapture, StreamInit
  <2>2. StreamInit' => StreamInv'
    BY StreamInitially, PTL
  <2> QED BY <2>1, <2>2
<1>2. ASSUME NEW f \in file, NEW from \in DOMAIN Wire[f], NEW length \in 1..MaxSegment,
             from + length - 1 <= Len(Wire[f]), Segment(f, from, from + length - 1)
      PROVE  StreamInv'
  <2>0. f \in Flows
    BY ReassemblyAssumption DEF StreamInv
  <2>1. PICK to : to = from + length - 1
    OBVIOUS
  <2>2. from \in 1..Len(Wire[f]) /\ Len(Wire[f]) \in Nat
    BY <2>0, FlowShape
  <2>3. to \in from..Len(Wire[f]) /\ to - from + 1 <= MaxSegment
    <3>1. MaxSegment \in Nat
      BY <2>0, FlowShape
    <3>2. length \in Nat /\ length >= 1 /\ length <= MaxSegment /\ from \in Nat
      BY <2>2, <3>1
    <3>3. to \in Int /\ from <= to /\ to - from + 1 = length /\ to <= Len(Wire[f])
      BY <1>2, <2>1, <2>2, <3>2
    <3> QED BY <2>2, <3>2, <3>3
  <2> QED BY <1>2, <2>0, <2>1, <2>2, <2>3, SegmentKeeps
<1>3. CASE UNCHANGED streamVars
  <2>1. UNCHANGED <<file, streams, none_channels, run, decoded>>
    BY <1>3 DEF streamVars
  <2> QED BY <2>1 DEF StreamInv, Followed, Complete, Numbered, Remains, Wraps, Between, Resumes,
                      Announced, SecuredStaysOpaque
<1> QED BY <1>1, <1>2, <1>3 DEF StreamNext

LEMMA StreamInvariant == StreamSpec => []StreamInv
BY StreamInitially, StreamInductive, PTL DEF StreamSpec

\* Segments around a gap are never put together in one frame (_tcp_messages), in
\* whatever order, however often and however cut they arrive.
THEOREM FramesStayWhole == StreamSpec => []FramesAreWhole
<1>1. StreamInv => FramesAreWhole
  BY PieceShape, ZenonT(30) DEF StreamInv, FramesAreWhole
<1> QED BY <1>1, StreamInvariant, PTL

\* The messages between two positions, by their first and last bytes.
LEMMA BetweenIsSent ==
  ASSUME NEW f \in Flows, NEW lo, NEW hi
  PROVE  Between(f, lo, hi) = {m \in Sent(f) : Head(m) >= lo /\ Last(m) <= hi}
<1>1. ASSUME NEW e \in Ends[f] \ {Len(Wire[f])}, NEW m, m = Range1(e + 1, e + Wire[f][e + 2])
      PROVE  Head(m) = e + 1 /\ Last(m) = e + Wire[f][e + 2]
  <2> DEFINE size == Wire[f][e + 2]
             p == e + 1
             q == e + size
  <2>1. e \in Nat /\ size \in Nat /\ size >= 3
    <3>1. e \in 0..Len(Wire[f]) /\ Len(Wire[f]) \in Nat /\ size \in Nat /\ size >= 3
      BY MessageShape
    <3> QED BY <3>1
  <2>2. p \in Nat /\ q \in Int /\ p <= q + 1 /\ q - p + 1 = size
    BY <2>1
  <2>3. p + size - 1 = q
    BY <2>1
  <2> HIDE DEF p, q
  <2>4. /\ Range1(p, q) \in Seq(Nat) /\ Len(Range1(p, q)) = q - p + 1
        /\ \A i \in 1..(q - p + 1) : Range1(p, q)[i] = p + i - 1
    BY <2>2, RangeShape, Zenon
  <2>5. m = Range1(p, q)
    BY <1>1 DEF p, q
  <2> HIDE DEF size
  <2>6. m \in Seq(Nat) /\ Len(m) = size /\ m[1] = p /\ m[size] = q
    BY <2>1, <2>2, <2>3, <2>4, <2>5
  <2>7. Head(m) = p /\ Last(m) = q
    BY <2>1, <2>6 DEF Last
  <2> QED BY <2>7 DEF p, q, size
<1>2. \A e \in Ends[f] \ {Len(Wire[f])} :
        /\ Head(Range1(e + 1, e + Wire[f][e + 2])) = e + 1
        /\ Last(Range1(e + 1, e + Wire[f][e + 2])) = e + Wire[f][e + 2]
  BY <1>1
<1>3. \A e \in Ends[f] \ {Len(Wire[f])} : e + 1 >= lo <=> lo <= e + 1
  OBVIOUS
<1> QED BY <1>2, <1>3, Zenon DEF Between, Sent

\* Segments in order, from the start of a message on, give exactly the messages that
\* they hold (_tcp_messages and the split functions), whatever came before them and
\* whatever happens to the other flows; but where the sequence numbers wrap.
THEOREM RunsDecodeFully == StreamSpec => []RunsAreDecoded
<1>1. ASSUME StreamInv, NEW f \in Flows, run[f].from - 1 \in Ends[f], ~Wraps(f)
      PROVE  {r.frame : r \in decoded[f]} =
               {m \in Sent(f) : Head(m) >= run[f].from /\ Last(m) <= run[f].to}
  <2>1. {r.frame : r \in decoded[f]} = Between(f, run[f].from, run[f].to)
    BY <1>1 DEF StreamInv, Complete
  <2> QED BY <2>1, BetweenIsSent
<1>2. StreamInv => RunsAreDecoded
  BY <1>1 DEF RunsAreDecoded
<1> QED BY <1>2, StreamInvariant, PTL

\* A message of a secured channel is never read as cleartext
\* (opcua_observations_from_pcap): what is known as open was opened in this file, on
\* this connection and by this number, because frames are whole.
THEOREM SecuredIsNeverRead == StreamSpec => []SecuredStaysOpaque
<1>1. StreamInv => SecuredStaysOpaque
  BY DEF StreamInv
<1> QED BY <1>1, StreamInvariant, PTL

\* Every variable keeps its type: the number kept with a remainder is not negative
\* and at most one segment beyond the sequence space.
THEOREM StreamTypeCorrect == StreamSpec => []StreamTypeOK
<1>1. ASSUME StreamInv PROVE StreamTypeOK
  <2>1. streams \in [Flows -> [sequence : 0..(SeqSpace + MaxSegment), buffered : Seq(Nat)]]
    BY <1>1 DEF StreamInv, Followed
  <2>2. none_channels \subseteq {Connection[f] : f \in Flows} \X Nat
    BY <1>1 DEF StreamInv, Announced
  <2>3. file \in Files
    BY <1>1 DEF StreamInv
  <2>4. ASSUME NEW f \in Flows
        PROVE  /\ run[f].from \in Nat /\ run[f].to \in 0..Len(Wire[f])
               /\ \A r \in decoded[f] : r.clear \in BOOLEAN /\ ToSet(r.frame) \subseteq DOMAIN Wire[f]
    BY <1>1, PieceShape DEF StreamInv, Followed
  <2> QED BY <2>1, <2>2, <2>3, <2>4 DEF StreamTypeOK
<1> QED BY <1>1, StreamInvariant, PTL
=============================================================================
