------------------------- MODULE AlertOutbox_proofs -------------------------
(***************************************************************************)
(* Machine-checked proofs that the alert outbox keeps each delivery to the *)
(* life that DeliveryLifecycle promises, sends nothing for a rule whose    *)
(* deletion is committed, records every outcome once and sends a delivery  *)
(* again only after a pass was cut off, for any number of processes and    *)
(* rules and any bounds.                                                   *)
(***************************************************************************)
EXTENDS AlertOutbox, FiniteSetTheorems, TLAPS

Pending == {"queued", "retrying"}
InPass == {"next", "audit"}

\* What the proofs need of the type of a transaction.
Shape(t) ==
  /\ "phase" \in DOMAIN t
  /\ t.phase \in InPass => /\ {"todo", "rows", "log"} \subseteq DOMAIN t
                           /\ t.rows = [d \in DOMAIN t.rows |-> t.rows[d]]
                           /\ t.todo \subseteq DOMAIN t.rows

Typed ==
  /\ rules \subseteq Rules
  /\ deliveries \in Seq(Delivery) /\ Len(deliveries) <= MaxDeliveries
  /\ received = [d \in Ids |-> received[d]]
  /\ txn = [p \in Procs |-> txn[p]]
  /\ \A p \in Procs : Shape(txn[p])

\* What an attempt makes of a delivery.
Settles(row, was) ==
  /\ row.attempts = was.attempts + 1
  /\ \/ row.status = "delivered"
     \/ row.status = "retrying" /\ row.attempts < MaxAttempts
     \/ row.status = "failed" /\ row.attempts = MaxAttempts

\* A pass has settled a delivery once, and it is no longer to do or waits for
\* its audit record; or it has not touched it.
Held(t, d) ==
  LET row == t.rows[d]
      was == deliveries[d]
  IN  /\ row \in Delivery /\ row.rule = was.rule
      /\ \/ row.status = was.status /\ row.attempts = was.attempts
         \/ /\ Settles(row, was)
            /\ d \notin t.todo \/ (t.phase = "audit" /\ \A e \in t.todo : d <= e)

\* A pass has its deliveries to itself.
BatchIsOwn ==
  /\ \A v, w \in Workers : v # w => Locked(v) \cap Locked(w) = {}
  /\ \A w \in Workers : \A d \in Locked(w) :
       d \in DOMAIN deliveries /\ deliveries[d].status \in Pending /\ Held(txn[w], d)

\* A delivery that is not at its end has attempts left, and one that is there
\* has its rule.
AttemptsLeft ==
  \A d \in DOMAIN deliveries :
    deliveries[d].status \in Pending => deliveries[d].attempts < MaxAttempts
LiveRules ==
  \A d \in DOMAIN deliveries : deliveries[d].status # "removed" => deliveries[d].rule \in rules

IInv == Typed /\ BatchIsOwn /\ AttemptsLeft /\ LiveRules

LEMMA Initially == Init => IInv
<1> SUFFICES ASSUME Init PROVE IInv
  OBVIOUS
<1>1. \A p \in Procs : txn[p] = Idle /\ Shape(Idle) /\ Locked(p) = {}
  BY DEF Init, Idle, Shape, Locked, InPass
<1>2. Len(deliveries) = 0 /\ deliveries \in Seq(Delivery) /\ DOMAIN deliveries = {}
  BY DEF Init
<1>3. Typed
  BY <1>1, <1>2, OutboxAssumption DEF Init, Typed
<1> QED BY <1>1, <1>2, <1>3 DEF IInv, BatchIsOwn, AttemptsLeft, LiveRules, Procs

-----------------------------------------------------------------------------
\* A set made a sequence has its elements, and as many.
LEMMA SetToSeqRange ==
  ASSUME NEW S, IsFiniteSet(S)
  PROVE  SetToSeq(S) \in [1..Cardinality(S) -> S] /\ Cardinality(S) \in Nat
<1> DEFINE n == Cardinality(S)
<1>1. n \in Nat /\ \E f \in Bijection(1..n, S) : TRUE
  BY FS_CardinalityType, FS_NatBijection, Zenon DEF ExistsBijection
<1>2. \E f \in [1..n -> S] : IsInjective(f)
  BY <1>1 DEF Bijection, Injection, IsInjective
<1>3. SetToSeq(S) \in [1..n -> S]
  BY <1>2 DEF SetToSeq
<1> QED BY <1>1, <1>3

\* Rows in place of rows.
LEMMA RowsInOrder ==
  ASSUME NEW s \in Seq(Delivery), NEW f, f = [d \in DOMAIN s |-> f[d]],
         \A d \in DOMAIN s : f[d] \in Delivery
  PROVE  f \in Seq(Delivery) /\ Len(f) = Len(s)
OBVIOUS

\* The deliveries are the ones there were, with new ones behind them.
Grown ==
  /\ UNCHANGED rules
  /\ deliveries' \in Seq(Delivery) /\ Len(deliveries') <= MaxDeliveries
  /\ DOMAIN deliveries \subseteq DOMAIN deliveries'
  /\ \A d \in DOMAIN deliveries : /\ deliveries'[d].status = deliveries[d].status
                                  /\ deliveries'[d].attempts = deliveries[d].attempts
                                  /\ deliveries'[d].rule = deliveries[d].rule
  /\ \A d \in DOMAIN deliveries' \ DOMAIN deliveries :
       /\ deliveries'[d].status = "queued" /\ deliveries'[d].attempts = 0
       /\ deliveries'[d].rule \in rules

LEMMA EnqueueGrows ==
  ASSUME Typed, NEW p \in Procs, Enqueue(p)
  PROVE  Grown
<1> DEFINE m == txn[p].matched
           n == Cardinality(m)
           xs == SetToSeq(m)
           new == [i \in DOMAIN xs |-> Queued(xs[i])]
<1>1. m \subseteq rules /\ rules \subseteq Rules /\ Len(deliveries) + n <= MaxDeliveries
  BY DEF Enqueue, Typed
<1>2. xs \in [1..n -> m] /\ n \in Nat
  BY <1>1, SetToSeqRange, FS_Subset, OutboxAssumption
<1>3. deliveries' = deliveries \o new /\ deliveries \in Seq(Delivery) /\ UNCHANGED rules
  BY DEF Enqueue, Typed
<1>4. /\ new = [i \in 1..n |-> Queued(xs[i])]
      /\ \A i \in 1..n : new[i] \in Delivery /\ new[i].status = "queued"
                         /\ new[i].attempts = 0 /\ new[i].rule \in rules
  <2> HIDE DEF xs, n, m
  <2> QED BY <1>1, <1>2 DEF Queued, Delivery, Statuses
<1> HIDE DEF xs, new, n, m
<1>5. new \in Seq(Delivery) /\ Len(new) = n
  BY <1>2, <1>4
<1> QED BY <1>1, <1>2, <1>3, <1>4, <1>5 DEF Grown

LEMMA SameIsGrown ==
  ASSUME Typed, UNCHANGED <<deliveries, rules>>
  PROVE  Grown
BY DEF Typed, Grown

LEMMA BecomeDueGrows ==
  ASSUME Typed, NEW d \in DOMAIN deliveries, BecomeDue(d)
  PROVE  Grown
<1> DEFINE t == TRUE
           row == [deliveries[d] EXCEPT !.due = t]
<1>1. deliveries[d] \in Delivery
  BY DEF Typed
<1>2. t \in BOOLEAN
  OBVIOUS
<1>3. deliveries' = [deliveries EXCEPT ![d] = row] /\ UNCHANGED rules
  BY DEF BecomeDue
<1> HIDE DEF t
<1>4. /\ row \in Delivery /\ row.status = deliveries[d].status
      /\ row.attempts = deliveries[d].attempts /\ row.rule = deliveries[d].rule
  BY <1>1, <1>2 DEF Delivery
<1> HIDE DEF row
<1>5. deliveries' \in Seq(Delivery) /\ Len(deliveries') = Len(deliveries)
      /\ DOMAIN deliveries' = DOMAIN deliveries
  BY <1>3, <1>4 DEF Typed
<1> QED BY <1>3, <1>4, <1>5 DEF Typed, Grown

-----------------------------------------------------------------------------
\* The passes go on as they are or are over; other transactions may change.
LEMMA OthersKeep ==
  ASSUME IInv, Grown, received' = [d \in Ids |-> received'[d]],
         txn' = [p \in Procs |-> txn'[p]],
         \A p \in Procs : \/ txn'[p] = txn[p]
                          \/ "phase" \in DOMAIN txn'[p] /\ txn'[p].phase \notin InPass
  PROVE  IInv'
<1>1. Typed'
  BY DEF IInv, Typed, Grown, Shape
<1>2. \A w \in Workers : Locked(w)' = {} \/ (Locked(w)' = Locked(w) /\ txn'[w] = txn[w])
  BY DEF Locked, InPass, Procs
<1>3. BatchIsOwn'
  <2>1. ASSUME NEW w \in Workers, NEW d \in Locked(w)'
        PROVE  d \in DOMAIN deliveries' /\ deliveries'[d].status \in Pending /\ Held(txn[w], d)'
    <3>1. d \in DOMAIN deliveries /\ deliveries[d].status \in Pending /\ Held(txn[w], d)
          /\ txn'[w] = txn[w]
      BY <1>2, <2>1 DEF IInv, BatchIsOwn
    <3> QED BY <3>1 DEF Grown, Held, Settles
  <2> QED BY <1>2, <2>1 DEF IInv, BatchIsOwn
<1>4. AttemptsLeft' /\ LiveRules'
  BY OutboxAssumption DEF IInv, Grown, AttemptsLeft, LiveRules
<1> QED BY <1>1, <1>3, <1>4 DEF IInv

LEMMA IdleShape == "phase" \in DOMAIN Idle /\ Idle.phase \notin InPass
BY DEF Idle, InPass

Elsewhere ==
  \/ \E p \in Producers :
       (\E matched \in SUBSET Rules : Match(p, matched)) \/ Enqueue(p) \/ EnqueueFails(p)
  \/ \E d \in DOMAIN deliveries : BecomeDue(d)
  \/ \E w \in Workers : Abort(w)
  \/ \E p \in Admins : \/ \E r \in Rules : RequestDeletion(p, r)
                       \/ LockAudit(p) \/ \E w \in Workers : BreakDeadlock(p, w)
  \/ UNCHANGED vars

LEMMA ElsewhereKeeps ==
  ASSUME IInv, Elsewhere
  PROVE  IInv' /\ Grown
<1>1. Typed /\ txn = [p \in Procs |-> txn[p]] /\ received = [d \in Ids |-> received[d]]
  BY DEF IInv, Typed
<1>2. Grown
  <2>1. ASSUME NEW p \in Producers, Enqueue(p) PROVE Grown
    BY <1>1, <2>1, EnqueueGrows DEF Procs
  <2>2. ASSUME NEW d \in DOMAIN deliveries, BecomeDue(d) PROVE Grown
    BY <1>1, <2>2, BecomeDueGrows
  <2>3. CASE UNCHANGED <<deliveries, rules>>
    BY <1>1, <2>3, SameIsGrown
  <2> QED BY <2>1, <2>2, <2>3 DEF Elsewhere, Match, EnqueueFails, Abort, RequestDeletion,
             LockAudit, BreakDeadlock, vars
<1>3. received' = [d \in Ids |-> received'[d]]
  <2>1. received' = received \/ \E d \in Ids : \E x : received' = [received EXCEPT ![d] = x]
    BY DEF Elsewhere, Match, Enqueue, EnqueueFails, BecomeDue, Abort, RequestDeletion,
       LockAudit, BreakDeadlock, vars
  <2> QED BY <1>1, <2>1
<1>4. UNCHANGED txn \/ \E p \in Procs : \E t : /\ Set(p, t) /\ "phase" \in DOMAIN t
                                                /\ t.phase \notin InPass
  <2>1. \A p, q : Set(p, Idle) => \E t : Set(p, t) /\ "phase" \in DOMAIN t /\ t.phase \notin InPass
    BY IdleShape
  <2>2. ASSUME NEW p \in Producers, NEW matched, Match(p, matched)
        PROVE  \E t : Set(p, t) /\ "phase" \in DOMAIN t /\ t.phase \notin InPass
    <3>1. Set(p, [phase |-> "insert", matched |-> matched])
      BY <2>2 DEF Match
    <3> QED BY <3>1 DEF InPass
  <2>3. ASSUME NEW p \in Admins, NEW r, RequestDeletion(p, r)
        PROVE  \E t : Set(p, t) /\ "phase" \in DOMAIN t /\ t.phase \notin InPass
    <3>1. Set(p, [phase |-> "delete", rule |-> r])
      BY <2>3 DEF RequestDeletion
    <3> QED BY <3>1 DEF InPass
  <2>4. ASSUME NEW p \in Admins, LockAudit(p)
        PROVE  \E t : Set(p, t) /\ "phase" \in DOMAIN t /\ t.phase \notin InPass
    <3>1. Shape(txn[p]) /\ Set(p, [txn[p] EXCEPT !.phase = "cascade"])
      BY <1>1, <2>4 DEF Typed, Procs, LockAudit
    <3>2. /\ "phase" \in DOMAIN [txn[p] EXCEPT !.phase = "cascade"]
          /\ [txn[p] EXCEPT !.phase = "cascade"].phase = "cascade"
      BY <3>1 DEF Shape
    <3> QED BY <3>1, <3>2 DEF InPass
  <2> QED BY <2>1, <2>2, <2>3, <2>4 DEF Elsewhere, Enqueue, EnqueueFails, BecomeDue, Abort,
             BreakDeadlock, Procs, vars
<1>5. /\ txn' = [p \in Procs |-> txn'[p]]
      /\ \A p \in Procs : \/ txn'[p] = txn[p]
                          \/ "phase" \in DOMAIN txn'[p] /\ txn'[p].phase \notin InPass
  BY <1>1, <1>4, Zenon DEF Set
<1> QED BY <1>2, <1>3, <1>5, OthersKeep

-----------------------------------------------------------------------------
(* Passes of the worker *)

\* Nobody else has what a pass selects.
LEMMA SelectKeeps ==
  ASSUME IInv, NEW w \in Workers, Select(w)
  PROVE  IInv'
<1> DEFINE rows == [d \in Batch(w) |-> deliveries[d]]
           t == [phase |-> "next", todo |-> Batch(w), log |-> <<>>, rows |-> rows]
<1>1. /\ txn = [p \in Procs |-> txn[p]] /\ Workers \subseteq Procs
      /\ UNCHANGED <<deliveries, rules, received>> /\ txn' = [txn EXCEPT ![w] = t]
  BY DEF IInv, Typed, Procs, Select, Set
<1>2. /\ Batch(w) \subseteq DOMAIN deliveries
      /\ \A d \in Batch(w) : /\ deliveries[d].status \in Pending
                             /\ \A v \in Workers \ {w} : d \notin Locked(v)
  BY DEF Batch, Selectable, Pending
<1>3. /\ "phase" \in DOMAIN t /\ t.phase = "next" /\ t.rows = rows /\ t.todo = Batch(w)
      /\ DOMAIN rows = Batch(w) /\ Shape(t)
  BY DEF Shape
<1> HIDE DEF t
<1>4. txn'[w] = t /\ \A p \in Procs \ {w} : txn'[p] = txn[p]
  BY <1>1
<1>5. Locked(w)' = Batch(w) /\ \A v \in Workers \ {w} : Locked(v)' = Locked(v)
  BY <1>1, <1>3, <1>4 DEF Locked
<1>6. Typed'
  BY <1>1, <1>3, <1>4 DEF IInv, Typed
<1>7. \A d \in Batch(w) : Held(txn[w], d)'
  BY <1>1, <1>2, <1>3, <1>4 DEF Held, IInv, Typed
<1>8. BatchIsOwn'
  <2>1. ASSUME NEW v \in Workers, NEW d \in Locked(v)', v # w
        PROVE  d \in DOMAIN deliveries' /\ deliveries'[d].status \in Pending /\ Held(txn[v], d)'
    BY <1>1, <1>4, <1>5, <2>1 DEF IInv, BatchIsOwn, Held, Settles
  <2> QED BY <1>1, <1>2, <1>5, <1>7, <2>1 DEF IInv, BatchIsOwn
<1> QED BY <1>1, <1>6, <1>8 DEF IInv, AttemptsLeft, LiveRules

\* A step of a pass settles what it has locked, or leaves it as it is.
LEMMA PassKeeps ==
  ASSUME IInv, NEW w \in Workers, txn[w].phase \in InPass, UNCHANGED <<deliveries, rules>>,
         received' = [d \in Ids |-> received'[d]],
         NEW t, txn' = [txn EXCEPT ![w] = t], Shape(t), t.phase \in InPass,
         DOMAIN t.rows = DOMAIN txn[w].rows, \A d \in DOMAIN t.rows : Held(t, d)
  PROVE  IInv'
<1>1. txn = [p \in Procs |-> txn[p]] /\ Workers \subseteq Procs
  BY DEF IInv, Typed, Procs
<1>2. txn'[w] = t /\ \A p \in Procs \ {w} : txn'[p] = txn[p]
  BY <1>1
<1>3. \A v \in Workers : Locked(v)' = Locked(v)
  BY <1>1, <1>2 DEF Locked, InPass
<1>4. Typed'
  BY <1>1, <1>2 DEF IInv, Typed
<1>5. \A d \in DOMAIN t.rows : Held(txn[w], d)'
  BY <1>2 DEF Held, Settles
<1>6. BatchIsOwn'
  <2>1. ASSUME NEW v \in Workers, NEW d \in Locked(v)', v # w
        PROVE  d \in DOMAIN deliveries' /\ deliveries'[d].status \in Pending /\ Held(txn[v], d)'
    <3>1. d \in Locked(v) /\ txn'[v] = txn[v] /\ deliveries' = deliveries
      BY <1>1, <1>2, <1>3, <2>1
    <3>2. d \in DOMAIN deliveries /\ deliveries[d].status \in Pending /\ Held(txn[v], d)
      BY <3>1 DEF IInv, BatchIsOwn
    <3> QED BY <3>1, <3>2 DEF Held, Settles
  <2>2. \A d \in Locked(w)' : d \in DOMAIN t.rows
    BY <1>2 DEF Locked, InPass
  <2> QED BY <1>3, <1>5, <2>1, <2>2 DEF IInv, BatchIsOwn
<1> QED BY <1>4, <1>6 DEF IInv, AttemptsLeft, LiveRules

\* What is first to do is settled by an answer.
LEMMA SendKeeps ==
  ASSUME IInv, NEW w \in Workers, NEW d \in DOMAIN deliveries, SendAccepted(w, d) \/ SendRefused(w, d)
  PROVE  IInv'
<1> DEFINE u == txn[w]
           was == deliveries[d]
           r == u.rows[d]
<1>1. /\ Shape(u) /\ u.phase = "next" /\ d \in u.todo /\ \A e \in u.todo : d <= e
      /\ UNCHANGED <<deliveries, rules>>
  BY DEF IInv, Typed, Procs, SendAccepted, SendRefused, Sending, First
<1>2. received' = [e \in Ids |-> received'[e]]
  BY DEF IInv, Typed, SendAccepted, SendRefused
<1>3. /\ \A e \in DOMAIN u.rows : Held(u, e) /\ deliveries[e].status \in Pending
      /\ d \in DOMAIN u.rows
  BY <1>1 DEF IInv, BatchIsOwn, Locked, Shape, InPass
<1>4. /\ r \in Delivery /\ r.rule = was.rule /\ r.attempts = was.attempts /\ r.attempts \in Nat
      /\ was.attempts < MaxAttempts
  <2>1. r \in Delivery
    BY <1>3 DEF Held
  <2>2. r.attempts \in Nat
    BY <2>1 DEF Delivery
  <2> QED BY <1>1, <1>3, <2>1, <2>2 DEF Held, IInv, AttemptsLeft
<1>5. ASSUME NEW row \in Delivery, row.rule = was.rule, Settles(row, was), NEW phase, NEW todo,
             \/ phase = "audit" /\ todo = u.todo
             \/ phase = "next" /\ todo = u.todo \ {d},
             txn' = [txn EXCEPT ![w] = [u EXCEPT !.rows = [u.rows EXCEPT ![d] = row],
                                          !.phase = phase, !.todo = todo]]
      PROVE  IInv'
  <2> DEFINE rows == [u.rows EXCEPT ![d] = row]
             t == [u EXCEPT !.rows = rows, !.phase = phase, !.todo = todo]
  <2>1. /\ rows = [e \in DOMAIN rows |-> rows[e]] /\ DOMAIN rows = DOMAIN u.rows
        /\ rows[d] = row /\ \A e \in DOMAIN u.rows \ {d} : rows[e] = u.rows[e]
    BY <1>1, <1>3 DEF Shape, InPass
  <2>2. /\ t.phase = phase /\ t.rows = rows /\ t.todo = todo
        /\ DOMAIN t = DOMAIN u
    <3> HIDE DEF rows
    <3> QED BY <1>1 DEF Shape, InPass
  <2>3. txn' = [txn EXCEPT ![w] = t]
    BY <1>5
  <2> HIDE DEF rows, t
  <2>4. Shape(t) /\ t.phase \in InPass
    BY <1>1, <1>5, <2>1, <2>2 DEF Shape, InPass
  <2>5. ASSUME NEW e \in DOMAIN t.rows PROVE Held(t, e)
    <3>1. CASE e = d
      BY <1>1, <1>5, <2>1, <2>2, <3>1 DEF Held
    <3>2. CASE e # d
      BY <1>1, <1>3, <1>5, <2>1, <2>2, <2>5, <3>2 DEF Held
    <3> QED BY <3>1, <3>2
  <2> QED BY <1>1, <1>2, <2>1, <2>2, <2>3, <2>4, <2>5, PassKeeps DEF InPass
<1>6. CASE SendAccepted(w, d)
  <2> DEFINE n == r.attempts + 1
             row == [r EXCEPT !.status = "delivered", !.attempts = n]
  <2>1. n \in Nat
    BY <1>4
  <2>2. txn' = [txn EXCEPT ![w] = [u EXCEPT !.rows = [u.rows EXCEPT ![d] = row],
                                     !.phase = "audit", !.todo = u.todo]]
    <3>1. row = DeliveredRow(r)
      BY DEF DeliveredRow
    <3> HIDE DEF row
    <3>2. txn' = [txn EXCEPT ![w] = [u EXCEPT !.rows = [u.rows EXCEPT ![d] = row],
                                       !.phase = "audit"]]
      BY <1>6, <3>1 DEF SendAccepted, Set
    <3>3. ASSUME NEW rows
          PROVE  [u EXCEPT !.rows = rows, !.phase = "audit"]
                   = [u EXCEPT !.rows = rows, !.phase = "audit", !.todo = u.todo]
      BY <1>1 DEF Shape, InPass
    <3> QED BY <3>2, <3>3
  <2>3. row \in Delivery /\ row.rule = was.rule /\ row.status = "delivered" /\ row.attempts = n
    <3> HIDE DEF n
    <3> QED BY <1>4, <2>1 DEF Delivery, Statuses
  <2>4. Settles(row, was)
    BY <1>4, <2>3 DEF Settles
  <2> HIDE DEF row, n
  <2> QED BY <1>5, <2>2, <2>3, <2>4
<1>7. CASE SendRefused(w, d)
  <2> DEFINE n == r.attempts + 1
             status == IF n >= MaxAttempts THEN "failed" ELSE "retrying"
             no == FALSE
             row == [r EXCEPT !.attempts = n, !.due = no, !.status = status]
             phase == IF row.status = "failed" THEN "audit" ELSE "next"
             todo == IF row.status = "failed" THEN u.todo ELSE u.todo \ {d}
  <2>1. n \in Nat /\ status \in Statuses /\ no \in BOOLEAN
    BY <1>4 DEF Statuses
  <2>2. row = Retry(r)
    BY DEF Retry
  <2>3. row \in Delivery /\ row.rule = was.rule /\ row.status = status /\ row.attempts = n
    <3> HIDE DEF n, status, no
    <3> QED BY <1>4, <2>1 DEF Delivery
  <2>4. Settles(row, was)
    <3> HIDE DEF row
    <3> QED BY <1>4, <2>3, OutboxAssumption DEF Settles
  <2> HIDE DEF row
  <2>5. txn' = [txn EXCEPT ![w] = [u EXCEPT !.rows = [u.rows EXCEPT ![d] = row],
                                     !.phase = phase, !.todo = todo]]
    BY <1>7, <2>2 DEF SendRefused, Set
  <2>6. \/ phase = "audit" /\ todo = u.todo
        \/ phase = "next" /\ todo = u.todo \ {d}
    OBVIOUS
  <2> HIDE DEF phase, todo, status, n, no
  <2> QED BY <1>5, <2>3, <2>4, <2>5, <2>6
<1> QED BY <1>6, <1>7

\* Its record written, a settled delivery is no longer to do.
LEMMA AuditKeeps ==
  ASSUME IInv, NEW w \in Workers, Audit(w)
  PROVE  IInv'
<1> DEFINE u == txn[w]
<1>1. PICK d \in u.todo :
        /\ \A e \in u.todo : d <= e
        /\ txn' = [txn EXCEPT ![w] = [u EXCEPT !.phase = "next", !.todo = u.todo \ {d},
             !.log = Append(u.log, [delivery |-> d, status |-> u.rows[d].status])]]
  BY DEF Audit, First, Set
<1>2. /\ Shape(u) /\ u.phase = "audit" /\ UNCHANGED <<deliveries, rules>>
      /\ received' = [e \in Ids |-> received'[e]]
  BY DEF IInv, Typed, Procs, Audit
<1>3. \A e \in DOMAIN u.rows : Held(u, e) /\ e \in Nat
  <2>1. \A e \in DOMAIN u.rows : Held(u, e) /\ e \in DOMAIN deliveries
    BY <1>2 DEF IInv, BatchIsOwn, Locked
  <2>2. \A e \in DOMAIN deliveries : e \in Nat
    BY DEF IInv, Typed
  <2> QED BY <2>1, <2>2
<1> DEFINE log == Append(u.log, [delivery |-> d, status |-> u.rows[d].status])
           t == [u EXCEPT !.phase = "next", !.todo = u.todo \ {d}, !.log = log]
<1>4. txn' = [txn EXCEPT ![w] = t]
  BY <1>1
<1> HIDE DEF log
<1>5. /\ t.phase = "next" /\ t.todo = u.todo \ {d} /\ t.rows = u.rows /\ DOMAIN t = DOMAIN u
  BY <1>2 DEF Shape, InPass
<1> HIDE DEF t
<1>6. Shape(t) /\ t.phase \in InPass
  BY <1>2, <1>5 DEF Shape, InPass
<1>7. ASSUME NEW e \in DOMAIN t.rows PROVE Held(t, e)
  <2>1. Held(u, e) /\ e \in Nat /\ d \in Nat
    BY <1>2, <1>3, <1>5, <1>7 DEF Shape, InPass
  <2>2. e \in u.todo /\ (\A f \in u.todo : e <= f) => e = d
    BY <1>1, <2>1
  <2> QED BY <1>2, <1>5, <2>1, <2>2 DEF Held
<1> QED BY <1>2, <1>4, <1>5, <1>6, <1>7, PassKeeps DEF InPass

\* What a commit does with the deliveries.
Settled ==
  /\ UNCHANGED rules
  /\ DOMAIN deliveries' = DOMAIN deliveries
  /\ \A d \in DOMAIN deliveries :
       \/ /\ deliveries'[d].status = deliveries[d].status
          /\ deliveries'[d].attempts = deliveries[d].attempts
       \/ deliveries[d].status \in Pending /\ Settles(deliveries'[d], deliveries[d])

LEMMA CommitKeeps ==
  ASSUME IInv, NEW w \in Workers, Commit(w)
  PROVE  IInv' /\ Settled
<1>1. /\ txn = [p \in Procs |-> txn[p]] /\ Workers \subseteq Procs
      /\ deliveries \in Seq(Delivery) /\ \A d \in DOMAIN deliveries : deliveries[d] \in Delivery
  BY DEF IInv, Typed, Procs
<1>2. /\ txn'[w] = Idle /\ txn' = [p \in Procs |-> txn'[p]]
      /\ \A p \in Procs \ {w} : txn'[p] = txn[p]
  BY <1>1 DEF Commit, Set
<1>3. Locked(w)' = {} /\ \A v \in Workers \ {w} : Locked(v)' = Locked(v)
  BY <1>1, <1>2 DEF Locked, Idle
<1>4. /\ deliveries' = [d \in DOMAIN deliveries |->
                          IF d \in Locked(w) THEN txn[w].rows[d] ELSE deliveries[d]]
      /\ UNCHANGED <<rules, received>>
  BY DEF Commit
<1>5. \A d \in Locked(w) : deliveries[d].status \in Pending /\ Held(txn[w], d)
  BY DEF IInv, BatchIsOwn
<1>6. Settled
  BY <1>4, <1>5 DEF Held, Settled
<1>7. deliveries' \in Seq(Delivery) /\ Len(deliveries') = Len(deliveries)
  <2>1. \A d \in DOMAIN deliveries : deliveries'[d] \in Delivery
    BY <1>1, <1>4, <1>5 DEF Held
  <2>2. deliveries' = [d \in DOMAIN deliveries |-> deliveries'[d]]
    BY <1>4
  <2> QED BY <1>1, <2>1, <2>2, RowsInOrder
<1>8. Typed'
  BY <1>2, <1>4, <1>7, IdleShape DEF IInv, Typed, Shape
<1>9. BatchIsOwn'
  <2>1. ASSUME NEW v \in Workers, NEW d \in Locked(v)'
        PROVE  /\ txn'[v] = txn[v] /\ d \in Locked(v) /\ d \in DOMAIN deliveries
               /\ deliveries'[d] = deliveries[d]
    BY <1>1, <1>2, <1>3, <1>4, <2>1 DEF IInv, BatchIsOwn
  <2>2. ASSUME NEW v \in Workers, NEW d \in Locked(v)'
        PROVE  d \in DOMAIN deliveries' /\ deliveries'[d].status \in Pending /\ Held(txn[v], d)'
    BY <1>4, <2>1, <2>2 DEF IInv, BatchIsOwn, Held
  <2> QED BY <1>3, <2>2 DEF IInv, BatchIsOwn
<1>10. \A d \in DOMAIN deliveries : /\ deliveries[d].attempts \in Nat
                                    /\ deliveries'[d].rule = deliveries[d].rule
  BY <1>1, <1>4, <1>5 DEF Held, Delivery
<1>11. AttemptsLeft'
  BY <1>6, <1>10 DEF IInv, AttemptsLeft, Settled, Settles, Pending
<1>12. LiveRules'
  <2> SUFFICES ASSUME NEW d \in DOMAIN deliveries, deliveries'[d].status # "removed"
               PROVE  deliveries[d].rule \in rules
    BY <1>4, <1>10 DEF LiveRules
  <2>1. deliveries[d].status # "removed"
    BY <1>6 DEF Settled, Pending
  <2> QED BY <2>1 DEF IInv, LiveRules
<1> QED BY <1>6, <1>8, <1>9, <1>11, <1>12 DEF IInv

-----------------------------------------------------------------------------
\* What the deletion of a rule does with the deliveries.
Thinned ==
  /\ DOMAIN deliveries' = DOMAIN deliveries
  /\ \A d \in DOMAIN deliveries :
       \/ deliveries'[d] = deliveries[d]
       \/ deliveries'[d].status = "removed" /\ deliveries'[d].attempts = 0

\* It waits for the passes that hold a delivery of the rule.
LEMMA DeleteRuleKeeps ==
  ASSUME IInv, NEW p \in Admins, DeleteRule(p)
  PROVE  IInv' /\ Thinned
<1> DEFINE r == txn[p].rule
           gone(d) == [deliveries[d] EXCEPT !.status = "removed", !.attempts = 0]
<1>1. /\ txn = [q \in Procs |-> txn[q]] /\ Workers \subseteq Procs /\ p \in Procs
      /\ deliveries \in Seq(Delivery) /\ \A d \in DOMAIN deliveries : deliveries[d] \in Delivery
  BY DEF IInv, Typed, Procs
<1>2. /\ rules' = rules \ {r} /\ UNCHANGED received /\ txn[p].phase = "cascade"
      /\ deliveries' = [d \in DOMAIN deliveries |->
                          IF deliveries[d].rule = r THEN gone(d) ELSE deliveries[d]]
  BY DEF DeleteRule
<1>3. ASSUME NEW d \in DOMAIN deliveries
      PROVE  /\ gone(d) \in Delivery /\ gone(d).status = "removed" /\ gone(d).attempts = 0
             /\ gone(d).rule = deliveries[d].rule
  BY <1>1 DEF Delivery, Statuses
<1> HIDE DEF gone
<1>4. /\ txn'[p] = Idle /\ txn' = [q \in Procs |-> txn'[q]]
      /\ \A q \in Procs \ {p} : txn'[q] = txn[q]
  BY <1>1 DEF DeleteRule, Set
<1>5. \A w \in Workers : /\ Locked(w)' = Locked(w)
                         /\ Locked(w) # {} => txn'[w] = txn[w]
  BY <1>1, <1>2, <1>4 DEF Locked, Idle
<1>6. \A w \in Workers : \A d \in Locked(w) : deliveries[d].rule # r
  BY DEF DeleteRule, AwaitedBy
<1>7. Thinned
  BY <1>2, <1>3 DEF Thinned
<1>8. deliveries' \in Seq(Delivery) /\ Len(deliveries') = Len(deliveries)
  <2>1. \A d \in DOMAIN deliveries : deliveries'[d] \in Delivery
    BY <1>1, <1>2, <1>3
  <2> QED BY <1>1, <1>2, <2>1
<1>9. Typed'
  BY <1>2, <1>4, <1>8, IdleShape DEF IInv, Typed, Shape
<1>10. BatchIsOwn'
  <2>1. ASSUME NEW w \in Workers, NEW d \in Locked(w)'
        PROVE  d \in DOMAIN deliveries' /\ deliveries'[d].status \in Pending /\ Held(txn[w], d)'
    <3>1. /\ txn'[w] = txn[w] /\ d \in Locked(w) /\ d \in DOMAIN deliveries
          /\ deliveries'[d] = deliveries[d]
      BY <1>2, <1>5, <1>6, <2>1 DEF IInv, BatchIsOwn
    <3> QED BY <1>2, <3>1 DEF IInv, BatchIsOwn, Held
  <2> QED BY <1>5, <2>1 DEF IInv, BatchIsOwn
<1>11. AttemptsLeft'
  BY <1>2, <1>3 DEF IInv, AttemptsLeft, Pending
<1>12. LiveRules'
  BY <1>2, <1>3 DEF IInv, LiveRules
<1> QED BY <1>7, <1>9, <1>10, <1>11, <1>12 DEF IInv

-----------------------------------------------------------------------------
LEMMA SameStaysGrown ==
  ASSUME IInv, UNCHANGED <<deliveries, rules>>
  PROVE  Grown
BY SameIsGrown DEF IInv

LEMMA Step == IInv /\ [Next]_vars => IInv' /\ (Grown \/ Settled \/ Thinned)
<1> SUFFICES ASSUME IInv, [Next]_vars PROVE IInv' /\ (Grown \/ Settled \/ Thinned)
  OBVIOUS
<1>1. ASSUME NEW w \in Workers, Pass(w) PROVE IInv' /\ (Grown \/ Settled)
  <2>1. CASE Select(w)
    BY <2>1, SelectKeeps, SameStaysGrown DEF Select
  <2>2. CASE Audit(w)
    BY <2>2, AuditKeeps, SameStaysGrown DEF Audit
  <2>3. CASE Commit(w)
    BY <2>3, CommitKeeps
  <2>4. ASSUME NEW d \in DOMAIN deliveries, SendAccepted(w, d) \/ SendRefused(w, d)
        PROVE  IInv' /\ Grown
    BY <2>4, SendKeeps, SameStaysGrown DEF SendAccepted, SendRefused
  <2> QED BY <1>1, <2>1, <2>2, <2>3, <2>4 DEF Pass
<1>2. ASSUME NEW p \in Admins, DeleteRule(p) PROVE IInv' /\ Thinned
  BY <1>2, DeleteRuleKeeps
<1>3. CASE Elsewhere
  BY <1>3, ElsewhereKeeps
<1> QED BY <1>1, <1>2, <1>3 DEF Next, Elsewhere, Deletion

LEMMA Invariant == Spec => []IInv
BY Initially, Step, PTL DEF Spec

\* A request is sent only for a rule that is there: a deletion waits for the
\* passes that have one of its deliveries.
THEOREM DeletedIsSilent == Spec => DeletedRulesAreSilent
<1> DEFINE Silent == \A d \in DOMAIN deliveries :
             received'[d] # received[d] => deliveries[d].rule \in rules
<1>1. IInv /\ [Next]_vars => [Silent]_vars
  <2> SUFFICES ASSUME IInv, Next, NEW d \in DOMAIN deliveries, received'[d] # received[d]
               PROVE  deliveries[d].rule \in rules
    BY DEF Silent
  <2>1. d \in Ids /\ received = [e \in Ids |-> received[e]]
    BY OutboxAssumption DEF IInv, Typed, Ids
  <2>2. PICK w \in Workers : Sending(w, d)
    BY <2>1 DEF Next, Match, Enqueue, EnqueueFails, BecomeDue, Pass, Select, Audit, Commit,
       SendAccepted, SendRefused, Abort, RequestDeletion, Deletion, LockAudit, DeleteRule, BreakDeadlock
  <2>3. d \in Locked(w)
    BY <2>2 DEF Sending, First, Locked, IInv, Typed, Procs, Shape, InPass
  <2> QED BY <2>3 DEF IInv, BatchIsOwn, LiveRules, Pending
<1>2. [][Silent]_vars => DeletedRulesAreSilent
  BY PTL DEF DeletedRulesAreSilent
<1> HIDE DEF Silent
<1> QED BY <1>1, <1>2, Invariant, PTL DEF Spec

-----------------------------------------------------------------------------
(* Refinement *)

\* Every delivery takes the step of a life.
LEMMA LifeStep == IInv /\ (Grown \/ Settled \/ Thinned) => [Lifecycle!Next]_(Lifecycle!vars)
<1> SUFFICES ASSUME IInv, Grown \/ Settled \/ Thinned, NEW d \in Ids
             PROVE  \/ /\ State(d) = "unborn" /\ State(d)' = "queued" /\ Attempts(d)' = 0
                    \/ /\ State(d) \in Pending /\ Attempts(d)' = Attempts(d) + 1
                       /\ \/ State(d)' = "delivered" /\ Attempts(d)' <= MaxAttempts
                          \/ State(d)' = "retrying" /\ Attempts(d)' < MaxAttempts
                          \/ State(d)' = "failed" /\ Attempts(d)' = MaxAttempts
                    \/ State(d) # "unborn" /\ State(d)' = "removed" /\ Attempts(d)' = 0
                    \/ State(d)' = State(d) /\ Attempts(d)' = Attempts(d)
  BY Zenon DEF Lifecycle!Next, Lifecycle!Enqueued, Lifecycle!Delivered, Lifecycle!Postponed,
     Lifecycle!Failed, Lifecycle!Removed, Lifecycle!Kept, Lifecycle!Pending, Pending
<1>1. CASE d \notin DOMAIN deliveries
  BY <1>1 DEF Grown, Settled, Thinned, State, Attempts
<1>2. CASE d \in DOMAIN deliveries
  <2>1. deliveries[d] \in Delivery
    BY <1>2 DEF IInv, Typed
  <2>2. deliveries[d].attempts \in Nat /\ deliveries[d].status # "unborn"
    BY <2>1 DEF Delivery, Statuses
  <2>3. deliveries[d].status \in Pending => deliveries[d].attempts < MaxAttempts
    BY <1>2 DEF IInv, AttemptsLeft
  <2>4. CASE Grown
    BY <1>2, <2>4 DEF Grown, State, Attempts
  <2>5. CASE Settled
    BY <1>2, <2>2, <2>3, <2>5, OutboxAssumption DEF Settled, Settles, State, Attempts
  <2>6. CASE Thinned
    BY <1>2, <2>2, <2>6 DEF Thinned, State, Attempts
  <2> QED BY <2>4, <2>5, <2>6
<1> QED BY <1>1, <1>2

\* The outbox keeps the promise of a delivery's life: an attempt counts once,
\* the last one decides, an end is final, and only a deletion removes it.
THEOREM DeliveriesLive == Spec => ImplementsLifecycle
<1>1. Init => Lifecycle!Init
  <2> SUFFICES ASSUME Init PROVE Lifecycle!Init
    OBVIOUS
  <2>1. \A d : d \notin DOMAIN deliveries
    BY DEF Init
  <2>2. \A d : State(d) = "unborn" /\ Attempts(d) = 0
    BY <2>1 DEF State, Attempts
  <2> QED BY <2>2 DEF Lifecycle!Init
<1>2. IInv /\ [Next]_vars => IInv' /\ [Lifecycle!Next]_(Lifecycle!vars)
  BY Step, LifeStep
<1> QED BY <1>1, <1>2, Initially, PTL DEF Spec, ImplementsLifecycle, Lifecycle!Spec

-----------------------------------------------------------------------------
(* The books.  What endpoints have received is covered by the attempts that  *)
(* the row counts, or the row of the pass that has it, and by the passes cut *)
(* off; the records of the audit log, and of the log a pass will add to it,  *)
(* are of different deliveries, which are as they say.                       *)

Ends == {"delivered", "failed"}

Received ==
  /\ received \in [Ids -> Nat] /\ failures \in Nat
  /\ \A d \in Ids \ DOMAIN deliveries : received[d] = 0
  /\ \A d \in DOMAIN deliveries : deliveries[d].status # "removed" =>
       /\ \A w \in Workers : d \in Locked(w) => received[d] <= txn[w].rows[d].attempts + failures
       /\ (\A w \in Workers : d \notin Locked(w)) => received[d] <= deliveries[d].attempts + failures

\* A log with one record for each delivery it is of.
Once(log) ==
  /\ log \in Seq(Outcome)
  /\ \A i, j \in DOMAIN log : log[i].delivery = log[j].delivery => i = j

Ledger ==
  /\ Once(auditLog)
  /\ \A i \in DOMAIN auditLog :
       LET d == auditLog[i].delivery
       IN  d \in DOMAIN deliveries /\ deliveries[d].status \in {auditLog[i].status, "removed"}
  /\ \A d \in DOMAIN deliveries :
       deliveries[d].status \in Ends => \E i \in DOMAIN auditLog : auditLog[i].delivery = d

\* The log of a pass is of what it is through with; what it has just settled
\* for good waits for its record.
Logged(t) ==
  /\ Once(t.log)
  /\ \A i \in DOMAIN t.log :
       LET d == t.log[i].delivery
       IN  d \in DOMAIN t.rows \ t.todo /\ t.rows[d].status = t.log[i].status
  /\ \A d \in DOMAIN t.rows \ t.todo :
       t.rows[d].status \in Ends => \E i \in DOMAIN t.log : t.log[i].delivery = d
  /\ t.phase = "audit" =>
       \A d \in t.todo : (\A e \in t.todo : d <= e) => t.rows[d].status \in Ends

Logs == \A w \in Workers : txn[w].phase \in InPass => Logged(txn[w])

Books == Received /\ Ledger /\ Logs

LEMMA BooksOpen == ASSUME Init PROVE Books
<1>1. \A w \in Workers : txn[w].phase \notin InPass /\ Locked(w) = {}
  BY DEF Init, Procs, Idle, InPass, Locked
<1>2. DOMAIN deliveries = {} /\ auditLog = <<>> /\ DOMAIN auditLog = {} /\ auditLog \in Seq(Outcome)
  BY DEF Init
<1>3. Received
  BY <1>2 DEF Init, Received
<1> QED BY <1>1, <1>2, <1>3 DEF Books, Ledger, Once, Logs

-----------------------------------------------------------------------------
\* What the books say of the deliveries.

LEMMA BooksTellOutcomes ==
  ASSUME IInv, Books
  PROVE  OutcomesAudited
<1> SUFFICES ASSUME NEW d \in DOMAIN deliveries
             PROVE  LET records == {i \in DOMAIN auditLog : auditLog[i].delivery = d}
                    IN  CASE deliveries[d].status \in {"delivered", "failed"} ->
                               /\ Cardinality(records) = 1
                               /\ \A i \in records : auditLog[i].status = deliveries[d].status
                          [] deliveries[d].status \in {"queued", "retrying"} -> records = {}
                          [] OTHER -> Cardinality(records) <= 1
  BY DEF OutcomesAudited
<1> DEFINE records == {i \in DOMAIN auditLog : auditLog[i].delivery = d}
<1>1. \A i, j \in records : i = j
  BY DEF Books, Ledger, Once
<1>2. \A i \in records : /\ deliveries[d].status \in {auditLog[i].status, "removed"}
                         /\ auditLog[i].status \in Ends
  <2>1. \A i \in DOMAIN auditLog : auditLog[i] \in Outcome
    BY DEF Books, Ledger, Once
  <2>2. \A o \in Outcome : o.status \in Ends
    BY DEF Outcome, Ends
  <2>3. \A i \in records : i \in DOMAIN auditLog /\ auditLog[i].delivery = d
    OBVIOUS
  <2>4. \A i \in DOMAIN auditLog : deliveries[auditLog[i].delivery].status \in {auditLog[i].status, "removed"}
    BY DEF Books, Ledger
  <2> QED BY <2>1, <2>2, <2>3, <2>4
<1>3. deliveries[d].status \in Ends => records # {}
  BY DEF Books, Ledger
<1> HIDE DEF records
<1>4. records = {} \/ \E i : records = {i}
  BY <1>1
<1>5. /\ records = {} => Cardinality(records) = 0
      /\ records # {} => Cardinality(records) = 1
  BY <1>4, FS_EmptySet, FS_Singleton
<1>6. deliveries[d].status \in Ends =>
        Cardinality(records) = 1 /\ \A i \in records : auditLog[i].status = deliveries[d].status
  BY <1>2, <1>3, <1>5 DEF Ends
<1>7. deliveries[d].status \in Pending => records = {}
  BY <1>2 DEF Ends, Pending
<1>8. Cardinality(records) <= 1
  BY <1>5
<1> QED BY <1>6, <1>7, <1>8 DEF records, Ends, Pending

LEMMA BooksBoundDuplicates ==
  ASSUME IInv, Books
  PROVE  DuplicatesOnlyFromFailures
<1> SUFFICES ASSUME NEW d \in DOMAIN deliveries, deliveries[d].status # "removed"
             PROVE  LET holder == {w \in Workers : d \in Locked(w)}
                        made == IF holder = {} THEN deliveries[d].attempts
                                ELSE txn[CHOOSE w \in holder : TRUE].rows[d].attempts
                    IN  received[d] <= made + failures
  BY DEF DuplicatesOnlyFromFailures
<1> DEFINE holder == {w \in Workers : d \in Locked(w)}
<1>1. CASE holder = {}
  BY <1>1 DEF Books, Received
<1>2. CASE holder # {}
  <2>1. (CHOOSE w \in holder : TRUE) \in holder
    BY <1>2
  <2> QED BY <1>2, <2>1 DEF Books, Received
<1> QED BY <1>1, <1>2

-----------------------------------------------------------------------------
LEMMA DeliveryNumbers ==
  ASSUME Typed
  PROVE  /\ DOMAIN deliveries \subseteq Ids /\ Ids \subseteq Nat
         /\ \A d \in DOMAIN deliveries : deliveries[d].attempts \in Nat
<1>1. DOMAIN deliveries = 1..Len(deliveries) /\ Len(deliveries) \in Nat /\ Len(deliveries) <= MaxDeliveries
  BY DEF Typed
<1>2. DOMAIN deliveries \subseteq Ids /\ Ids \subseteq Nat
  BY <1>1, OutboxAssumption DEF Ids
<1>3. \A d \in DOMAIN deliveries : deliveries[d] \in Delivery
  BY DEF Typed
<1> QED BY <1>2, <1>3 DEF Delivery

\* The row of a delivery that a pass holds counts attempts.
LEMMA HeldNumbers ==
  ASSUME IInv, NEW w \in Workers, NEW d \in Locked(w)
  PROVE  /\ d \in DOMAIN deliveries /\ d \in Ids /\ deliveries[d].status \in Pending
         /\ Held(txn[w], d) /\ txn[w].rows[d].attempts \in Nat
         /\ txn[w].rows[d].attempts <= deliveries[d].attempts + 1
<1>1. d \in DOMAIN deliveries /\ deliveries[d].status \in Pending /\ Held(txn[w], d)
  BY DEF IInv, BatchIsOwn
<1>2. d \in Ids /\ deliveries[d].attempts \in Nat
  BY <1>1, DeliveryNumbers DEF IInv
<1>3. txn[w].rows[d] \in Delivery
  BY <1>1 DEF Held
<1>4. txn[w].rows[d].attempts \in Nat
  BY <1>3 DEF Delivery
<1>5. txn[w].rows[d].attempts \in {deliveries[d].attempts, deliveries[d].attempts + 1}
  BY <1>1 DEF Held, Settles
<1> QED BY <1>1, <1>2, <1>4, <1>5

\* The audit log stays true to deliveries whose statuses stay.
LEMMA LedgerKept ==
  ASSUME Ledger, Grown, auditLog' = auditLog
  PROVE  Ledger'
<1>1. \A d \in DOMAIN deliveries' \ DOMAIN deliveries : deliveries'[d].status \notin Ends
  BY DEF Grown, Ends
<1> QED BY <1>1 DEF Ledger, Grown

\* Other transactions leave the books of passes alone.
LEMMA QuietKeepsBooks ==
  ASSUME IInv, Books, Grown, UNCHANGED <<received, failures, auditLog>>,
         \A p \in Procs : \/ txn'[p] = txn[p]
                          \/ txn[p].phase \notin InPass /\ txn'[p].phase \notin InPass
  PROVE  Books'
<1>1. \A w \in Workers : /\ Locked(w)' = Locked(w)
                         /\ Locked(w) # {} => txn'[w] = txn[w]
                         /\ txn'[w].phase \in InPass => txn'[w] = txn[w]
  BY DEF Locked, InPass, Procs
<1>2. Received'
  <2>1. /\ DOMAIN deliveries \subseteq Ids
        /\ \A d \in DOMAIN deliveries' \ DOMAIN deliveries : deliveries'[d].attempts = 0 /\ d \in Ids
    <3>1. DOMAIN deliveries' = 1..Len(deliveries') /\ Len(deliveries') \in Nat /\ Len(deliveries') <= MaxDeliveries
      BY DEF Grown
    <3>2. DOMAIN deliveries' \subseteq Ids
      BY <3>1, OutboxAssumption DEF Ids
    <3> QED BY <3>2, DeliveryNumbers DEF IInv, Grown
  <2>2. ASSUME NEW d \in DOMAIN deliveries', deliveries'[d].status # "removed"
        PROVE  /\ \A w \in Workers : d \in Locked(w)' => received'[d] <= txn'[w].rows[d].attempts + failures'
               /\ (\A w \in Workers : d \notin Locked(w)') => received'[d] <= deliveries'[d].attempts + failures'
    <3>1. CASE d \in DOMAIN deliveries
      BY <1>1, <2>2, <3>1 DEF Books, Received, Grown
    <3>2. CASE d \notin DOMAIN deliveries
      <4>1. \A w \in Workers : d \notin Locked(w)
        BY <3>2 DEF IInv, BatchIsOwn
      <4>2. received'[d] = 0 /\ deliveries'[d].attempts = 0 /\ failures' \in Nat
        BY <2>1, <2>2, <3>2 DEF Books, Received
      <4> QED BY <1>1, <4>1, <4>2
    <3> QED BY <3>1, <3>2
  <2> QED BY <2>1, <2>2 DEF Books, Received, Grown
<1>3. Ledger'
  BY LedgerKept DEF Books
<1>4. Logs'
  BY <1>1 DEF Books, Logs
<1> QED BY <1>2, <1>3, <1>4 DEF Books

\* A pass that is cut off forgets at most one attempt for each delivery it
\* holds, and is counted.
LEMMA CutOffKeepsBooks ==
  ASSUME IInv, Books, NEW w \in Workers, txn[w].phase \in InPass,
         txn' = [txn EXCEPT ![w] = Idle], failures' = failures + 1,
         UNCHANGED <<rules, deliveries, auditLog>>,
         \/ UNCHANGED received
         \/ \E d \in Ids : Sending(w, d) /\ received' = [received EXCEPT ![d] = @ + 1]
  PROVE  Books'
<1>1. /\ txn = [p \in Procs |-> txn[p]] /\ Workers \subseteq Procs
      /\ txn'[w] = Idle /\ \A p \in Procs \ {w} : txn'[p] = txn[p]
  BY DEF IInv, Typed, Procs
<1>2. Locked(w)' = {} /\ \A v \in Workers \ {w} : Locked(v)' = Locked(v)
  BY <1>1 DEF Locked, Idle
<1>3. /\ DOMAIN deliveries \subseteq Ids /\ \A d \in DOMAIN deliveries : deliveries[d].attempts \in Nat
      /\ received \in [Ids -> Nat] /\ failures \in Nat
  BY DeliveryNumbers DEF IInv, Books, Received
<1>4. \A d \in Ids : \/ received'[d] = received[d]
                     \/ Sending(w, d) /\ received'[d] = received[d] + 1
  BY <1>3
<1>5. received' \in [Ids -> Nat]
  BY <1>3
<1>6. \A d : Sending(w, d) => d \in Locked(w)
  BY <1>1 DEF Sending, First, Locked, IInv, Typed, Shape, InPass
<1>7. ASSUME NEW d \in DOMAIN deliveries, d \in Locked(w), deliveries[d].status # "removed"
      PROVE  received'[d] <= deliveries[d].attempts + failures'
  <2>1. /\ txn[w].rows[d].attempts \in Nat /\ Held(txn[w], d)
        /\ txn[w].rows[d].attempts <= deliveries[d].attempts + 1
    BY <1>7, HeldNumbers
  <2>2. received[d] <= txn[w].rows[d].attempts + failures
    BY <1>7 DEF Books, Received
  <2>3. CASE received'[d] = received[d]
    BY <1>3, <1>7, <2>1, <2>2, <2>3
  <2>4. CASE Sending(w, d) /\ received'[d] = received[d] + 1
    <3>1. txn[w].rows[d].attempts = deliveries[d].attempts
      BY <1>3, <1>7, <2>1, <2>4 DEF Held, Sending, First, Settles
    <3> QED BY <1>3, <1>7, <2>2, <2>4, <3>1
  <2> QED BY <1>3, <1>4, <1>7, <2>3, <2>4
<1>8. \A v \in Workers \ {w} : \A d \in Locked(v) : d \notin Locked(w)
  BY DEF IInv, BatchIsOwn
<1>9. Received'
  <2>1. \A d \in Ids \ DOMAIN deliveries' : received'[d] = 0
    <3> SUFFICES ASSUME NEW d \in Ids \ DOMAIN deliveries PROVE received'[d] = 0
      OBVIOUS
    <3>1. d \notin Locked(w)
      BY DEF IInv, BatchIsOwn
    <3> QED BY <1>4, <1>6, <3>1 DEF Books, Received
  <2>2. ASSUME NEW d \in DOMAIN deliveries, deliveries[d].status # "removed",
               NEW v \in Workers, d \in Locked(v)'
        PROVE  received'[d] <= txn'[v].rows[d].attempts + failures'
    <3>1. v # w /\ d \in Locked(v) /\ txn'[v] = txn[v] /\ d \notin Locked(w)
      BY <1>1, <1>2, <1>8, <2>2
    <3>2. received'[d] = received[d]
      BY <1>3, <1>4, <1>6, <2>2, <3>1
    <3>3. txn[v].rows[d].attempts \in Nat
      BY <3>1, HeldNumbers
    <3>4. received[d] <= txn[v].rows[d].attempts + failures
      BY <2>2, <3>1 DEF Books, Received
    <3> QED BY <1>3, <2>2, <3>1, <3>2, <3>3, <3>4
  <2>3. ASSUME NEW d \in DOMAIN deliveries, deliveries[d].status # "removed",
               \A v \in Workers : d \notin Locked(v)'
        PROVE  received'[d] <= deliveries[d].attempts + failures'
    <3>1. CASE d \in Locked(w)
      BY <1>7, <2>3, <3>1
    <3>2. CASE d \notin Locked(w)
      <4>1. \A v \in Workers : d \notin Locked(v)
        BY <1>2, <2>3, <3>2
      <4>2. received[d] <= deliveries[d].attempts + failures
        BY <2>3, <4>1 DEF Books, Received
      <4>3. received'[d] = received[d]
        BY <1>3, <1>4, <1>6, <2>3, <3>2
      <4> QED BY <1>3, <2>3, <4>2, <4>3
    <3> QED BY <3>1, <3>2
  <2>4. failures' \in Nat
    BY <1>3
  <2> QED BY <1>5, <2>1, <2>2, <2>3, <2>4 DEF Received
<1>10. Ledger' /\ Logs'
  BY <1>1, IdleShape DEF Books, Ledger, Logs
<1> QED BY <1>9, <1>10 DEF Books

LEMMA ElsewhereKeepsBooks ==
  ASSUME IInv, Books, Elsewhere
  PROVE  Books'
<1>1. /\ Grown /\ txn = [p \in Procs |-> txn[p]] /\ Workers \subseteq Procs
      /\ Producers \subseteq Procs /\ Admins \subseteq Procs
  BY ElsewhereKeeps DEF IInv, Typed, Procs
<1>2. ASSUME NEW p \in Procs, NEW t, t.phase \notin InPass, txn[p].phase \notin InPass,
             Set(p, t), UNCHANGED <<received, failures, auditLog>>
      PROVE  Books'
  <2>1. \A q \in Procs : txn'[q] = IF q = p THEN t ELSE txn[q]
    BY <1>1, <1>2 DEF Set
  <2> QED BY <1>1, <1>2, <2>1, QuietKeepsBooks
<1>3. ASSUME NEW p \in Producers, NEW matched, Match(p, matched) PROVE Books'
  <2> DEFINE t == [phase |-> "insert", matched |-> matched]
  <2>1. t.phase \notin InPass /\ txn[p].phase \notin InPass
    BY <1>3 DEF Match, Idle, InPass
  <2>2. Set(p, t) /\ UNCHANGED <<received, failures, auditLog>>
    BY <1>3 DEF Match
  <2> HIDE DEF t
  <2> QED BY <1>1, <1>2, <2>1, <2>2
<1>4. ASSUME NEW p \in Producers, Enqueue(p) \/ EnqueueFails(p) PROVE Books'
  <2>1. txn[p].phase \notin InPass /\ Set(p, Idle) /\ UNCHANGED <<received, failures, auditLog>>
    BY <1>4 DEF Enqueue, EnqueueFails, InPass
  <2> QED BY <1>1, <1>2, <2>1, IdleShape
<1>5. ASSUME NEW d \in DOMAIN deliveries, BecomeDue(d) PROVE Books'
  BY <1>1, <1>5, QuietKeepsBooks DEF BecomeDue
<1>6. ASSUME NEW w \in Workers, Abort(w) PROVE Books'
  BY <1>6, CutOffKeepsBooks DEF Abort, Set, InPass
<1>7. ASSUME NEW p \in Admins, NEW r, RequestDeletion(p, r) PROVE Books'
  <2> DEFINE t == [phase |-> "delete", rule |-> r]
  <2>1. t.phase \notin InPass /\ txn[p].phase \notin InPass
    BY <1>7 DEF RequestDeletion, Idle, InPass
  <2>2. Set(p, t) /\ UNCHANGED <<received, failures, auditLog>>
    BY <1>7 DEF RequestDeletion
  <2> HIDE DEF t
  <2> QED BY <1>1, <1>2, <2>1, <2>2
<1>8. ASSUME NEW p \in Admins, LockAudit(p) PROVE Books'
  <2> DEFINE t == [txn[p] EXCEPT !.phase = "cascade"]
  <2>1. t.phase \notin InPass /\ txn[p].phase \notin InPass
    BY <1>1, <1>8 DEF LockAudit, IInv, Typed, Shape, InPass
  <2>2. Set(p, t) /\ UNCHANGED <<received, failures, auditLog>>
    BY <1>8 DEF LockAudit
  <2> HIDE DEF t
  <2> QED BY <1>1, <1>2, <2>1, <2>2
<1>9. ASSUME NEW p \in Admins, NEW w \in Workers, BreakDeadlock(p, w) PROVE Books'
  <2>1. CASE Set(p, Idle) /\ UNCHANGED failures
    <3>1. txn[p].phase \notin InPass /\ UNCHANGED <<received, failures, auditLog>>
      BY <1>9, <2>1 DEF BreakDeadlock, Deadlocked, InPass
    <3> QED BY <1>1, <1>2, <2>1, <3>1, IdleShape
  <2>2. CASE failures' = failures + 1 /\ Set(w, Idle)
    BY <1>9, <2>2, CutOffKeepsBooks DEF BreakDeadlock, Deadlocked, Set, InPass
  <2> QED BY <1>9, <2>1, <2>2 DEF BreakDeadlock
<1>10. CASE UNCHANGED vars
  BY <1>1, <1>10, QuietKeepsBooks DEF vars
<1> QED BY <1>3, <1>4, <1>5, <1>6, <1>7, <1>8, <1>9, <1>10 DEF Elsewhere

-----------------------------------------------------------------------------
\* A pass takes its first step or one of its own, with nothing committed.
LEMMA PassKeepsBooks ==
  ASSUME IInv, Books, NEW w \in Workers,
         NEW t, txn' = [txn EXCEPT ![w] = t], t.phase \in InPass, Logged(t),
         UNCHANGED <<rules, deliveries, auditLog, failures>>, received' \in [Ids -> Nat],
         Locked(w) \subseteq DOMAIN t.rows, DOMAIN t.rows \subseteq DOMAIN deliveries,
         \A v \in Workers \ {w} : \A d \in DOMAIN t.rows : d \notin Locked(v),
         \A d \in Ids : received'[d] # received[d] => d \in DOMAIN t.rows,
         \A d \in DOMAIN t.rows : received'[d] <= t.rows[d].attempts + failures
  PROVE  Books'
<1>1. /\ txn = [p \in Procs |-> txn[p]] /\ Workers \subseteq Procs
      /\ txn'[w] = t /\ \A p \in Procs \ {w} : txn'[p] = txn[p]
  BY DEF IInv, Typed, Procs
<1>2. Locked(w)' = DOMAIN t.rows /\ \A v \in Workers \ {w} : Locked(v)' = Locked(v)
  BY <1>1 DEF Locked, InPass
<1>3. Received'
  <2>1. DOMAIN deliveries \subseteq Ids
    BY DeliveryNumbers DEF IInv
  <2>2. \A d \in Ids \ DOMAIN deliveries : received'[d] = 0
    BY DEF Books, Received
  <2>3. ASSUME NEW d \in DOMAIN deliveries, deliveries[d].status # "removed",
               NEW v \in Workers, d \in Locked(v)'
        PROVE  received'[d] <= txn'[v].rows[d].attempts + failures
    <3>1. CASE v = w
      BY <1>1, <1>2, <2>3, <3>1
    <3>2. CASE v # w
      <4>1. d \in Locked(v) /\ d \notin DOMAIN t.rows /\ txn'[v] = txn[v]
        BY <1>1, <1>2, <2>3, <3>2
      <4>2. received'[d] = received[d]
        BY <2>1, <2>3, <4>1
      <4> QED BY <2>3, <4>1, <4>2 DEF Books, Received
    <3> QED BY <3>1, <3>2
  <2>4. ASSUME NEW d \in DOMAIN deliveries, deliveries[d].status # "removed",
               \A v \in Workers : d \notin Locked(v)'
        PROVE  received'[d] <= deliveries[d].attempts + failures
    <3>1. \A v \in Workers : d \notin Locked(v)
      BY <1>2, <2>4
    <3>2. received'[d] = received[d]
      BY <1>2, <2>1, <2>4
    <3> QED BY <2>4, <3>1, <3>2 DEF Books, Received
  <2> QED BY <2>2, <2>3, <2>4 DEF Books, Received
<1>4. Ledger' /\ Logs'
  BY <1>1 DEF Books, Ledger, Logs
<1> QED BY <1>3, <1>4 DEF Books

LEMMA SelectKeepsBooks ==
  ASSUME IInv, Books, NEW w \in Workers, Select(w)
  PROVE  Books'
<1> DEFINE rows == [d \in Batch(w) |-> deliveries[d]]
           t == [phase |-> "next", todo |-> Batch(w), log |-> <<>>, rows |-> rows]
<1>1. /\ txn[w] = Idle /\ txn' = [txn EXCEPT ![w] = t]
      /\ UNCHANGED <<rules, deliveries, auditLog, failures, received>>
  BY DEF Select, Set
<1>2. /\ Batch(w) \subseteq DOMAIN deliveries
      /\ \A d \in Batch(w) : /\ deliveries[d].status \in Pending
                             /\ \A v \in Workers \ {w} : d \notin Locked(v)
  BY DEF Batch, Selectable, Pending
<1>3. Locked(w) = {}
  BY <1>1 DEF Locked, Idle
<1>4. /\ t.phase = "next" /\ t.rows = rows /\ t.todo = Batch(w) /\ t.log = <<>>
      /\ DOMAIN rows = Batch(w) /\ \A d \in Batch(w) : rows[d] = deliveries[d]
  OBVIOUS
<1>5. <<>> \in Seq(Outcome) /\ DOMAIN <<>> = {}
  OBVIOUS
<1> HIDE DEF t, rows
<1>6. Logged(t)
  BY <1>4, <1>5 DEF Logged, Once
<1>7. \A d \in Batch(w) : received[d] <= t.rows[d].attempts + failures
  <2> SUFFICES ASSUME NEW d \in Batch(w) PROVE received[d] <= deliveries[d].attempts + failures
    BY <1>4
  <2>1. (\A v \in Workers : d \notin Locked(v)) /\ deliveries[d].status # "removed" /\ d \in DOMAIN deliveries
    BY <1>2, <1>3 DEF Pending
  <2> QED BY <2>1 DEF Books, Received
<1>8. received' \in [Ids -> Nat]
  BY <1>1 DEF Books, Received
<1> QED BY <1>1, <1>2, <1>3, <1>4, <1>6, <1>7, <1>8, PassKeepsBooks DEF InPass

\* The delivery that is settled is not in the log yet.
LEMMA SendKeepsBooks ==
  ASSUME IInv, Books, NEW w \in Workers, NEW d \in DOMAIN deliveries,
         SendAccepted(w, d) \/ SendRefused(w, d)
  PROVE  Books'
<1> DEFINE u == txn[w]
           r == u.rows[d]
<1>1. /\ Shape(u) /\ u.phase = "next" /\ d \in u.todo /\ \A e \in u.todo : d <= e
      /\ UNCHANGED <<rules, deliveries, auditLog, failures>>
      /\ Locked(w) = DOMAIN u.rows /\ d \in DOMAIN u.rows
  BY DEF IInv, Typed, Procs, SendAccepted, SendRefused, Sending, First, Shape, InPass, Locked
<1>2. /\ received \in [Ids -> Nat] /\ failures \in Nat /\ d \in Ids /\ Logged(u)
      /\ r \in Delivery /\ r.attempts \in Nat
  BY <1>1, HeldNumbers DEF Books, Received, Logs, Held, InPass
<1>3. received' = received \/ received' = [received EXCEPT ![d] = @ + 1]
  BY DEF SendAccepted, SendRefused
<1>4. /\ received' \in [Ids -> Nat] /\ received'[d] <= received[d] + 1
      /\ \A e \in Ids : e # d => received'[e] = received[e]
  BY <1>2, <1>3
<1>5. \A e \in DOMAIN u.rows : /\ e \in DOMAIN deliveries /\ e \in Ids
                              /\ received[e] <= u.rows[e].attempts + failures
                              /\ \A v \in Workers \ {w} : e \notin Locked(v)
  <2> SUFFICES ASSUME NEW e \in Locked(w)
               PROVE  /\ e \in DOMAIN deliveries /\ e \in Ids
                      /\ received[e] <= u.rows[e].attempts + failures
                      /\ \A v \in Workers \ {w} : e \notin Locked(v)
    BY <1>1
  <2>1. e \in DOMAIN deliveries /\ e \in Ids /\ deliveries[e].status # "removed"
    BY HeldNumbers DEF Pending
  <2>2. received[e] <= u.rows[e].attempts + failures
    BY <2>1 DEF Books, Received
  <2>3. \A v \in Workers \ {w} : e \notin Locked(v)
    BY DEF IInv, BatchIsOwn
  <2> QED BY <2>1, <2>2, <2>3
<1>6. ASSUME NEW row, row.attempts = r.attempts + 1, NEW phase, NEW todo,
             \/ phase = "audit" /\ todo = u.todo /\ row.status \in Ends
             \/ phase = "next" /\ todo = u.todo \ {d} /\ row.status \notin Ends,
             txn' = [txn EXCEPT ![w] = [u EXCEPT !.rows = [u.rows EXCEPT ![d] = row],
                                          !.phase = phase, !.todo = todo]]
      PROVE  Books'
  <2> DEFINE rows == [u.rows EXCEPT ![d] = row]
             t == [u EXCEPT !.rows = rows, !.phase = phase, !.todo = todo]
  <2>1. /\ DOMAIN rows = DOMAIN u.rows
        /\ rows[d] = row /\ \A e \in DOMAIN u.rows \ {d} : rows[e] = u.rows[e]
    BY <1>1 DEF Shape, InPass
  <2>2. t.phase = phase /\ t.rows = rows /\ t.todo = todo /\ t.log = u.log
    <3> HIDE DEF rows
    <3> QED BY <1>1 DEF Shape, InPass
  <2>3. txn' = [txn EXCEPT ![w] = t]
    BY <1>6
  <2> HIDE DEF rows, t
  <2>4. Logged(t)
    <3>1. Once(t.log) /\ \A i \in DOMAIN t.log : t.log[i].delivery \in DOMAIN u.rows \ u.todo
      BY <1>2, <2>2 DEF Logged
    <3>2. ASSUME NEW i \in DOMAIN t.log
          PROVE  LET e == t.log[i].delivery
                 IN  e \in DOMAIN t.rows \ t.todo /\ t.rows[e].status = t.log[i].status
      <4>1. /\ t.log[i].delivery \in DOMAIN u.rows \ u.todo
            /\ u.rows[t.log[i].delivery].status = t.log[i].status
        BY <1>2, <2>2 DEF Logged
      <4> QED BY <1>1, <1>6, <2>1, <2>2, <4>1
    <3>3. ASSUME NEW e \in DOMAIN t.rows \ t.todo, t.rows[e].status \in Ends
          PROVE  \E i \in DOMAIN t.log : t.log[i].delivery = e
      <4>1. e # d
        BY <1>1, <1>6, <2>1, <2>2, <3>3
      <4>2. e \in DOMAIN u.rows \ u.todo /\ u.rows[e].status \in Ends
        BY <1>6, <2>1, <2>2, <3>3, <4>1
      <4> QED BY <1>2, <2>2, <4>2 DEF Logged
    <3>4. ASSUME t.phase = "audit", NEW e \in t.todo, \A f \in t.todo : e <= f
          PROVE  t.rows[e].status \in Ends
      <4>1. todo = u.todo /\ row.status \in Ends
        BY <1>6, <2>2, <3>4
      <4>2. e = d
        <5>1. e \in Nat /\ d \in Nat
          BY <1>1, <1>5, <2>2, <3>4, <4>1, DeliveryNumbers DEF Shape, InPass, IInv
        <5>2. e <= d /\ d <= e
          BY <1>1, <2>2, <3>4, <4>1
        <5> QED BY <5>1, <5>2
      <4> QED BY <2>1, <2>2, <4>1, <4>2
    <3> QED BY <3>1, <3>2, <3>3, <3>4 DEF Logged
  <2>5. \A e \in DOMAIN t.rows : received'[e] <= t.rows[e].attempts + failures
    <3> SUFFICES ASSUME NEW e \in DOMAIN u.rows PROVE received'[e] <= rows[e].attempts + failures
      BY <2>1, <2>2
    <3>1. CASE e = d
      BY <1>1, <1>2, <1>4, <1>5, <1>6, <2>1, <3>1
    <3>2. CASE e # d
      BY <1>4, <1>5, <2>1, <3>2
    <3> QED BY <3>1, <3>2
  <2>6. \A e \in Ids : received'[e] # received[e] => e \in DOMAIN t.rows
    BY <1>1, <1>4, <2>1, <2>2
  <2>7. t.phase \in InPass /\ DOMAIN t.rows = DOMAIN u.rows
    BY <1>6, <2>1, <2>2 DEF InPass
  <2> HIDE DEF u
  <2> QED BY <1>1, <1>4, <1>5, <2>3, <2>4, <2>5, <2>6, <2>7, PassKeepsBooks
<1>7. CASE SendAccepted(w, d)
  <2> DEFINE n == r.attempts + 1
             row == [r EXCEPT !.status = "delivered", !.attempts = n]
  <2>1. row.status = "delivered" /\ row.attempts = n
    <3> HIDE DEF n
    <3> QED BY <1>2 DEF Delivery
  <2>2. txn' = [txn EXCEPT ![w] = [u EXCEPT !.rows = [u.rows EXCEPT ![d] = row],
                                     !.phase = "audit", !.todo = u.todo]]
    <3>1. row = DeliveredRow(r)
      BY DEF DeliveredRow
    <3> HIDE DEF row
    <3>2. txn' = [txn EXCEPT ![w] = [u EXCEPT !.rows = [u.rows EXCEPT ![d] = row],
                                       !.phase = "audit"]]
      BY <1>7, <3>1 DEF SendAccepted, Set
    <3>3. ASSUME NEW rows
          PROVE  [u EXCEPT !.rows = rows, !.phase = "audit"]
                   = [u EXCEPT !.rows = rows, !.phase = "audit", !.todo = u.todo]
      BY <1>1 DEF Shape, InPass
    <3> QED BY <3>2, <3>3
  <2> HIDE DEF row
  <2> QED BY <1>6, <2>1, <2>2 DEF Ends
<1>8. CASE SendRefused(w, d)
  <2> DEFINE n == r.attempts + 1
             status == IF n >= MaxAttempts THEN "failed" ELSE "retrying"
             no == FALSE
             row == [r EXCEPT !.attempts = n, !.due = no, !.status = status]
             phase == IF row.status = "failed" THEN "audit" ELSE "next"
             todo == IF row.status = "failed" THEN u.todo ELSE u.todo \ {d}
  <2>1. row = Retry(r)
    BY DEF Retry
  <2>2. status \in {"failed", "retrying"}
    OBVIOUS
  <2>3. row.status = status /\ row.attempts = n
    <3> HIDE DEF n, status, no
    <3> QED BY <1>2 DEF Delivery
  <2> HIDE DEF row
  <2>4. txn' = [txn EXCEPT ![w] = [u EXCEPT !.rows = [u.rows EXCEPT ![d] = row],
                                     !.phase = phase, !.todo = todo]]
    BY <1>8, <2>1 DEF SendRefused, Set
  <2>5. \/ phase = "audit" /\ todo = u.todo /\ row.status \in Ends
        \/ phase = "next" /\ todo = u.todo \ {d} /\ row.status \notin Ends
    BY <2>2, <2>3 DEF Ends
  <2> HIDE DEF phase, todo, status, no
  <2> QED BY <1>6, <2>3, <2>4, <2>5
<1> QED BY <1>7, <1>8

\* A record of a delivery that a log does not have yet.
LEMMA AppendOnce ==
  ASSUME NEW log, Once(log), NEW o \in Outcome, \A i \in DOMAIN log : log[i].delivery # o.delivery
  PROVE  LET longer == Append(log, o)
         IN  /\ Once(longer) /\ DOMAIN longer = DOMAIN log \cup {Len(log) + 1}
             /\ longer[Len(log) + 1] = o /\ \A i \in DOMAIN log : longer[i] = log[i]
<1> DEFINE longer == Append(log, o)
<1>1. log \in Seq(Outcome) /\ Len(log) \in Nat /\ DOMAIN log = 1..Len(log)
  BY DEF Once
<1>2. /\ longer \in Seq(Outcome) /\ DOMAIN longer = 1..(Len(log) + 1)
      /\ longer[Len(log) + 1] = o /\ \A i \in 1..Len(log) : longer[i] = log[i]
  BY <1>1
<1> HIDE DEF longer
<1>3. DOMAIN longer = DOMAIN log \cup {Len(log) + 1}
  BY <1>1, <1>2
<1>4. Once(longer)
  BY <1>1, <1>2, <1>3 DEF Once
<1> QED BY <1>1, <1>2, <1>3, <1>4 DEF longer

LEMMA AuditKeepsBooks ==
  ASSUME IInv, Books, NEW w \in Workers, Audit(w)
  PROVE  Books'
<1> DEFINE u == txn[w]
<1>1. PICK d \in u.todo :
        /\ \A e \in u.todo : d <= e
        /\ txn' = [txn EXCEPT ![w] = [u EXCEPT !.phase = "next", !.todo = u.todo \ {d},
             !.log = Append(u.log, [delivery |-> d, status |-> u.rows[d].status])]]
  BY DEF Audit, First, Set
<1>2. /\ Shape(u) /\ u.phase = "audit" /\ UNCHANGED <<rules, deliveries, auditLog, failures, received>>
      /\ Locked(w) = DOMAIN u.rows /\ d \in DOMAIN u.rows /\ Logged(u)
  BY <1>1 DEF IInv, Typed, Procs, Audit, Shape, InPass, Locked, Books, Logs
<1>3. d \in Ids /\ u.rows[d].status \in Ends
  BY <1>1, <1>2, HeldNumbers DEF Logged
<1> DEFINE o == [delivery |-> d, status |-> u.rows[d].status]
           log == Append(u.log, o)
           t == [u EXCEPT !.phase = "next", !.todo = u.todo \ {d}, !.log = log]
<1>4. txn' = [txn EXCEPT ![w] = t]
  BY <1>1
<1>5. o \in Outcome /\ o.delivery = d /\ o.status = u.rows[d].status
  BY <1>3 DEF Outcome, Ends
<1> HIDE DEF o
<1>6. /\ Once(log) /\ DOMAIN log = DOMAIN u.log \cup {Len(u.log) + 1}
      /\ log[Len(u.log) + 1] = o /\ \A i \in DOMAIN u.log : log[i] = u.log[i]
  <2>1. \A i \in DOMAIN u.log : u.log[i].delivery # o.delivery
    BY <1>1, <1>2, <1>5 DEF Logged
  <2> QED BY <1>2, <1>5, <2>1, AppendOnce DEF Logged
<1> HIDE DEF log
<1>7. /\ t.phase = "next" /\ t.todo = u.todo \ {d} /\ t.rows = u.rows /\ t.log = log
  BY <1>2 DEF Shape, InPass
<1> HIDE DEF t
<1>8. Logged(t)
  <2>1. ASSUME NEW i \in DOMAIN t.log
        PROVE  LET e == t.log[i].delivery
               IN  e \in DOMAIN t.rows \ t.todo /\ t.rows[e].status = t.log[i].status
    <3>1. CASE i = Len(u.log) + 1
      BY <1>2, <1>5, <1>6, <1>7, <3>1
    <3>2. CASE i \in DOMAIN u.log
      BY <1>2, <1>6, <1>7, <3>2 DEF Logged
    <3> QED BY <1>6, <1>7, <2>1, <3>1, <3>2
  <2>2. ASSUME NEW e \in DOMAIN t.rows \ t.todo, t.rows[e].status \in Ends
        PROVE  \E i \in DOMAIN t.log : t.log[i].delivery = e
    <3>1. CASE e = d
      BY <1>5, <1>6, <1>7, <3>1
    <3>2. CASE e # d
      <4>1. PICK i \in DOMAIN u.log : u.log[i].delivery = e
        BY <1>2, <1>7, <2>2, <3>2 DEF Logged
      <4> QED BY <1>6, <1>7, <4>1
    <3> QED BY <3>1, <3>2
  <2> QED BY <1>6, <1>7, <2>1, <2>2 DEF Logged
<1>9. \A e \in DOMAIN u.rows : /\ e \in DOMAIN deliveries
                              /\ received[e] <= u.rows[e].attempts + failures
                              /\ \A v \in Workers \ {w} : e \notin Locked(v)
  <2> SUFFICES ASSUME NEW e \in Locked(w)
               PROVE  /\ e \in DOMAIN deliveries
                      /\ received[e] <= u.rows[e].attempts + failures
                      /\ \A v \in Workers \ {w} : e \notin Locked(v)
    BY <1>2
  <2>1. e \in DOMAIN deliveries /\ deliveries[e].status # "removed"
    BY HeldNumbers DEF Pending
  <2>2. received[e] <= u.rows[e].attempts + failures
    BY <2>1 DEF Books, Received
  <2>3. \A v \in Workers \ {w} : e \notin Locked(v)
    BY DEF IInv, BatchIsOwn
  <2> QED BY <2>1, <2>2, <2>3
<1>10. received' \in [Ids -> Nat]
  BY <1>2 DEF Books, Received
<1> HIDE DEF u
<1> QED BY <1>2, <1>4, <1>7, <1>8, <1>9, <1>10, PassKeepsBooks DEF InPass

\* Two logs of different deliveries.
Apart(a, b) == \A i \in DOMAIN a, j \in DOMAIN b : a[i].delivery # b[j].delivery

LEMMA ConcatOnce ==
  ASSUME NEW a, NEW b, Once(a), Once(b), Apart(a, b)
  PROVE  /\ Once(a \o b)
         /\ \A k \in DOMAIN (a \o b) : \/ \E i \in DOMAIN a : (a \o b)[k] = a[i]
                                       \/ \E j \in DOMAIN b : (a \o b)[k] = b[j]
         /\ \A i \in DOMAIN a : \E k \in DOMAIN (a \o b) : (a \o b)[k] = a[i]
         /\ \A j \in DOMAIN b : \E k \in DOMAIN (a \o b) : (a \o b)[k] = b[j]
<1> DEFINE c == a \o b
           m == Len(a)
           n == Len(b)
<1>1. /\ a \in Seq(Outcome) /\ b \in Seq(Outcome) /\ m \in Nat /\ n \in Nat
      /\ DOMAIN a = 1..m /\ DOMAIN b = 1..n
  BY DEF Once
<1>2. /\ c \in Seq(Outcome) /\ DOMAIN c = 1..(m + n)
      /\ \A k \in 1..(m + n) : c[k] = IF k <= m THEN a[k] ELSE b[k - m]
  BY <1>1
<1> HIDE DEF c, m, n
<1>3. \A k \in 1..(m + n) : \/ k \in DOMAIN a /\ c[k] = a[k]
                            \/ k - m \in DOMAIN b /\ c[k] = b[k - m]
  <2> SUFFICES ASSUME NEW k \in 1..(m + n)
               PROVE  \/ k \in DOMAIN a /\ c[k] = a[k]
                      \/ k - m \in DOMAIN b /\ c[k] = b[k - m]
    OBVIOUS
  <2>1. CASE k <= m
    BY <1>1, <1>2, <2>1
  <2>2. CASE ~(k <= m)
    <3>1. k - m \in 1..n
      BY <1>1, <2>2
    <3> QED BY <1>1, <1>2, <2>2, <3>1
  <2> QED BY <2>1, <2>2
<1>4. \A i \in DOMAIN a : i \in 1..(m + n) /\ c[i] = a[i]
  BY <1>1, <1>2
<1>5. \A j \in DOMAIN b : m + j \in 1..(m + n) /\ c[m + j] = b[j]
  <2> SUFFICES ASSUME NEW j \in 1..n PROVE m + j \in 1..(m + n) /\ c[m + j] = b[j]
    BY <1>1
  <2>1. m + j \in 1..(m + n) /\ ~(m + j <= m) /\ (m + j) - m = j
    BY <1>1
  <2> QED BY <1>2, <2>1
<1>6. ASSUME NEW k \in 1..(m + n), NEW l \in 1..(m + n), c[k].delivery = c[l].delivery
      PROVE  k = l
  <2>0. \A i \in DOMAIN a, j \in DOMAIN b : a[i].delivery # b[j].delivery
    BY DEF Apart
  <2>1. CASE k \in DOMAIN a /\ c[k] = a[k] /\ l \in DOMAIN a /\ c[l] = a[l]
    BY <1>6, <2>1 DEF Once
  <2>2. CASE k - m \in DOMAIN b /\ c[k] = b[k - m] /\ l - m \in DOMAIN b /\ c[l] = b[l - m]
    <3>1. k - m = l - m
      BY <1>6, <2>2 DEF Once
    <3> QED BY <1>1, <1>6, <3>1
  <2> QED BY <1>3, <1>6, <2>0, <2>1, <2>2
<1>7. Once(c)
  BY <1>2, <1>6 DEF Once
<1> QED BY <1>2, <1>3, <1>4, <1>5, <1>7 DEF c

\* A pass commits what it has settled with the records of it.
LEMMA CommitKeepsBooks ==
  ASSUME IInv, Books, NEW w \in Workers, Commit(w)
  PROVE  Books'
<1> DEFINE u == txn[w]
<1>1. /\ txn = [p \in Procs |-> txn[p]] /\ Workers \subseteq Procs
      /\ u.phase = "next" /\ u.todo = {} /\ Locked(w) = DOMAIN u.rows /\ Logged(u)
      /\ txn' = [txn EXCEPT ![w] = Idle] /\ UNCHANGED <<rules, received, failures>>
      /\ auditLog' = auditLog \o u.log
      /\ deliveries' = [d \in DOMAIN deliveries |->
                          IF d \in Locked(w) THEN u.rows[d] ELSE deliveries[d]]
  BY DEF IInv, Typed, Procs, Commit, Set, Locked, Books, Logs, InPass
<1>2. txn'[w] = Idle /\ \A p \in Procs \ {w} : txn'[p] = txn[p]
  BY <1>1
<1>3. Locked(w)' = {} /\ \A v \in Workers \ {w} : Locked(v)' = Locked(v)
  BY <1>1, <1>2 DEF Locked, Idle
<1>4. \A d \in Locked(w) : /\ d \in DOMAIN deliveries /\ deliveries[d].status \in Pending
                           /\ deliveries'[d] = u.rows[d]
                           /\ \A v \in Workers \ {w} : d \notin Locked(v)
  BY <1>1 DEF IInv, BatchIsOwn
<1>5. \A d \in DOMAIN deliveries \ Locked(w) : deliveries'[d] = deliveries[d]
  BY <1>1
<1>6. DOMAIN deliveries' = DOMAIN deliveries
  BY <1>1
<1> HIDE DEF u
<1>7. Received'
  <2> SUFFICES ASSUME NEW d \in DOMAIN deliveries, deliveries'[d].status # "removed"
               PROVE  /\ \A v \in Workers : d \in Locked(v)' => received[d] <= txn'[v].rows[d].attempts + failures
                      /\ (\A v \in Workers : d \notin Locked(v)') => received[d] <= deliveries'[d].attempts + failures
    BY <1>1, <1>6 DEF Books, Received
  <2>1. CASE d \in Locked(w)
    <3>1. \A v \in Workers : d \notin Locked(v)'
      BY <1>3, <1>4, <2>1
    <3>2. received[d] <= u.rows[d].attempts + failures
      BY <1>4, <2>1 DEF Books, Received, Pending, u
    <3> QED BY <1>4, <2>1, <3>1, <3>2
  <2>2. CASE d \notin Locked(w)
    <3>1. deliveries'[d] = deliveries[d] /\ deliveries[d].status # "removed"
      BY <1>5, <2>2
    <3>2. \A v \in Workers : d \in Locked(v)' => txn'[v] = txn[v] /\ d \in Locked(v)
      BY <1>1, <1>2, <1>3
    <3>3. (\A v \in Workers : d \notin Locked(v)') => \A v \in Workers : d \notin Locked(v)
      BY <1>3, <2>2
    <3> QED BY <3>1, <3>2, <3>3 DEF Books, Received
  <2> QED BY <2>1, <2>2
<1>8. /\ \A j \in DOMAIN u.log : LET d == u.log[j].delivery
                                IN  d \in Locked(w) /\ u.rows[d].status = u.log[j].status
      /\ \A i \in DOMAIN auditLog :
           LET d == auditLog[i].delivery
           IN  d \in DOMAIN deliveries /\ deliveries[d].status \in {auditLog[i].status, "removed"}
      /\ \A i \in DOMAIN auditLog : auditLog[i].status \in Ends
      /\ Once(auditLog) /\ Once(u.log)
  <2>1. \A i \in DOMAIN auditLog : auditLog[i] \in Outcome
    BY DEF Books, Ledger, Once
  <2>2. \A o \in Outcome : o.status \in Ends
    BY DEF Outcome, Ends
  <2> QED BY <1>1, <2>1, <2>2 DEF Books, Ledger, Logged
<1>9. \A i \in DOMAIN auditLog : auditLog[i].delivery \notin Locked(w)
  <2> SUFFICES ASSUME NEW i \in DOMAIN auditLog, auditLog[i].delivery \in Locked(w) PROVE FALSE
    OBVIOUS
  <2>1. deliveries[auditLog[i].delivery].status \in Pending
    BY <1>4
  <2> QED BY <1>8, <2>1 DEF Pending, Ends
<1>10. /\ Once(auditLog')
       /\ \A k \in DOMAIN auditLog' : \/ \E i \in DOMAIN auditLog : auditLog'[k] = auditLog[i]
                                      \/ \E j \in DOMAIN u.log : auditLog'[k] = u.log[j]
       /\ \A i \in DOMAIN auditLog : \E k \in DOMAIN auditLog' : auditLog'[k] = auditLog[i]
       /\ \A j \in DOMAIN u.log : \E k \in DOMAIN auditLog' : auditLog'[k] = u.log[j]
  <2>1. \A i \in DOMAIN auditLog, j \in DOMAIN u.log : auditLog[i].delivery # u.log[j].delivery
    BY <1>8, <1>9
  <2> DEFINE more == u.log
             c == auditLog \o more
  <2>2. Once(auditLog) /\ Once(more)
    BY <1>8
  <2>3. Apart(auditLog, more)
    BY <2>1 DEF Apart
  <2> HIDE DEF more
  <2>4. /\ Once(c)
        /\ \A k \in DOMAIN c : \/ \E i \in DOMAIN auditLog : c[k] = auditLog[i]
                              \/ \E j \in DOMAIN more : c[k] = more[j]
        /\ \A i \in DOMAIN auditLog : \E k \in DOMAIN c : c[k] = auditLog[i]
        /\ \A j \in DOMAIN more : \E k \in DOMAIN c : c[k] = more[j]
    BY <2>2, <2>3, ConcatOnce
  <2>5. auditLog' = c
    BY <1>1 DEF more
  <2> HIDE DEF c
  <2> QED BY <2>4, <2>5 DEF more
<1>11. Ledger'
  <2>1. ASSUME NEW k \in DOMAIN auditLog'
        PROVE  LET d == auditLog'[k].delivery
               IN  d \in DOMAIN deliveries' /\ deliveries'[d].status \in {auditLog'[k].status, "removed"}
    <3>1. ASSUME NEW i \in DOMAIN auditLog, auditLog'[k] = auditLog[i]
          PROVE  LET d == auditLog'[k].delivery
                 IN  d \in DOMAIN deliveries' /\ deliveries'[d].status \in {auditLog'[k].status, "removed"}
      BY <1>5, <1>6, <1>8, <1>9, <3>1
    <3>2. ASSUME NEW j \in DOMAIN u.log, auditLog'[k] = u.log[j]
          PROVE  LET d == auditLog'[k].delivery
                 IN  d \in DOMAIN deliveries' /\ deliveries'[d].status \in {auditLog'[k].status, "removed"}
      BY <1>4, <1>6, <1>8, <3>2
    <3> QED BY <1>10, <3>1, <3>2
  <2>2. ASSUME NEW d \in DOMAIN deliveries', deliveries'[d].status \in Ends
        PROVE  \E k \in DOMAIN auditLog' : auditLog'[k].delivery = d
    <3>1. CASE d \in Locked(w)
      <4>1. d \in DOMAIN u.rows \ u.todo /\ u.rows[d].status \in Ends
        BY <1>1, <1>4, <2>2, <3>1
      <4>2. PICK j \in DOMAIN u.log : u.log[j].delivery = d
        BY <1>1, <4>1 DEF Logged
      <4>3. PICK k \in DOMAIN auditLog' : auditLog'[k] = u.log[j]
        BY <1>10
      <4> QED BY <4>2, <4>3
    <3>2. CASE d \notin Locked(w)
      <4>1. d \in DOMAIN deliveries /\ deliveries[d].status \in Ends
        BY <1>5, <1>6, <2>2, <3>2
      <4>2. PICK i \in DOMAIN auditLog : auditLog[i].delivery = d
        BY <4>1 DEF Books, Ledger
      <4>3. PICK k \in DOMAIN auditLog' : auditLog'[k] = auditLog[i]
        BY <1>10
      <4> QED BY <4>2, <4>3
    <3> QED BY <3>1, <3>2
  <2> QED BY <1>10, <2>1, <2>2 DEF Ledger
<1>12. Logs'
  BY <1>1, <1>2, IdleShape DEF Books, Logs
<1> QED BY <1>7, <1>11, <1>12 DEF Books

LEMMA DeleteRuleKeepsBooks ==
  ASSUME IInv, Books, NEW p \in Admins, DeleteRule(p)
  PROVE  Books'
<1>1. /\ txn = [q \in Procs |-> txn[q]] /\ Workers \subseteq Procs /\ p \in Procs
      /\ txn[p].phase = "cascade" /\ txn' = [txn EXCEPT ![p] = Idle]
      /\ UNCHANGED <<received, failures, auditLog>> /\ Thinned
  BY DeleteRuleKeeps DEF IInv, Typed, Procs, DeleteRule, Set
<1>2. \A w \in Workers : /\ Locked(w)' = Locked(w)
                         /\ Locked(w) # {} => txn'[w] = txn[w]
                         /\ txn'[w].phase \in InPass => txn'[w] = txn[w]
  BY <1>1, IdleShape DEF Locked, InPass, Idle
<1>3. Received'
  BY <1>1, <1>2 DEF Books, Received, Thinned
<1>4. Ledger'
  <2>1. \A d \in DOMAIN deliveries : deliveries'[d].status \in {deliveries[d].status, "removed"}
    BY <1>1 DEF Thinned
  <2>2. DOMAIN deliveries' = DOMAIN deliveries
    BY <1>1 DEF Thinned
  <2>3. \A d \in DOMAIN deliveries : deliveries'[d].status \in Ends => deliveries[d].status \in Ends
    BY <2>1 DEF Ends
  <2> QED BY <1>1, <2>1, <2>2, <2>3 DEF Books, Ledger
<1>5. Logs'
  BY <1>2 DEF Books, Logs
<1> QED BY <1>3, <1>4, <1>5 DEF Books

LEMMA BooksStep == IInv /\ Books /\ [Next]_vars => Books'
<1> SUFFICES ASSUME IInv, Books, [Next]_vars PROVE Books'
  OBVIOUS
<1>1. ASSUME NEW w \in Workers, Pass(w) PROVE Books'
  BY <1>1, SelectKeepsBooks, AuditKeepsBooks, CommitKeepsBooks, SendKeepsBooks DEF Pass
<1>2. CASE Elsewhere
  BY <1>2, ElsewhereKeepsBooks
<1>3. ASSUME NEW p \in Admins, DeleteRule(p) PROVE Books'
  BY <1>3, DeleteRuleKeepsBooks
<1> QED BY <1>1, <1>2, <1>3 DEF Next, Elsewhere, Deletion

LEMMA BooksInvariant == Spec => []Books
BY BooksOpen, BooksStep, Invariant, PTL DEF Spec

\* The audit log has the outcome of every delivery that has ended, once, and
\* none of one that has not, whichever passes are cut off.
THEOREM OutcomesAreAudited == Spec => []OutcomesAudited
BY BooksTellOutcomes, Invariant, BooksInvariant, PTL

\* An endpoint receives a delivery no more often than it was attempted and
\* passes were cut off.
THEOREM DuplicatesAreBounded == Spec => []DuplicatesOnlyFromFailures
BY BooksBoundDuplicates, Invariant, BooksInvariant, PTL

-----------------------------------------------------------------------------
(* Types.  The invariant and the books have most of them. *)

Phases == {"idle", "next", "audit", "delete", "cascade", "insert"}

LockTyped ==
  /\ auditLock \in Workers \cup Admins \cup {None}
  /\ failures \in 0..MaxFailures
  /\ \A p \in Procs : txn[p].phase \in Phases

\* A transaction put into a phase leaves every transaction in one.
LEMMA SetPhase ==
  ASSUME Typed, LockTyped, NEW p \in Procs, NEW t, t.phase \in Phases, Set(p, t)
  PROVE  \A q \in Procs : txn'[q].phase \in Phases
BY DEF Typed, LockTyped, Set

\* The phase a transaction is put into.
LEMMA NextPhase ==
  ASSUME Typed, NEW p \in Procs,
         \/ (\E matched \in SUBSET Rules : Match(p, matched)) \/ Enqueue(p) \/ EnqueueFails(p)
         \/ Pass(p) \/ Abort(p)
         \/ (\E r \in Rules : RequestDeletion(p, r)) \/ LockAudit(p) \/ DeleteRule(p)
  PROVE  \E t : t.phase \in Phases /\ Set(p, t)
<1> DEFINE u == txn[p]
           Moved == \E t : t.phase \in Phases /\ Set(p, t)
<1>1. "phase" \in DOMAIN u /\ Idle.phase = "idle"
  BY DEF Typed, Shape, Idle
<1>2. ASSUME NEW t, t.phase \in Phases, Set(p, t) PROVE Moved
  BY <1>2
<1>3. ASSUME Enqueue(p) \/ EnqueueFails(p) \/ Commit(p) \/ Abort(p) \/ DeleteRule(p) PROVE Moved
  <2>1. Set(p, Idle) /\ Idle.phase \in Phases
    BY <1>1, <1>3 DEF Enqueue, EnqueueFails, Commit, Abort, DeleteRule, Phases
  <2> QED BY <2>1, <1>2
<1>4. ASSUME NEW matched, Match(p, matched) PROVE Moved
  <2> DEFINE t == [phase |-> "insert", matched |-> matched]
  <2>1. t.phase \in Phases /\ Set(p, t)
    BY <1>4 DEF Match, Phases
  <2> HIDE DEF t
  <2> QED BY <2>1, <1>2
<1>5. ASSUME NEW r, RequestDeletion(p, r) PROVE Moved
  <2> DEFINE t == [phase |-> "delete", rule |-> r]
  <2>1. t.phase \in Phases /\ Set(p, t)
    BY <1>5 DEF RequestDeletion, Phases
  <2> HIDE DEF t
  <2> QED BY <2>1, <1>2
<1>6. ASSUME Select(p) PROVE Moved
  <2> DEFINE t == [phase |-> "next", todo |-> Batch(p), log |-> <<>>,
                   rows |-> [d \in Batch(p) |-> deliveries[d]]]
  <2>1. t.phase \in Phases /\ Set(p, t)
    BY <1>6 DEF Select, Phases
  <2> HIDE DEF t
  <2> QED BY <2>1, <1>2
<1>7. ASSUME LockAudit(p) PROVE Moved
  <2> DEFINE t == [u EXCEPT !.phase = "cascade"]
  <2>1. t.phase \in Phases /\ Set(p, t)
    BY <1>1, <1>7 DEF LockAudit, Phases
  <2> HIDE DEF t
  <2> QED BY <2>1, <1>2
<1>8. ASSUME Audit(p) PROVE Moved
  <2>1. PICK d : Set(p, [u EXCEPT !.phase = "next", !.todo = @ \ {d},
                           !.log = Append(@, [delivery |-> d, status |-> u.rows[d].status])])
    BY <1>8 DEF Audit
  <2> DEFINE t == [u EXCEPT !.phase = "next", !.todo = @ \ {d},
                     !.log = Append(@, [delivery |-> d, status |-> u.rows[d].status])]
  <2>2. t.phase \in Phases
    BY <1>1 DEF Phases
  <2>3. Set(p, t)
    BY <2>1
  <2> HIDE DEF t
  <2> QED BY <2>2, <2>3, <1>2
<1>9. ASSUME NEW d \in DOMAIN deliveries, SendAccepted(p, d) PROVE Moved
  <2> DEFINE row == DeliveredRow(u.rows[d])
             t == [u EXCEPT !.rows[d] = row, !.phase = "audit"]
  <2>1. t.phase \in Phases
    <3> HIDE DEF row
    <3> QED BY <1>1 DEF Phases
  <2>2. Set(p, t)
    BY <1>9, Zenon DEF SendAccepted
  <2> HIDE DEF t
  <2> QED BY <2>1, <2>2, <1>2
<1>10. ASSUME NEW d \in DOMAIN deliveries, SendRefused(p, d) PROVE Moved
  <2> DEFINE row == Retry(u.rows[d])
             phase == IF row.status = "failed" THEN "audit" ELSE "next"
             todo == IF row.status = "failed" THEN u.todo ELSE u.todo \ {d}
             t == [u EXCEPT !.rows[d] = row, !.phase = phase, !.todo = todo]
  <2>1. phase \in Phases
    BY DEF Phases
  <2>2. t.phase = phase
    <3> HIDE DEF row, phase, todo
    <3> QED BY <1>1
  <2>3. Set(p, t)
    BY <1>10, Zenon DEF SendRefused
  <2> HIDE DEF t, phase
  <2> QED BY <2>1, <2>2, <2>3, <1>2
<1> HIDE DEF Moved
<1>11. Moved
  BY <1>3, <1>4, <1>5, <1>6, <1>7, <1>8, <1>9, <1>10 DEF Pass
<1> QED BY <1>11 DEF Moved

\* The lock passes from hand to hand of passes and deletions, and only a cut-off
\* is counted.
LEMMA LockStep ==
  ASSUME Typed, LockTyped, [Next]_vars
  PROVE  auditLock' \in Workers \cup Admins \cup {None} /\ failures' \in 0..MaxFailures
<1> USE OutboxAssumption DEF LockTyped
<1>1. CASE UNCHANGED vars
  BY <1>1 DEF vars
<1>2. ASSUME NEW p \in Producers,
             (\E matched \in SUBSET Rules : Match(p, matched)) \/ Enqueue(p) \/ EnqueueFails(p)
      PROVE  UNCHANGED <<auditLock, failures>>
  BY <1>2 DEF Match, Enqueue, EnqueueFails
<1>3. ASSUME NEW d, BecomeDue(d) PROVE UNCHANGED <<auditLock, failures>>
  BY <1>3 DEF BecomeDue
<1>4. ASSUME NEW w \in Workers, Pass(w)
      PROVE  auditLock' \in {auditLock, w, None} /\ UNCHANGED failures
  BY <1>4 DEF Pass, Select, Audit, Commit, Release, SendAccepted, SendRefused
<1>5. ASSUME NEW w \in Workers, Abort(w)
      PROVE  auditLock' \in {auditLock, None} /\ failures' \in 0..MaxFailures
  BY <1>5 DEF Abort, Release
<1>6. ASSUME NEW p \in Admins, (\E r \in Rules : RequestDeletion(p, r)) \/ LockAudit(p) \/ DeleteRule(p)
      PROVE  auditLock' \in {auditLock, p, None} /\ UNCHANGED failures
  BY <1>6 DEF RequestDeletion, LockAudit, DeleteRule, Release
<1>7. ASSUME NEW p \in Admins, NEW w \in Workers, BreakDeadlock(p, w)
      PROVE  auditLock' \in {auditLock, None} /\ failures' \in 0..MaxFailures
  BY <1>7 DEF BreakDeadlock, Release
<1> QED BY <1>1, <1>2, <1>3, <1>4, <1>5, <1>6, <1>7 DEF Next, Deletion

LEMMA PhaseStep ==
  ASSUME Typed, LockTyped, [Next]_vars
  PROVE  \A q \in Procs : txn'[q].phase \in Phases
<1>1. CASE UNCHANGED vars
  BY <1>1 DEF vars, LockTyped
<1>2. ASSUME NEW d, BecomeDue(d) PROVE UNCHANGED txn
  BY <1>2 DEF BecomeDue
<1>3. ASSUME NEW p \in Admins, NEW w \in Workers, BreakDeadlock(p, w)
      PROVE  (Set(p, Idle) \/ Set(w, Idle)) /\ Idle.phase \in Phases
  BY <1>3 DEF BreakDeadlock, Idle, Phases
<1>4. Producers \subseteq Procs /\ Workers \subseteq Procs /\ Admins \subseteq Procs
  BY DEF Procs
<1>5. CASE UNCHANGED txn
  BY <1>5 DEF LockTyped
<1>6. CASE \E p \in Procs : \E t : t.phase \in Phases /\ Set(p, t)
  BY <1>6, SetPhase
<1>7. CASE \E p \in Producers :
        (\E matched \in SUBSET Rules : Match(p, matched)) \/ Enqueue(p) \/ EnqueueFails(p)
  BY <1>4, <1>6, <1>7, NextPhase
<1>8. CASE \E w \in Workers : Pass(w) \/ Abort(w)
  BY <1>4, <1>6, <1>8, NextPhase
<1>9. CASE \E p \in Admins : (\E r \in Rules : RequestDeletion(p, r)) \/ LockAudit(p) \/ DeleteRule(p)
  BY <1>4, <1>6, <1>9, NextPhase
<1>10. CASE \E p \in Admins, w \in Workers : BreakDeadlock(p, w)
  BY <1>3, <1>4, <1>6, <1>10
<1> QED BY <1>1, <1>2, <1>5, <1>7, <1>8, <1>9, <1>10 DEF Next, Deletion

LEMMA LockInvariant == Spec => []LockTyped
<1>1. Init => LockTyped
  BY OutboxAssumption DEF Init, LockTyped, Phases, Idle
<1>2. IInv /\ LockTyped /\ [Next]_vars => LockTyped'
  <2> SUFFICES ASSUME Typed, LockTyped, [Next]_vars PROVE LockTyped'
    BY DEF IInv
  <2>1. auditLock' \in Workers \cup Admins \cup {None} /\ failures' \in 0..MaxFailures
    BY LockStep
  <2>2. \A q \in Procs : txn'[q].phase \in Phases
    BY PhaseStep
  <2> QED BY <2>1, <2>2 DEF LockTyped
<1> QED BY <1>1, <1>2, Invariant, PTL DEF Spec

\* The outbox, the log, the lock and every transaction keep their types, and
\* SKIP LOCKED gives two passes no delivery in common.
THEOREM TypeCorrect == Spec => []TypeOK
<1>1. IInv /\ Books /\ LockTyped => TypeOK
  BY DEF IInv, Typed, BatchIsOwn, Books, Received, Ledger, Once, LockTyped, Phases, TypeOK
<1> QED BY <1>1, Invariant, BooksInvariant, LockInvariant, PTL
=============================================================================
