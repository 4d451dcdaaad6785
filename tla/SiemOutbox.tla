----------------------------- MODULE SiemOutbox -----------------------------
(***************************************************************************)
(* SIEM forwarding (siem.py, siem_worker.py): transactions that find        *)
(* something queue one delivery for each enabled destination; passes of the *)
(* SIEM worker lock a batch of due deliveries, send them over TLS and       *)
(* commit all outcomes at the end; administrators create, enable and        *)
(* disable destinations.                                                    *)
(*                                                                          *)
(* A switch locks the row of its destination, then needs the audit lock;    *)
(* a transaction that records what it found has the audit lock when the     *)
(* foreign keys of its deliveries wait for those rows.  PostgreSQL breaks   *)
(* the cycle by aborting one of the two.                                    *)
(***************************************************************************)
EXTENDS Integers, Sequences, FiniteSets, SequencesExt

CONSTANTS Workers,        \* passes of SIEM worker processes
          Admins,         \* API workers that switch destinations
          Producers,      \* transactions that queue events
          Destinations,
          None,
          MaxAttempts,    \* MAX_ATTEMPTS
          BatchSize,      \* the limit of process_pending
          MaxDeliveries,  \* bound on the deliveries queued
          MaxFailures     \* bound on the passes cut off

ASSUME SiemAssumption ==
  /\ MaxAttempts \in Nat \ {0} /\ BatchSize \in Nat \ {0}
  /\ MaxDeliveries \in Nat /\ MaxFailures \in Nat
  /\ None \notin Workers \cup Producers \cup Destinations
  /\ Producers \cap (Workers \cup Admins) = {}
  /\ IsFiniteSet(Destinations)

VARIABLES destinations,  \* absent, disabled or enabled
          deliveries,    \* siem_deliveries by order of creation
          audited,       \* what the last audit record of a destination says
          auditLock,     \* the transaction holding the audit lock, or None
          txn,           \* the open transaction of each process
          open,          \* destinations enabled at some time of a pass
          failures       \* passes cut off before their commit

vars == <<destinations, deliveries, audited, auditLock, txn, open, failures>>

Ids == 1..MaxDeliveries
Procs == Workers \cup Admins \cup Producers
Pending == {"queued", "retrying"}
Delivery == [destination : Destinations, status : Pending \cup {"delivered", "failed"},
             attempts : Nat, due : BOOLEAN]
Idle == [phase |-> "idle"]

-----------------------------------------------------------------------------
Locked(p) == IF txn[p].phase \in {"next", "audit"} THEN DOMAIN txn[p].rows ELSE {}

\* Mutant: retrying deliveries are not selected.
SelectableQueued(w) ==
  {d \in DOMAIN deliveries : deliveries[d].status = "queued"
                             /\ \A v \in Workers \ {w} : d \notin Locked(v)}

Selectable(w) ==
  {d \in DOMAIN deliveries :
     /\ deliveries[d].status \in Pending /\ deliveries[d].due
     /\ \A v \in Workers \ {w} : d \notin Locked(v)}

\* In the order of their creation.
Batch(w) ==
  {d \in Selectable(w) : Cardinality({e \in Selectable(w) : e < d}) < BatchSize}

\* Mutant: the attempt just made is not counted.
RetryOffByOne(r) ==
  [r EXCEPT !.attempts = @ + 1, !.due = FALSE,
            !.status = IF r.attempts >= MaxAttempts THEN "failed" ELSE "retrying"]

\* _retry.
Retry(r) ==
  [r EXCEPT !.attempts = @ + 1, !.due = FALSE,
            !.status = IF r.attempts + 1 >= MaxAttempts THEN "failed" ELSE "retrying"]

\* The rows that an administrator has locked FOR UPDATE, and the ones that the
\* foreign keys of new deliveries have locked FOR KEY SHARE.
HeldBy(p) == IF txn[p].phase = "switch" THEN {txn[p].destination} ELSE {}
SharedBy(p) == IF txn[p].phase = "insert" THEN txn[p].inserted ELSE {}
NotHeld(x) == \A p \in Admins : x \notin HeldBy(p)
RowFree(x) == NotHeld(x) /\ \A p \in Producers : x \notin SharedBy(p)

Set(p, t) == txn' = [txn EXCEPT ![p] = t]
Release(p) == auditLock' = IF auditLock = p THEN None ELSE auditLock

Init ==
  /\ destinations = [x \in Destinations |-> "absent"] /\ audited = destinations
  /\ deliveries = <<>> /\ auditLock = None
  /\ txn = [p \in Procs |-> Idle] /\ open = [w \in Workers |-> {}] /\ failures = 0

-----------------------------------------------------------------------------
(* Administrators *)

CreateDestination(p, x) ==
  /\ txn[p] = Idle /\ destinations[x] = "absent" /\ auditLock = None
  /\ destinations' = [destinations EXCEPT ![x] = "disabled"]
  /\ audited' = [audited EXCEPT ![x] = "disabled"]
  /\ UNCHANGED <<deliveries, auditLock, txn, open, failures>>

\* Mutant: the destination is read without FOR UPDATE.
ReadDestination(p, x, target) ==
  /\ txn[p] = Idle /\ destinations[x] # "absent"
  /\ Set(p, [phase |-> "switch", destination |-> x, was |-> destinations[x], target |-> target])
  /\ UNCHANGED <<destinations, deliveries, audited, auditLock, open, failures>>

\* _locked_destination.
LockDestination(p, x, target) ==
  /\ txn[p] = Idle /\ destinations[x] # "absent" /\ RowFree(x)
  /\ Set(p, [phase |-> "switch", destination |-> x, was |-> destinations[x], target |-> target])
  /\ UNCHANGED <<destinations, deliveries, audited, auditLock, open, failures>>

\* enable_destination and disable_destination get the audit lock and commit; an
\* attribute set to the value it was read with is not written.
Switch(p) ==
  /\ txn[p].phase = "switch" /\ auditLock = None
  /\ LET t == txn[p]
         x == t.destination
     IN  /\ destinations' = [destinations EXCEPT ![x] = IF t.was = t.target THEN @ ELSE t.target]
         /\ audited' = [audited EXCEPT ![x] = t.target]
  /\ open' = [w \in Workers |-> open[w] \cup {x \in Destinations : destinations'[x] = "enabled"}]
  /\ Set(p, Idle)
  /\ UNCHANGED <<deliveries, auditLock, failures>>

\* The host to be enabled does not resolve inside the allowed networks.
Refuse(p) ==
  /\ txn[p].phase = "switch" /\ txn[p].target = "enabled"
  /\ Set(p, Idle)
  /\ UNCHANGED <<destinations, deliveries, audited, auditLock, open, failures>>

-----------------------------------------------------------------------------
(* Producers *)

Queued(x) == [destination |-> x, status |-> "queued", attempts |-> 0, due |-> TRUE]
Unborn == UNION {{p} \X txn[p].matched : p \in {q \in Producers : txn[q] # Idle}}

\* enqueue_siem_event reads the enabled destinations whose threshold the event
\* reaches.  Drift is audited in the same transaction, a match is not.
Match(p, matched, recorded) ==
  /\ txn[p] = Idle /\ matched # {}
  /\ \A x \in matched : destinations[x] = "enabled"
  /\ Len(deliveries) + Cardinality(Unborn) + Cardinality(matched) <= MaxDeliveries
  /\ Set(p, [phase |-> IF recorded THEN "lock" ELSE "insert", matched |-> matched, inserted |-> {}])
  /\ UNCHANGED <<destinations, deliveries, audited, auditLock, open, failures>>

LockAudit(p) ==
  /\ txn[p].phase = "lock" /\ auditLock = None
  /\ auditLock' = p
  /\ Set(p, [txn[p] EXCEPT !.phase = "insert"])
  /\ UNCHANGED <<destinations, deliveries, audited, open, failures>>

\* The row of a delivery waits for the row of its destination.
Insert(p, x) ==
  /\ txn[p].phase = "insert" /\ x \in txn[p].matched \ txn[p].inserted /\ NotHeld(x)
  /\ Set(p, [txn[p] EXCEPT !.inserted = @ \cup {x}])
  /\ UNCHANGED <<destinations, deliveries, audited, auditLock, open, failures>>

Enqueue(p) ==
  /\ txn[p].phase = "insert" /\ txn[p].inserted = txn[p].matched
  /\ LET xs == SetToSeq(txn[p].matched)
     IN  deliveries' = deliveries \o [i \in DOMAIN xs |-> Queued(xs[i])]
  /\ Release(p)
  /\ Set(p, Idle)
  /\ UNCHANGED <<destinations, audited, open, failures>>

Deadlocked(p, a) ==
  auditLock = p /\ txn[p].phase = "insert" /\ HeldBy(a) \cap txn[p].matched # {}

\* Mutant: a deadlock is not noticed.
DeadlockStays(p, a) == Deadlocked(p, a) /\ UNCHANGED vars

\* deadlock_timeout: the request or the switch is answered with an error.
BreakDeadlock(p, a) ==
  /\ Deadlocked(p, a)
  /\ \/ Release(p) /\ Set(p, Idle)
     \/ Set(a, Idle) /\ UNCHANGED auditLock
  /\ UNCHANGED <<destinations, deliveries, audited, open, failures>>

-----------------------------------------------------------------------------
(* The worker *)

BecomeDue(d) ==
  /\ deliveries[d].status = "retrying" /\ ~deliveries[d].due
  /\ deliveries' = [deliveries EXCEPT ![d].due = TRUE]
  /\ UNCHANGED <<destinations, audited, auditLock, txn, open, failures>>

\* process_pending.
Select(w) ==
  /\ txn[w] = Idle /\ Selectable(w) # {}
  /\ Set(w, [phase |-> "next", todo |-> Batch(w), read |-> [destination |-> None, state |-> "absent"],
             rows |-> [d \in Batch(w) |-> deliveries[d]]])
  /\ open' = [open EXCEPT ![w] = {x \in Destinations : destinations[x] = "enabled"}]
  /\ UNCHANGED <<destinations, deliveries, audited, auditLock, failures>>

Sending(w, d) ==
  txn[w].phase = "next" /\ d \in txn[w].todo /\ \A e \in txn[w].todo : d <= e

\* Mutant: a destination is not asked whether it is enabled.
ReadAnyway(w, x) == [destination |-> x, state |-> "enabled"]

\* session.get: the session still has the destination of the last delivery.
Read(w, x) ==
  IF txn[w].read.destination = x THEN txn[w].read
  ELSE [destination |-> x, state |-> destinations[x]]

\* The destination is disabled: the delivery fails without an attempt.
Abandon(w, d) ==
  LET read == Read(w, deliveries[d].destination) IN
  /\ Sending(w, d) /\ read.state # "enabled"
  /\ Set(w, [txn[w] EXCEPT !.rows[d].status = "failed", !.phase = "audit", !.read = read,
                           !.todo = @ \ {d}])
  /\ UNCHANGED <<destinations, deliveries, audited, auditLock, open, failures>>

SendAccepted(w, d) ==
  LET read == Read(w, deliveries[d].destination)
      row == [txn[w].rows[d] EXCEPT !.status = "delivered", !.attempts = @ + 1]
  IN  /\ Sending(w, d) /\ read.state = "enabled"
      /\ Set(w, [txn[w] EXCEPT !.rows[d] = row, !.phase = "audit", !.read = read,
                               !.todo = @ \ {d}])
      /\ UNCHANGED <<destinations, deliveries, audited, auditLock, open, failures>>

\* An address outside the allowed networks, no connection or no TLS.
SendRefused(w, d) ==
  LET read == Read(w, deliveries[d].destination)
      row == Retry(txn[w].rows[d])
  IN  /\ Sending(w, d) /\ read.state = "enabled"
      /\ Set(w, [txn[w] EXCEPT !.rows[d] = row, !.read = read,
                   !.phase = IF row.status = "failed" THEN "audit" ELSE "next",
                   !.todo = @ \ {d}])
      /\ UNCHANGED <<destinations, deliveries, audited, auditLock, open, failures>>

Audit(w) ==
  /\ txn[w].phase = "audit" /\ auditLock \in {None, w}
  /\ auditLock' = w
  /\ Set(w, [txn[w] EXCEPT !.phase = "next"])
  /\ UNCHANGED <<destinations, deliveries, audited, open, failures>>

Commit(w) ==
  /\ txn[w].phase = "next" /\ txn[w].todo = {}
  /\ deliveries' = [d \in DOMAIN deliveries |->
                      IF d \in Locked(w) THEN txn[w].rows[d] ELSE deliveries[d]]
  /\ Release(w)
  /\ Set(w, Idle)
  /\ open' = [open EXCEPT ![w] = {}]
  /\ UNCHANGED <<destinations, audited, failures>>

\* The worker dies, also of an empty allowlist, or PostgreSQL does: the batch is
\* lost.
Abort(w) ==
  /\ txn[w].phase \in {"next", "audit"} /\ failures < MaxFailures
  /\ failures' = failures + 1
  /\ Release(w) /\ Set(w, Idle) /\ open' = [open EXCEPT ![w] = {}]
  /\ UNCHANGED <<destinations, deliveries, audited>>

-----------------------------------------------------------------------------
Pass(w) ==
  \/ Select(w) \/ Audit(w) \/ Commit(w)
  \/ \E d \in DOMAIN deliveries : Abandon(w, d) \/ SendAccepted(w, d) \/ SendRefused(w, d)
Event(p) == LockAudit(p) \/ Enqueue(p) \/ \E x \in Destinations : Insert(p, x)

Next ==
  \/ \E p \in Producers :
       \/ \E matched \in SUBSET Destinations, recorded \in BOOLEAN : Match(p, matched, recorded)
       \/ Event(p) \/ \E a \in Admins : BreakDeadlock(p, a)
  \/ \E p \in Admins :
       \/ \E x \in Destinations :
            \/ CreateDestination(p, x)
            \/ \E target \in {"enabled", "disabled"} : LockDestination(p, x, target)
       \/ Switch(p) \/ Refuse(p)
  \/ \E d \in DOMAIN deliveries : BecomeDue(d)
  \/ \E w \in Workers : Pass(w) \/ Abort(w)

Spec == Init /\ [][Next]_vars

\* The worker polls, PostgreSQL grants locks in turn and breaks deadlocks, and
\* time passes.
FairSpec ==
  /\ Spec
  /\ \A w \in Workers : WF_vars(Pass(w)) /\ SF_vars(Audit(w))
  /\ \A p \in Admins : SF_vars(Switch(p))
  /\ \A p \in Producers : SF_vars(Event(p)) /\ \A a \in Admins : WF_vars(BreakDeadlock(p, a))
  /\ \A d \in Ids : WF_vars(d \in DOMAIN deliveries /\ BecomeDue(d))

-----------------------------------------------------------------------------
TypeOK ==
  /\ destinations \in [Destinations -> {"absent", "disabled", "enabled"}]
  /\ audited \in [Destinations -> {"absent", "disabled", "enabled"}]
  /\ deliveries \in Seq(Delivery) /\ Len(deliveries) <= MaxDeliveries
  /\ auditLock \in Workers \cup Producers \cup {None}
  /\ open \in [Workers -> SUBSET Destinations] /\ failures \in 0..MaxFailures
  /\ \A p \in Procs : txn[p].phase \in {"idle", "next", "audit", "switch", "lock", "insert"}

\* The audit log tells the truth about a destination: its last record names the
\* state the destination is in, whichever switches overlap.
AuditTellsSwitch == audited = destinations

\* A delivery is attempted only in a pass during which its destination was
\* enabled at some time: a pass that starts after a destination was disabled
\* does not send to it, though one that runs may go on with what it has read.
DisabledStaysSilent ==
  [][\A w \in Workers : \A d \in Locked(w) :
       txn'[w].phase # "idle" /\ txn'[w].rows[d].attempts # txn[w].rows[d].attempts =>
         deliveries[d].destination \in open[w]]_vars

State(d) == IF d \in DOMAIN deliveries THEN deliveries[d].status ELSE "unborn"
Attempts(d) == IF d \in DOMAIN deliveries THEN deliveries[d].attempts ELSE 0

Lifecycle == INSTANCE DeliveryLifecycle
  WITH state <- [d \in Ids |-> State(d)], attempts <- [d \in Ids |-> Attempts(d)],
       MayAbandon <- TRUE

\* The SIEM outbox keeps the promise of the alert outbox, except that it may
\* give up a delivery whose destination is disabled.
ImplementsLifecycle == Lifecycle!Spec

\* Every transaction of a request ends, through the deadlocks of switches with
\* events.
RequestsEnd == \A p \in Admins \cup Producers : txn[p] # Idle ~> txn[p] = Idle

\* Every delivery is delivered or fails for good, whatever is switched and
\* whichever passes are cut off.
DeliveriesEnd ==
  \A d \in Ids :
    (d \in DOMAIN deliveries) ~>
      (d \in DOMAIN deliveries /\ deliveries[d].status \in {"delivered", "failed"})
=============================================================================
