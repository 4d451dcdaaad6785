----------------------------- MODULE AlertOutbox -----------------------------
(***************************************************************************)
(* Webhook alerts (alerting.py, alert_worker.py): transactions that find   *)
(* something queue one delivery for each matching rule; passes of the      *)
(* alert worker lock a batch of due deliveries, skipping those another     *)
(* pass has, send them one after the other and commit all outcomes at the  *)
(* end; administrators delete rules, and with a rule its deliveries.       *)
(*                                                                         *)
(* append_audit_log takes the audit lock, which lasts to the end of the    *)
(* transaction: a pass takes it at the first outcome it records, a         *)
(* deletion before its DELETE, which waits for the deliveries a pass has   *)
(* locked.  PostgreSQL breaks the cycle by aborting one of the two.        *)
(*                                                                         *)
(* The foreign key keeps a delivery's rule in place, rules are enabled     *)
(* when they are matched and nothing disables one later: the branch of     *)
(* process_pending for a missing or disabled rule is not reachable.        *)
(***************************************************************************)
EXTENDS Integers, Sequences, FiniteSets, SequencesExt

CONSTANTS Workers,        \* passes of alert worker processes
          Admins,         \* API workers that delete rules
          Producers,      \* transactions that queue alerts
          Rules,
          None,
          MaxAttempts,    \* MAX_ATTEMPTS
          BatchSize,      \* the LIMIT of process_pending
          MaxDeliveries,  \* bound on the deliveries queued
          MaxFailures     \* bound on the passes cut off

ASSUME OutboxAssumption ==
  /\ MaxAttempts \in Nat \ {0} /\ BatchSize \in Nat \ {0}
  /\ MaxDeliveries \in Nat /\ MaxFailures \in Nat
  /\ None \notin Workers \cup Admins /\ IsFiniteSet(Rules)

VARIABLES rules,       \* the committed, enabled rules
          deliveries,  \* alert_deliveries by order of creation
          auditLog,    \* committed alert.delivered and alert.failed records
          auditLock,   \* the transaction holding the audit lock, or None
          txn,         \* the open transaction of each process
          received,    \* delivery -> how often its endpoint has received it
          failures     \* passes cut off before their commit

vars == <<rules, deliveries, auditLog, auditLock, txn, received, failures>>

Ids == 1..MaxDeliveries
Procs == Workers \cup Admins \cup Producers

\* "removed" is a row that the deletion of its rule has deleted; due:
\* next_attempt_at has come.
Statuses == {"queued", "retrying", "delivered", "failed", "removed"}
Delivery == [rule : Rules, status : Statuses, attempts : Nat, due : BOOLEAN]
Outcome == [delivery : Ids, status : {"delivered", "failed"}]

Idle == [phase |-> "idle"]
Transaction ==
  {Idle}
  \cup [phase : {"next", "audit"}, todo : SUBSET Ids, rows : UNION {[S -> Delivery] : S \in SUBSET Ids},
        log : Seq(Outcome)]
  \cup [phase : {"delete", "cascade"}, rule : Rules]
  \cup [phase : {"insert"}, matched : SUBSET Rules]

-----------------------------------------------------------------------------
\* The deliveries a transaction has selected FOR UPDATE.
Locked(p) == IF txn[p].phase \in {"next", "audit"} THEN DOMAIN txn[p].rows ELSE {}

\* Mutant: no FOR UPDATE SKIP LOCKED.
SelectableLocked(w) ==
  {d \in DOMAIN deliveries : deliveries[d].status \in {"queued", "retrying"} /\ deliveries[d].due}

\* Mutant: retrying deliveries are not selected.
SelectableQueued(w) ==
  {d \in DOMAIN deliveries : deliveries[d].status = "queued"
                             /\ \A v \in Workers \ {w} : d \notin Locked(v)}

\* status IN ('queued', 'retrying') AND next_attempt_at <= now, SKIP LOCKED.
Selectable(w) ==
  {d \in DOMAIN deliveries :
     /\ deliveries[d].status \in {"queued", "retrying"} /\ deliveries[d].due
     /\ \A v \in Workers \ {w} : d \notin Locked(v)}

\* ORDER BY created_at LIMIT.
Batch(w) ==
  {d \in Selectable(w) : Cardinality({e \in Selectable(w) : e < d}) < BatchSize}

DeliveredRow(r) == [r EXCEPT !.status = "delivered", !.attempts = @ + 1]

\* Mutant: one attempt too many.
RetryOffByOne(r) ==
  [r EXCEPT !.attempts = @ + 1, !.due = FALSE,
            !.status = IF r.attempts >= MaxAttempts THEN "failed" ELSE "retrying"]

\* _schedule_retry: after the last attempt the delivery fails for good.
Retry(r) ==
  [r EXCEPT !.attempts = @ + 1, !.due = FALSE,
            !.status = IF r.attempts + 1 >= MaxAttempts THEN "failed" ELSE "retrying"]

-----------------------------------------------------------------------------
Init ==
  /\ rules = Rules /\ deliveries = <<>> /\ auditLog = <<>> /\ auditLock = None
  /\ txn = [p \in Procs |-> Idle]
  /\ received = [d \in Ids |-> 0]
  /\ failures = 0

Set(p, t) == txn' = [txn EXCEPT ![p] = t]
Release(p) == auditLock' = IF auditLock = p THEN None ELSE auditLock

\* enqueue_alert reads the rules that match the event, by its type and site.
Match(p, matched) ==
  /\ txn[p] = Idle
  /\ matched \subseteq rules
  /\ Set(p, [phase |-> "insert", matched |-> matched])
  /\ UNCHANGED <<rules, deliveries, auditLog, auditLock, received, failures>>

Queued(rule) == [rule |-> rule, status |-> "queued", attempts |-> 0, due |-> TRUE]

\* The deliveries are inserted and committed with what was found.
Enqueue(p) ==
  /\ txn[p].phase = "insert"
  /\ txn[p].matched \subseteq rules
  /\ Len(deliveries) + Cardinality(txn[p].matched) <= MaxDeliveries
  /\ LET xs == SetToSeq(txn[p].matched)
     IN  deliveries' = deliveries \o [i \in DOMAIN xs |-> Queued(xs[i])]
  /\ Set(p, Idle)
  /\ UNCHANGED <<rules, auditLog, auditLock, received, failures>>

\* A rule has been deleted since: the foreign key fails the transaction.
EnqueueFails(p) ==
  /\ txn[p].phase = "insert"
  /\ ~(txn[p].matched \subseteq rules)
  /\ Set(p, Idle)
  /\ UNCHANGED <<rules, deliveries, auditLog, auditLock, received, failures>>

\* next_attempt_at comes.
BecomeDue(d) ==
  /\ deliveries[d].status = "retrying" /\ ~deliveries[d].due
  /\ deliveries' = [deliveries EXCEPT ![d].due = TRUE]
  /\ UNCHANGED <<rules, auditLog, auditLock, txn, received, failures>>

\* process_pending.
Select(w) ==
  /\ txn[w] = Idle
  /\ Selectable(w) # {}
  /\ Set(w, [phase |-> "next", todo |-> Batch(w), log |-> <<>>,
             rows |-> [d \in Batch(w) |-> deliveries[d]]])
  /\ UNCHANGED <<rules, deliveries, auditLog, auditLock, received, failures>>

First(w, d) == d \in txn[w].todo /\ \A e \in txn[w].todo : d <= e
Sending(w, d) == txn[w].phase = "next" /\ First(w, d)

\* The endpoint answers 2xx.
SendAccepted(w, d) ==
  /\ Sending(w, d)
  /\ received' = [received EXCEPT ![d] = @ + 1]
  /\ LET row == DeliveredRow(txn[w].rows[d])
     IN  Set(w, [txn[w] EXCEPT !.rows[d] = row, !.phase = "audit"])
  /\ UNCHANGED <<rules, deliveries, auditLog, auditLock, failures>>

\* No address, no connection, a status other than 2xx or no answer in time:
\* the request may have arrived nevertheless.
SendRefused(w, d) ==
  /\ Sending(w, d)
  /\ \/ UNCHANGED received
     \/ received' = [received EXCEPT ![d] = @ + 1]
  /\ LET row == Retry(txn[w].rows[d])
     IN  Set(w, [txn[w] EXCEPT !.rows[d] = row,
                   !.phase = IF row.status = "failed" THEN "audit" ELSE "next",
                   !.todo = IF row.status = "failed" THEN @ ELSE @ \ {d}])
  /\ UNCHANGED <<rules, deliveries, auditLog, auditLock, failures>>

\* append_audit_log for the delivery just settled.
Audit(w) ==
  /\ txn[w].phase = "audit" /\ auditLock \in {None, w}
  /\ auditLock' = w
  /\ \E d \in txn[w].todo :
       /\ First(w, d)
       /\ Set(w, [txn[w] EXCEPT !.phase = "next", !.todo = @ \ {d},
                    !.log = Append(@, [delivery |-> d, status |-> txn[w].rows[d].status])])
  /\ UNCHANGED <<rules, deliveries, auditLog, received, failures>>

\* The whole batch commits.
Commit(w) ==
  /\ txn[w].phase = "next" /\ txn[w].todo = {}
  /\ deliveries' = [d \in DOMAIN deliveries |->
                      IF d \in Locked(w) THEN txn[w].rows[d] ELSE deliveries[d]]
  /\ auditLog' = auditLog \o txn[w].log
  /\ Release(w)
  /\ Set(w, Idle)
  /\ UNCHANGED <<rules, received, failures>>

\* The worker dies, or an exception it does not handle ends it (an answer that
\* is not HTTP, a database error): the outcomes of the batch are lost.
Abort(w) ==
  /\ txn[w].phase \in {"next", "audit"}
  /\ failures < MaxFailures
  /\ failures' = failures + 1
  /\ \/ UNCHANGED received
     \/ \E d \in Ids : Sending(w, d) /\ received' = [received EXCEPT ![d] = @ + 1]
  /\ Release(w)
  /\ Set(w, Idle)
  /\ UNCHANGED <<rules, deliveries, auditLog>>

\* delete_rule finds the rule, marks it deleted and takes the audit lock.
RequestDeletion(p, r) ==
  /\ txn[p] = Idle
  /\ r \in rules
  /\ Set(p, [phase |-> "delete", rule |-> r])
  /\ UNCHANGED <<rules, deliveries, auditLog, auditLock, received, failures>>

LockAudit(p) ==
  /\ txn[p].phase = "delete"
  /\ auditLock = None
  /\ auditLock' = p
  /\ Set(p, [txn[p] EXCEPT !.phase = "cascade"])
  /\ UNCHANGED <<rules, deliveries, auditLog, received, failures>>

\* Mutant: the deletion does not wait for locked deliveries.
AwaitedRowsOfNoOne(p) == {}

\* The rows that DELETE ... ON DELETE CASCADE waits for.
AwaitedBy(p) ==
  {w \in Workers : \E d \in Locked(w) : deliveries[d].rule = txn[p].rule}

DeleteRule(p) ==
  /\ txn[p].phase = "cascade"
  /\ AwaitedBy(p) = {}
  /\ rules' = rules \ {txn[p].rule}
  /\ deliveries' = [d \in DOMAIN deliveries |->
                      IF deliveries[d].rule = txn[p].rule
                      THEN [deliveries[d] EXCEPT !.status = "removed", !.attempts = 0]
                      ELSE deliveries[d]]
  /\ Release(p)
  /\ Set(p, Idle)
  /\ UNCHANGED <<auditLog, received, failures>>

\* A pass waits for the audit lock of a deletion that waits for its rows.
Deadlocked(p, w) ==
  /\ txn[p].phase = "cascade" /\ w \in AwaitedBy(p)
  /\ txn[w].phase = "audit" /\ auditLock = p

\* deadlock_timeout: one of them is aborted; a pass that is, is repeated.
BreakDeadlock(p, w) ==
  /\ Deadlocked(p, w)
  /\ \/ Release(p) /\ Set(p, Idle) /\ UNCHANGED failures
     \/ /\ failures < MaxFailures
        /\ failures' = failures + 1
        /\ Set(w, Idle)
        /\ UNCHANGED auditLock
  /\ UNCHANGED <<rules, deliveries, auditLog, received>>

Pass(w) ==
  \/ Select(w) \/ Audit(w) \/ Commit(w)
  \/ \E d \in DOMAIN deliveries : SendAccepted(w, d) \/ SendRefused(w, d)

Deletion(p) == LockAudit(p) \/ DeleteRule(p) \/ (\E w \in Workers : BreakDeadlock(p, w))

Next ==
  \/ \E p \in Producers :
       (\E matched \in SUBSET Rules : Match(p, matched)) \/ Enqueue(p) \/ EnqueueFails(p)
  \/ \E d \in DOMAIN deliveries : BecomeDue(d)
  \/ \E w \in Workers : Pass(w) \/ Abort(w)
  \/ \E p \in Admins : (\E r \in Rules : RequestDeletion(p, r)) \/ Deletion(p)

Spec == Init /\ [][Next]_vars

\* The worker polls, PostgreSQL queues the waiters of a lock and breaks
\* deadlocks, and time passes.
FairSpec ==
  /\ Spec
  /\ \A w \in Workers : WF_vars(Pass(w)) /\ SF_vars(Audit(w))
  /\ \A p \in Admins : WF_vars(Deletion(p))
  /\ \A d \in Ids : WF_vars(d \in DOMAIN deliveries /\ BecomeDue(d))

-----------------------------------------------------------------------------
\* Every variable has its type; no delivery is locked by two passes.
TypeOK ==
  /\ rules \subseteq Rules
  /\ deliveries \in Seq(Delivery) /\ Len(deliveries) <= MaxDeliveries
  /\ auditLog \in Seq(Outcome)
  /\ auditLock \in Workers \cup Admins \cup {None}
  /\ received \in [Ids -> Nat]
  /\ failures \in 0..MaxFailures
  /\ \A p \in Procs : txn[p].phase \in {"idle", "next", "audit", "delete", "cascade", "insert"}
  /\ \A w, v \in Workers : w # v => Locked(w) \cap Locked(v) = {}

\* The audit log has the outcome of every delivery that has ended, once, and
\* none of a delivery that has not: batches cut off leave nothing behind.
OutcomesAudited ==
  \A d \in DOMAIN deliveries :
    LET records == {i \in DOMAIN auditLog : auditLog[i].delivery = d}
    IN  CASE deliveries[d].status \in {"delivered", "failed"} ->
               /\ Cardinality(records) = 1
               /\ \A i \in records : auditLog[i].status = deliveries[d].status
          [] deliveries[d].status \in {"queued", "retrying"} -> records = {}
          [] OTHER -> Cardinality(records) <= 1

\* An endpoint receives a delivery no more often than it was attempted, except
\* for attempts that a cut-off batch has forgotten, at most one for each.
DuplicatesOnlyFromFailures ==
  \A d \in DOMAIN deliveries :
    deliveries[d].status # "removed" =>
      LET holder == {w \in Workers : d \in Locked(w)}
          made == IF holder = {} THEN deliveries[d].attempts
                  ELSE txn[CHOOSE w \in holder : TRUE].rows[d].attempts
      IN  received[d] <= made + failures

\* Once a deletion is answered, no request is sent for the rule any more, though
\* a pass may have read the rule before.
DeletedRulesAreSilent ==
  [][\A d \in DOMAIN deliveries :
       received'[d] # received[d] => deliveries[d].rule \in rules]_vars

State(d) == IF d \in DOMAIN deliveries THEN deliveries[d].status ELSE "unborn"
Attempts(d) == IF d \in DOMAIN deliveries THEN deliveries[d].attempts ELSE 0

Lifecycle == INSTANCE DeliveryLifecycle
  WITH state <- [d \in Ids |-> State(d)], attempts <- [d \in Ids |-> Attempts(d)],
       MayAbandon <- FALSE

\* Concurrent passes, lost batches and deletions keep each delivery to its
\* life: an attempt counts once, the last one decides, and ends are final.
ImplementsLifecycle == Lifecycle!Spec

\* Every delivery ends: it is delivered, fails for good or goes with its rule,
\* through deadlocks with deletions and passes that are cut off.
DeliveriesEnd ==
  \A d \in Ids :
    (d \in DOMAIN deliveries) ~>
      (d \in DOMAIN deliveries /\ deliveries[d].status \in {"delivered", "failed", "removed"})
=============================================================================
