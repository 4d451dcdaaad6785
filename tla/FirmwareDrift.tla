---------------------------- MODULE FirmwareDrift ----------------------------
(***************************************************************************)
(* Firmware baseline and drift of one asset: the identification part of    *)
(* ingest_modbus with _apply_firmware_version (ingestion.py), and the      *)
(* administrator's set_firmware_baseline and clear_firmware_baseline       *)
(* (admin.py), as transactions that load the asset row FOR UPDATE, change  *)
(* some of its columns and commit.                                         *)
(*                                                                         *)
(* Sensors deliver captures late and in any order; each is applied once    *)
(* (see Ingestion).  Versions are texts that str.strip may change: Strip   *)
(* maps each to its stripped text, or to None if nothing is left.          *)
(* Of firmware_drift_detected_at only whether it is NULL is kept.          *)
(***************************************************************************)
EXTENDS Integers, Sequences, FiniteSets

CONSTANTS Procs,        \* API workers
          Versions,     \* revision texts
          Strip,        \* version -> stripped version, or None
          None,         \* NULL
          MaxCaptures,  \* bound on identification responses captured
          MaxRequests   \* bound on administrator requests

ASSUME VersionsAssumption ==
  /\ None \notin Versions
  /\ Strip \in [Versions -> Versions \cup {None}]
  /\ MaxRequests \in Nat

VARIABLES asset,      \* the committed row: version, baseline, drift
          auditLog,   \* the firmware.* records committed for the asset
          alerts,     \* firmware_drift events committed to the outbox
          captured,   \* identification responses on the wire, oldest first
          applied,    \* indices of the captures committed, in commit order
          txn,        \* each worker's open transaction
          requests    \* administrator requests so far

vars == <<asset, auditLog, alerts, captured, applied, txn, requests>>
row == <<asset, auditLog, alerts, applied>>

Text == Versions \cup {None}
Row == [version : Text, baseline : Text, drift : BOOLEAN]
Record == [action : {"detected", "resolved", "baseline_set", "baseline_cleared"},
           drift : BOOLEAN]

\* An identification response being applied, a baseline being set to a text
\* or to what is observed (None), a baseline being cleared.
Operation == [kind : {"observe"}, capture : Nat]
             \cup [kind : {"set"}, requested : Text]
             \cup [kind : {"clear"}]
Idle == [phase |-> "idle"]
Transaction == {Idle} \cup [phase : {"load"}, op : Operation]
               \cup [phase : {"commit"}, op : Operation, loaded : Row, new : Row,
                     records : Seq(Record)]

Busy(p) == txn[p].phase # "idle"

\* SELECT ... FOR UPDATE waits for the transaction that has the row.
RowFree(p) == \A q \in Procs \ {p} : txn[q].phase # "commit"

-----------------------------------------------------------------------------
Drifts(version, baseline) == baseline # None /\ version # None /\ version # baseline

\* _apply_firmware_version: the row after an observed revision.
Apply(r, version) ==
  [r EXCEPT !.version = version, !.drift = Drifts(version, r.baseline)]

\* Mutant: drift is recorded on every differing response.
TransitionsEachTime(r, n) ==
  IF n.drift THEN <<[action |-> "detected", drift |-> TRUE]>>
  ELSE IF r.drift THEN <<[action |-> "resolved", drift |-> FALSE]>>
  ELSE <<>>

\* Mutant: the end of drift is not recorded.
TransitionsIntoDrift(r, n) ==
  IF n.drift /\ ~r.drift THEN <<[action |-> "detected", drift |-> TRUE]>> ELSE <<>>

\* The audit records of an observed revision: transitions only.
Transitions(r, n) ==
  IF n.drift /\ ~r.drift THEN <<[action |-> "detected", drift |-> TRUE]>>
  ELSE IF ~n.drift /\ r.drift THEN <<[action |-> "resolved", drift |-> FALSE]>>
  ELSE <<>>

\* set_firmware_baseline: the requested text, or else the observed version,
\* stripped; None is the 409 "no observed firmware is available to baseline".
Chosen(r, requested) ==
  LET text == IF requested # None THEN requested ELSE r.version
  IN  IF text = None THEN None ELSE Strip[text]

SetBaseline(r, requested) ==
  [r EXCEPT !.baseline = Chosen(r, requested),
            !.drift = Drifts(r.version, Chosen(r, requested))]

ClearBaseline(r) == [r EXCEPT !.baseline = None, !.drift = FALSE]

-----------------------------------------------------------------------------
Init ==
  /\ asset = [version |-> None, baseline |-> None, drift |-> FALSE]
  /\ auditLog = <<>> /\ alerts = 0 /\ captured = <<>> /\ applied = <<>>
  /\ txn = [p \in Procs |-> Idle]
  /\ requests = 0

\* A device answers an identification request that a sensor overhears.
Capture(v) ==
  /\ Len(captured) < MaxCaptures
  /\ captured' = Append(captured, v)
  /\ UNCHANGED <<row, txn, requests>>

Open(p, operation) == txn' = [txn EXCEPT ![p] = [phase |-> "load", op |-> operation]]

Applying(i) ==
  \E p \in Procs : Busy(p) /\ txn[p].op.kind = "observe" /\ txn[p].op.capture = i

\* Any capture not applied yet may be the next to be delivered.
Deliver(p, i) ==
  /\ ~Busy(p)
  /\ i \notin {applied[j] : j \in DOMAIN applied} /\ ~Applying(i)
  /\ Open(p, [kind |-> "observe", capture |-> i])
  /\ UNCHANGED <<row, captured, requests>>

\* PUT .../firmware-baseline.  The console's "Set current firmware as
\* baseline" sends no version.
RequestSet(p, requested) ==
  /\ ~Busy(p)
  /\ requests < MaxRequests
  /\ requests' = requests + 1
  /\ Open(p, [kind |-> "set", requested |-> requested])
  /\ UNCHANGED <<row, captured>>

\* DELETE .../firmware-baseline.
RequestClear(p) ==
  /\ ~Busy(p)
  /\ requests < MaxRequests
  /\ requests' = requests + 1
  /\ Open(p, [kind |-> "clear"])
  /\ UNCHANGED <<row, captured>>

\* The row is loaded under its lock and changed in the session.
Change(p, new, records) ==
  txn' = [txn EXCEPT ![p] = [phase |-> "commit", op |-> txn[p].op, loaded |-> asset,
                             new |-> new, records |-> records]]

Loading(p, kind) == txn[p].phase = "load" /\ txn[p].op.kind = kind /\ RowFree(p)

LoadAndApply(p) ==
  /\ Loading(p, "observe")
  /\ LET new == Apply(asset, captured[txn[p].op.capture])
     IN  Change(p, new, Transitions(asset, new))
  /\ UNCHANGED <<row, captured, requests>>

\* Mutant: set_firmware_baseline loads the row without FOR UPDATE.
LoadAndSetUnlocked(p) ==
  /\ txn[p].phase = "load" /\ txn[p].op.kind = "set"
  /\ Chosen(asset, txn[p].op.requested) # None
  /\ LET new == SetBaseline(asset, txn[p].op.requested)
     IN  Change(p, new, <<[action |-> "baseline_set", drift |-> new.drift]>>)
  /\ UNCHANGED <<row, captured, requests>>

LoadAndSet(p) ==
  /\ Loading(p, "set")
  /\ Chosen(asset, txn[p].op.requested) # None
  /\ LET new == SetBaseline(asset, txn[p].op.requested)
     IN  Change(p, new, <<[action |-> "baseline_set", drift |-> new.drift]>>)
  /\ UNCHANGED <<row, captured, requests>>

\* 409: nothing observed, or only blanks.
RefuseSet(p) ==
  /\ Loading(p, "set")
  /\ Chosen(asset, txn[p].op.requested) = None
  /\ txn' = [txn EXCEPT ![p] = Idle]
  /\ UNCHANGED <<row, captured, requests>>

LoadAndClear(p) ==
  /\ Loading(p, "clear")
  /\ Change(p, ClearBaseline(asset), <<[action |-> "baseline_cleared", drift |-> FALSE]>>)
  /\ UNCHANGED <<row, captured, requests>>

\* SQLAlchemy writes the columns whose value the session has changed.
Written(t) ==
  [c \in DOMAIN asset |-> IF t.new[c] # t.loaded[c] THEN t.new[c] ELSE asset[c]]

AlertsOf(records) == Cardinality({i \in DOMAIN records : records[i].action = "detected"})

\* The row, the audit records and the outbox rows commit together.
Commit(p) ==
  LET t == txn[p]
  IN  /\ t.phase = "commit"
      /\ asset' = Written(t)
      /\ auditLog' = auditLog \o t.records
      /\ alerts' = alerts + AlertsOf(t.records)
      /\ applied' = IF t.op.kind = "observe" THEN Append(applied, t.op.capture)
                    ELSE applied
      /\ txn' = [txn EXCEPT ![p] = Idle]
      /\ UNCHANGED <<captured, requests>>

\* A database error or the death of the worker; a capture is sent again.
Fail(p) ==
  /\ Busy(p)
  /\ txn' = [txn EXCEPT ![p] = Idle]
  /\ UNCHANGED <<row, captured, requests>>

Next ==
  \/ \E v \in Versions : Capture(v)
  \/ \E p \in Procs :
       \/ \E i \in DOMAIN captured : Deliver(p, i)
       \/ \E requested \in Text : RequestSet(p, requested)
       \/ RequestClear(p)
       \/ LoadAndApply(p) \/ LoadAndSet(p) \/ RefuseSet(p) \/ LoadAndClear(p)
       \/ Commit(p)
       \/ Fail(p)

Spec == Init /\ [][Next]_vars

-----------------------------------------------------------------------------
\* Every variable has its type; the row lock has at most one holder.
TypeOK ==
  /\ asset \in Row
  /\ auditLog \in Seq(Record)
  /\ alerts \in Nat
  /\ captured \in Seq(Versions)
  /\ applied \in Seq(Nat)
  /\ requests \in 0..MaxRequests
  /\ txn \in [Procs -> Transaction]
  /\ \A p, q \in Procs :
       txn[p].phase = "commit" /\ txn[q].phase = "commit" => p = q

\* The drift flag the console, the exports and the site summary show is true
\* exactly when there is a baseline and the version observed differs from it,
\* whatever observations and administrators race each other.
DriftConsistent == asset.drift <=> Drifts(asset.version, asset.baseline)

\* The audit log alone tells an auditor whether the asset is in drift: no
\* transition is missing from it and none is recorded that did not commit.
AuditTellsDrift ==
  asset.drift <=> Len(auditLog) > 0 /\ auditLog[Len(auditLog)].drift

\* Each drift that responses reveal is alerted once, through crashes, retries
\* and workers that apply differing responses at the same time: there is one
\* outbox event per firmware.drift_detected record, and between two of those
\* records the asset was out of drift.
AlertedOncePerDrift ==
  LET detections == {i \in DOMAIN auditLog : auditLog[i].action = "detected"}
  IN  /\ alerts = Cardinality(detections)
      /\ \A i, j \in detections :
           i < j => \E k \in i+1 .. j-1 : ~auditLog[k].drift

=============================================================================
