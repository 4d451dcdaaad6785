------------------------ MODULE FirmwareDrift_proofs ------------------------
(***************************************************************************)
(* Machine-checked proofs that the drift flag of FirmwareDrift is always   *)
(* true to the row it is in, that the audit log tells of it, and that a    *)
(* drift is alerted once, for any number of workers, any versions and any  *)
(* stripping, and any bounds.                                              *)
(***************************************************************************)
EXTENDS FirmwareDrift, FiniteSetTheorems, TLAPS

\* A delivery in progress is of a capture there is.
CapturesExist ==
  \A p \in Procs :
    Busy(p) /\ txn[p].op.kind = "observe" => txn[p].op.capture \in DOMAIN captured

\* The worker that has the row locked loaded it as it still is, and what it
\* is about to write is consistent.
LoadedIsCurrent ==
  \A p \in Procs :
    txn[p].phase = "commit" =>
      /\ txn[p].loaded = asset
      /\ txn[p].new.drift <=> Drifts(txn[p].new.version, txn[p].new.baseline)

IInv == TypeOK /\ CapturesExist /\ LoadedIsCurrent /\ DriftConsistent

-----------------------------------------------------------------------------
\* Reading a field of an idle transaction is never needed: these are the two
\* shapes of a busy one.
LEMMA BusyShape ==
  ASSUME NEW t \in Transaction
  PROVE  /\ t.phase \in {"idle", "load", "commit"}
         /\ t.phase = "idle" => t = Idle
         /\ t.phase \in {"load", "commit"} => t.op \in Operation
         /\ t.phase = "commit" => /\ t.loaded \in Row /\ t.new \in Row
                                  /\ t.records \in Seq(Record)
BY DEF Transaction, Idle

LEMMA OperationShape ==
  ASSUME NEW o \in Operation
  PROVE  /\ o.kind \in {"observe", "set", "clear"}
         /\ o.kind = "observe" => o.capture \in Nat
         /\ o.kind = "set" => o.requested \in Text
BY DEF Operation

\* Writing the changed columns over the row they were computed from writes
\* the new row.
LEMMA WrittenIsNew ==
  ASSUME NEW t, t.loaded = asset, t.new \in Row, asset \in Row
  PROVE  Written(t) = t.new
<1>1. DOMAIN asset = {"version", "baseline", "drift"}
  BY DEF Row
<1>2. Written(t) = [c \in DOMAIN asset |-> t.new[c]]
  BY DEF Written
<1>3. t.new = [c \in {"version", "baseline", "drift"} |-> t.new[c]]
  BY DEF Row
<1> QED BY <1>1, <1>2, <1>3

\* The number of alerts of a transaction is a number.
LEMMA AlertsOfType ==
  ASSUME NEW records \in Seq(Record)
  PROVE  AlertsOf(records) \in Nat
<1>1. IsFiniteSet(1..Len(records))
  BY FS_Interval
<1>2. IsFiniteSet({i \in DOMAIN records : records[i].action = "detected"})
  BY <1>1, FS_Subset
<1> QED BY <1>2, FS_CardinalityType DEF AlertsOf

\* One audit record, or none, is a sequence of records.
LEMMA OneRecord ==
  ASSUME NEW r \in Record
  PROVE  <<r>> \in Seq(Record) /\ <<>> \in Seq(Record)
OBVIOUS

\* What an observed revision makes of a row.
LEMMA ApplyIsConsistent ==
  ASSUME NEW r \in Row, NEW v \in Versions
  PROVE  /\ Apply(r, v) \in Row
         /\ Apply(r, v).drift <=> Drifts(Apply(r, v).version, Apply(r, v).baseline)
<1> DEFINE b == Drifts(v, r.baseline)
<1>1. b \in BOOLEAN
  BY DEF Drifts
<1> HIDE DEF b
<1>2. LET n == [r EXCEPT !.version = v, !.drift = b]
      IN  n \in Row /\ n.version = v /\ n.baseline = r.baseline /\ n.drift = b
  BY <1>1 DEF Row, Text
<1> QED BY <1>2 DEF b, Apply

\* What a new baseline makes of a row.
LEMMA SetBaselineIsConsistent ==
  ASSUME NEW r \in Row, NEW requested \in Text
  PROVE  LET n == SetBaseline(r, requested)
         IN  n \in Row /\ (n.drift <=> Drifts(n.version, n.baseline))
<1> DEFINE c == Chosen(r, requested)
           b == Drifts(r.version, c)
<1>1. b \in BOOLEAN /\ c \in Text
  BY VersionsAssumption DEF Drifts, Chosen, Row, Text
<1> HIDE DEF b, c
<1>2. LET n == [r EXCEPT !.baseline = c, !.drift = b]
      IN  n \in Row /\ n.version = r.version /\ n.baseline = c /\ n.drift = b
  BY <1>1 DEF Row
<1> QED BY <1>2 DEF b, c, SetBaseline

-----------------------------------------------------------------------------
LEMMA InitEstablishesIInv == ASSUME Init PROVE IInv
<1> USE DEF Init
<1>1. asset \in Row /\ Idle \in Transaction
  BY DEF Row, Text, Transaction
<1>2. Idle.phase = "idle"
  BY DEF Idle
<1>3. TypeOK
  <2>1. txn \in [Procs -> Transaction]
    BY <1>1
  <2>2. requests \in 0..MaxRequests
    BY VersionsAssumption
  <2>3. \A p \in Procs : txn[p].phase # "commit"
    BY <1>2
  <2> QED BY <1>1, <2>1, <2>2, <2>3 DEF TypeOK
<1>4. CapturesExist /\ LoadedIsCurrent
  BY <1>2 DEF CapturesExist, LoadedIsCurrent, Busy
<1>5. DriftConsistent
  BY DEF DriftConsistent, Drifts
<1> QED BY <1>3, <1>4, <1>5 DEF IInv

\* A worker that starts an operation or gives one up touches nothing else.
LEMMA OpenOrClose ==
  ASSUME IInv, NEW p \in Procs, NEW t \in Transaction,
         t.phase # "commit",
         t.phase = "load" /\ t.op.kind = "observe" => t.op.capture \in DOMAIN captured,
         txn' = [txn EXCEPT ![p] = t],
         UNCHANGED <<asset, auditLog, alerts, applied, captured>>,
         requests' \in 0..MaxRequests
  PROVE  IInv'
<1> USE DEF IInv
<1>1. TypeOK'
  BY DEF TypeOK
<1>2. \A q \in Procs : txn'[q] = IF q = p THEN t ELSE txn[q]
  BY DEF TypeOK
<1>3. t.phase \in {"idle", "load"}
  BY BusyShape
<1>4. CapturesExist'
  BY <1>2, <1>3 DEF CapturesExist, Busy
<1>5. LoadedIsCurrent'
  BY <1>2 DEF LoadedIsCurrent
<1>6. DriftConsistent'
  BY DEF DriftConsistent
<1> QED BY <1>1, <1>4, <1>5, <1>6

\* A worker that gets the row locked and computes a consistent new row.
LEMMA LoadKeepsIInv ==
  ASSUME IInv, NEW p \in Procs, txn[p].phase = "load", RowFree(p),
         NEW new \in Row, NEW records \in Seq(Record),
         new.drift <=> Drifts(new.version, new.baseline),
         Change(p, new, records),
         UNCHANGED <<asset, auditLog, alerts, applied, captured, requests>>
  PROVE  IInv'
<1> USE DEF IInv
<1> DEFINE t == [phase |-> "commit", op |-> txn[p].op, loaded |-> asset,
                 new |-> new, records |-> records]
<1>1. txn[p] \in Transaction /\ txn[p].op \in Operation
  BY BusyShape DEF TypeOK
<1>2. t \in Transaction
  BY <1>1 DEF TypeOK, Transaction
<1>3. \A q \in Procs : txn'[q] = IF q = p THEN t ELSE txn[q]
  BY DEF TypeOK, Change
<1>4. TypeOK'
  <2>1. txn' \in [Procs -> Transaction]
    BY <1>2 DEF TypeOK, Change
  <2>2. \A q, r \in Procs : txn'[q].phase = "commit" /\ txn'[r].phase = "commit" => q = r
    BY <1>3 DEF RowFree
  <2> QED BY <2>1, <2>2 DEF TypeOK
<1>5. CapturesExist'
  BY <1>3 DEF CapturesExist, Busy
<1>6. LoadedIsCurrent'
  BY <1>3, t.loaded = asset, t.new = new DEF LoadedIsCurrent
<1>7. DriftConsistent'
  BY DEF DriftConsistent
<1> QED BY <1>4, <1>5, <1>6, <1>7

LEMMA NextKeepsIInv == IInv /\ [Next]_vars => IInv'
<1> SUFFICES ASSUME IInv, [Next]_vars PROVE IInv'
  OBVIOUS
<1> USE DEF IInv, row
<1>0. /\ Idle \in Transaction /\ Idle.phase = "idle"
      /\ \A o \in Operation : [phase |-> "load", op |-> o] \in Transaction
  BY DEF Idle, Transaction
<1>1. ASSUME NEW v \in Versions, Capture(v) PROVE IInv'
  <2>1. captured' \in Seq(Versions) /\ Len(captured') = Len(captured) + 1
    BY <1>1 DEF Capture, TypeOK
  <2>2. DOMAIN captured \subseteq DOMAIN captured'
    BY <1>1, <2>1 DEF TypeOK
  <2>3. TypeOK'
    BY <1>1, <2>1 DEF Capture, TypeOK
  <2>4. CapturesExist'
    BY <1>1, <2>2 DEF Capture, CapturesExist, Busy
  <2>5. LoadedIsCurrent' /\ DriftConsistent'
    BY <1>1 DEF Capture, LoadedIsCurrent, DriftConsistent
  <2> QED BY <2>3, <2>4, <2>5
<1>2. ASSUME NEW p \in Procs, NEW i \in DOMAIN captured, Deliver(p, i) PROVE IInv'
  <2> DEFINE o == [kind |-> "observe", capture |-> i]
  <2>1. o \in Operation /\ o.capture = i
    BY DEF TypeOK, Operation
  <2> HIDE DEF o
  <2>2. txn' = [txn EXCEPT ![p] = [phase |-> "load", op |-> o]]
    BY <1>2 DEF Deliver, Open, o
  <2>3. UNCHANGED <<asset, auditLog, alerts, applied, captured, requests>>
    BY <1>2 DEF Deliver
  <2> QED BY <1>0, <2>1, <2>2, <2>3, OpenOrClose DEF TypeOK
<1>3. ASSUME NEW p \in Procs, NEW requested \in Text, RequestSet(p, requested)
      PROVE  IInv'
  <2> DEFINE o == [kind |-> "set", requested |-> requested]
  <2>1. o \in Operation /\ o.kind = "set"
    BY DEF Operation
  <2> HIDE DEF o
  <2>2. txn' = [txn EXCEPT ![p] = [phase |-> "load", op |-> o]]
    BY <1>3 DEF RequestSet, Open, o
  <2>3. /\ UNCHANGED <<asset, auditLog, alerts, applied, captured>>
        /\ requests' \in 0..MaxRequests
    BY <1>3, VersionsAssumption DEF RequestSet, TypeOK
  <2> QED BY <1>0, <2>1, <2>2, <2>3, OpenOrClose DEF TypeOK
<1>4. ASSUME NEW p \in Procs, RequestClear(p) PROVE IInv'
  <2> DEFINE o == [kind |-> "clear"]
  <2>1. o \in Operation /\ o.kind = "clear"
    BY DEF Operation
  <2> HIDE DEF o
  <2>2. txn' = [txn EXCEPT ![p] = [phase |-> "load", op |-> o]]
    BY <1>4 DEF RequestClear, Open, o
  <2>3. /\ UNCHANGED <<asset, auditLog, alerts, applied, captured>>
        /\ requests' \in 0..MaxRequests
    BY <1>4, VersionsAssumption DEF RequestClear, TypeOK
  <2> QED BY <1>0, <2>1, <2>2, <2>3, OpenOrClose DEF TypeOK
<1>5. ASSUME NEW p \in Procs, LoadAndApply(p) PROVE IInv'
  <2> DEFINE v == captured[txn[p].op.capture]
             new == Apply(asset, v)
  <2>1. v \in Versions
    BY <1>5 DEF LoadAndApply, Loading, CapturesExist, Busy, TypeOK
  <2>2. Transitions(asset, new) \in Seq(Record)
    <3>1. /\ [action |-> "detected", drift |-> TRUE] \in Record
          /\ [action |-> "resolved", drift |-> FALSE] \in Record
      BY DEF Record
    <3> QED BY <3>1, OneRecord DEF Transitions
  <2>3. new \in Row /\ (new.drift <=> Drifts(new.version, new.baseline))
    BY <2>1, ApplyIsConsistent DEF TypeOK
  <2> QED BY <1>5, <2>2, <2>3, LoadKeepsIInv DEF LoadAndApply, Loading
<1>6. ASSUME NEW p \in Procs, LoadAndSet(p) PROVE IInv'
  <2> DEFINE q == txn[p].op.requested
             new == SetBaseline(asset, q)
  <2>1. q \in Text
    BY <1>6, BusyShape, OperationShape DEF LoadAndSet, Loading, TypeOK
  <2>2. new \in Row /\ (new.drift <=> Drifts(new.version, new.baseline))
    BY <2>1, SetBaselineIsConsistent DEF TypeOK
  <2>3. <<[action |-> "baseline_set", drift |-> new.drift]>> \in Seq(Record)
    <3>1. new.drift \in BOOLEAN
      BY <2>2 DEF Row
    <3> HIDE DEF new
    <3>2. [action |-> "baseline_set", drift |-> new.drift] \in Record
      BY <3>1 DEF Record
    <3> QED BY <3>2, OneRecord
  <2>4. /\ txn[p].phase = "load" /\ RowFree(p)
        /\ Change(p, new, <<[action |-> "baseline_set", drift |-> new.drift]>>)
        /\ UNCHANGED <<asset, auditLog, alerts, applied, captured, requests>>
    <3>1. txn[p].phase = "load" /\ RowFree(p)
      BY <1>6 DEF LoadAndSet, Loading
    <3>2. Change(p, new, <<[action |-> "baseline_set", drift |-> new.drift]>>)
      BY <1>6, Zenon DEF LoadAndSet
    <3>3. UNCHANGED <<asset, auditLog, alerts, applied, captured, requests>>
      BY <1>6 DEF LoadAndSet
    <3> QED BY <3>1, <3>2, <3>3
  <2> HIDE DEF new
  <2> QED BY <2>2, <2>3, <2>4, LoadKeepsIInv
<1>7. ASSUME NEW p \in Procs, RefuseSet(p) PROVE IInv'
  BY <1>0, <1>7, OpenOrClose DEF RefuseSet, TypeOK
<1>8. ASSUME NEW p \in Procs, LoadAndClear(p) PROVE IInv'
  <2> DEFINE new == ClearBaseline(asset)
  <2>1. new \in Row /\ (new.drift <=> Drifts(new.version, new.baseline))
    <3>1. /\ new.version = asset.version /\ new.baseline = None /\ new.drift = FALSE
          /\ new \in Row
      BY DEF ClearBaseline, Row, Text, TypeOK
    <3> QED BY <3>1 DEF Drifts
  <2>2. <<[action |-> "baseline_cleared", drift |-> FALSE]>> \in Seq(Record)
    BY DEF Record
  <2> QED BY <1>8, <2>1, <2>2, LoadKeepsIInv DEF LoadAndClear, Loading
<1>9. ASSUME NEW p \in Procs, Commit(p) PROVE IInv'
  <2> DEFINE t == txn[p]
  <2>1. /\ t.phase = "commit" /\ asset' = Written(t) /\ auditLog' = auditLog \o t.records
        /\ alerts' = alerts + AlertsOf(t.records)
        /\ applied' = IF t.op.kind = "observe" THEN Append(applied, t.op.capture)
                      ELSE applied
        /\ txn' = [txn EXCEPT ![p] = Idle]
        /\ UNCHANGED <<captured, requests>>
    BY <1>9 DEF Commit
  <2>2. /\ t.op \in Operation /\ t.new \in Row /\ t.records \in Seq(Record)
        /\ t.loaded = asset /\ (t.new.drift <=> Drifts(t.new.version, t.new.baseline))
    BY <2>1, BusyShape DEF TypeOK, LoadedIsCurrent
  <2>3. asset' = t.new
    BY <2>1, <2>2, WrittenIsNew DEF TypeOK
  <2>4. \A q \in Procs : txn'[q] = IF q = p THEN Idle ELSE txn[q]
    BY <2>1 DEF TypeOK
  <2>5. ASSUME NEW q \in Procs PROVE txn'[q].phase # "commit"
    <3>1. CASE q = p
      BY <1>0, <2>4, <3>1
    <3>2. CASE q # p
      <4>1. txn[q].phase # "commit"
        BY <2>1, <3>2 DEF TypeOK
      <4> QED BY <2>4, <3>2, <4>1
    <3> QED BY <3>1, <3>2
  <2>6. TypeOK'
    <3>1. alerts' \in Nat
      BY <2>1, <2>2, AlertsOfType DEF TypeOK
    <3>2. applied' \in Seq(Nat)
      <4>1. CASE t.op.kind = "observe"
        <5>1. t.op.capture \in Nat
          BY <2>2, <4>1, OperationShape
        <5> QED BY <2>1, <4>1, <5>1 DEF TypeOK
      <4>2. CASE t.op.kind # "observe"
        BY <2>1, <4>2 DEF TypeOK
      <4> QED BY <4>1, <4>2
    <3>3. auditLog' \in Seq(Record)
      BY <2>1, <2>2 DEF TypeOK
    <3>4. txn' \in [Procs -> Transaction]
      BY <1>0, <2>1 DEF TypeOK
    <3> QED BY <2>1, <2>2, <2>3, <2>5, <3>1, <3>2, <3>3, <3>4 DEF TypeOK
  <2>7. CapturesExist'
    BY <1>0, <2>1, <2>4 DEF CapturesExist, Busy
  <2>8. LoadedIsCurrent'
    BY <2>5 DEF LoadedIsCurrent
  <2>9. DriftConsistent'
    BY <2>2, <2>3 DEF DriftConsistent
  <2> QED BY <2>6, <2>7, <2>8, <2>9
<1>10. ASSUME NEW p \in Procs, Fail(p) PROVE IInv'
  BY <1>0, <1>10, OpenOrClose DEF Fail, TypeOK
<1>11. CASE UNCHANGED vars
  BY <1>11 DEF vars, TypeOK, CapturesExist, Busy, LoadedIsCurrent, DriftConsistent
<1> QED BY <1>1, <1>2, <1>3, <1>4, <1>5, <1>6, <1>7, <1>8, <1>9, <1>10, <1>11
        DEF Next

LEMMA Invariant == Spec => []IInv
BY InitEstablishesIInv, NextKeepsIInv, PTL DEF Spec

\* Every variable keeps its type, and the asset row one lock holder.
THEOREM TypeCorrect == Spec => []TypeOK
<1>1. IInv => TypeOK
  BY DEF IInv
<1> QED BY <1>1, Invariant, PTL

\* The drift flag is true exactly when the observed version differs from the
\* baseline there is.
THEOREM DriftIsConsistent == Spec => []DriftConsistent
<1>1. IInv => DriftConsistent
  BY DEF IInv
<1> QED BY <1>1, Invariant, PTL

-----------------------------------------------------------------------------
(* What the audit log tells.  A transaction writes at most one record, and  *)
(* that one says what the new row says; one that writes none leaves the     *)
(* flag as it was; only one that puts the flag up writes "detected".        *)

Tells(loaded, new, records) ==
  /\ Len(records) \in {0, 1}
  /\ Len(records) = 0 => new.drift = loaded.drift
  /\ Len(records) = 1 =>
       /\ records[1].drift = new.drift
       /\ records[1].action = "detected" => new.drift /\ ~loaded.drift

RecordsTellRow ==
  \A p \in Procs :
    txn[p].phase = "commit" => Tells(txn[p].loaded, txn[p].new, txn[p].records)

Detections == {i \in DOMAIN auditLog : auditLog[i].action = "detected"}

DetectionsDrift == \A i \in Detections : auditLog[i].drift

Chronicle == RecordsTellRow /\ DetectionsDrift /\ AuditTellsDrift /\ AlertedOncePerDrift

LEMMA InitEstablishesChronicle == ASSUME Init PROVE Chronicle
<1>1. RecordsTellRow
  BY DEF Init, RecordsTellRow, Idle
<1>2. Detections = {} /\ AuditTellsDrift
  BY DEF Init, Detections, AuditTellsDrift
<1>3. AlertedOncePerDrift
  BY <1>2, FS_EmptySet DEF Init, Detections, AlertedOncePerDrift
<1> QED BY <1>1, <1>2, <1>3 DEF Chronicle, DetectionsDrift

\* While nothing is committed, only what the changed transaction is going to
\* write has to be looked at.
LEMMA SilentStep ==
  ASSUME IInv, Chronicle, NEW p \in Procs, NEW t,
         txn' = [txn EXCEPT ![p] = t],
         t.phase = "commit" => Tells(t.loaded, t.new, t.records),
         UNCHANGED <<asset, auditLog, alerts>>
  PROVE  Chronicle'
<1>1. \A q \in Procs : txn'[q] = IF q = p THEN t ELSE txn[q]
  BY DEF IInv, TypeOK
<1>2. RecordsTellRow'
  BY <1>1 DEF Chronicle, RecordsTellRow
<1>3. DetectionsDrift' /\ AuditTellsDrift' /\ AlertedOncePerDrift'
  BY DEF Chronicle, DetectionsDrift, Detections, AuditTellsDrift, AlertedOncePerDrift
<1> QED BY <1>2, <1>3 DEF Chronicle

\* A single record that has the new flag.
LEMMA OneTells ==
  ASSUME NEW r, NEW n, NEW a, NEW d, d = n.drift,
         a = "detected" => n.drift /\ ~r.drift
  PROVE  Tells(r, n, <<[action |-> a, drift |-> d]>>)
<1> DEFINE records == <<[action |-> a, drift |-> d]>>
<1>1. Len(records) = 1 /\ records[1] = [action |-> a, drift |-> d]
  OBVIOUS
<1>2. records[1].action = a /\ records[1].drift = d
  BY <1>1
<1> HIDE DEF records
<1>3. Tells(r, n, records)
  BY <1>1, <1>2 DEF Tells
<1> QED BY <1>3 DEF records

\* The records of an observed revision.
LEMMA TransitionsTell ==
  ASSUME NEW r \in Row, NEW n \in Row
  PROVE  Tells(r, n, Transitions(r, n))
<1>1. r.drift \in BOOLEAN /\ n.drift \in BOOLEAN
  BY DEF Row
<1>2. CASE n.drift /\ ~r.drift
  <2>1. Transitions(r, n) = <<[action |-> "detected", drift |-> TRUE]>>
    BY <1>2 DEF Transitions
  <2>2. n.drift = TRUE
    BY <1>1, <1>2
  <2> QED BY <1>2, <2>1, <2>2, OneTells
<1>3. CASE ~n.drift /\ r.drift
  <2>1. Transitions(r, n) = <<[action |-> "resolved", drift |-> FALSE]>>
    BY <1>3 DEF Transitions
  <2>2. n.drift = FALSE
    BY <1>1, <1>3
  <2> QED BY <2>1, <2>2, OneTells
<1>4. CASE n.drift = r.drift
  <2>1. Transitions(r, n) = <<>>
    BY <1>1, <1>4 DEF Transitions
  <2> QED BY <1>4, <2>1 DEF Tells
<1> QED BY <1>1, <1>2, <1>3, <1>4

\* A commit that has no record for the log.
LEMMA CommitSilently ==
  ASSUME IInv, Chronicle, asset'.drift = asset.drift,
         auditLog' = auditLog, alerts' = alerts
  PROVE  DetectionsDrift' /\ AuditTellsDrift' /\ AlertedOncePerDrift'
BY DEF Chronicle, DetectionsDrift, Detections, AuditTellsDrift, AlertedOncePerDrift

LEMMA ConcatOne ==
  ASSUME NEW s \in Seq(Record), NEW r \in Record
  PROVE  s \o <<r>> = Append(s, r)
OBVIOUS

\* A commit that adds one record to the log.
LEMMA CommitOneRecord ==
  ASSUME IInv, Chronicle, NEW r \in Record,
         auditLog' = Append(auditLog, r),
         r.drift = asset'.drift, asset'.drift \in BOOLEAN,
         r.action = "detected" => r.drift /\ ~asset.drift,
         alerts' = IF r.action = "detected" THEN alerts + 1 ELSE alerts
  PROVE  DetectionsDrift' /\ AuditTellsDrift' /\ AlertedOncePerDrift'
<1> DEFINE n == Len(auditLog)
<1>1. /\ auditLog \in Seq(Record) /\ n \in Nat /\ DOMAIN auditLog = 1..n
      /\ Len(auditLog') = n + 1 /\ DOMAIN auditLog' = 1..(n + 1)
      /\ auditLog'[n + 1] = r
      /\ \A i \in 1..n : auditLog'[i] = auditLog[i]
  BY DEF IInv, TypeOK
<1>2. Detections' = IF r.action = "detected" THEN Detections \cup {n + 1} ELSE Detections
  BY <1>1 DEF Detections
<1>3. /\ Detections \subseteq 1..n /\ n + 1 \notin Detections
      /\ IsFiniteSet(Detections)
  <2>1. Detections \subseteq 1..n /\ n + 1 \notin 1..n
    BY <1>1 DEF Detections
  <2>2. IsFiniteSet(1..n)
    BY <1>1, FS_Interval
  <2> QED BY <2>1, <2>2, FS_Subset
<1>4. DetectionsDrift'
  BY <1>1, <1>2, <1>3 DEF Chronicle, DetectionsDrift, Detections
<1>5. AuditTellsDrift'
  BY <1>1 DEF AuditTellsDrift
<1>6. alerts' = Cardinality(Detections')
  <2>1. alerts = Cardinality(Detections)
    BY DEF Chronicle, AlertedOncePerDrift, Detections
  <2>2. Cardinality(Detections \cup {n + 1}) = Cardinality(Detections) + 1
    BY <1>3, FS_AddElement
  <2> QED BY <1>2, <2>1, <2>2
<1>7. ASSUME NEW i \in Detections', NEW j \in Detections', i < j
      PROVE  \E k \in i+1 .. j-1 : ~auditLog'[k].drift
  <2>1. CASE j \in Detections
    <3>1. i \in Detections /\ i \in 1..n /\ j \in 1..n
      BY <1>2, <1>3, <1>7, <1>1, <2>1
    <3>2. PICK k \in i+1 .. j-1 : ~auditLog[k].drift
      BY <1>7, <2>1, <3>1 DEF Chronicle, AlertedOncePerDrift, Detections
    <3> QED BY <1>1, <3>1, <3>2
  <2>2. CASE j \notin Detections
    <3>1. j = n + 1 /\ r.action = "detected" /\ i \in Detections /\ i \in 1..n
      BY <1>1, <1>2, <1>3, <1>7, <2>2
    <3>2. ~auditLog[n].drift /\ n \in 1..n
      BY <1>1, <3>1 DEF Chronicle, AuditTellsDrift
    <3>3. i # n
      BY <3>1, <3>2 DEF Chronicle, DetectionsDrift
    <3>4. n \in i+1 .. j-1
      <4>0. n \in Nat /\ j = n + 1 /\ i \in 1..n
        BY <1>1, <3>1
      <4> HIDE DEF n
      <4>1. i \in Nat /\ n \in Nat /\ i < n /\ j - 1 = n
        BY <3>3, <4>0
      <4> QED BY <4>1
    <3>5. ~auditLog'[n].drift
      BY <1>1, <3>2
    <3> QED BY <3>4, <3>5
  <2> QED BY <2>1, <2>2
<1>8. AlertedOncePerDrift'
  BY <1>6, <1>7 DEF AlertedOncePerDrift, Detections
<1> QED BY <1>4, <1>5, <1>8

\* Whatever commits, the log tells of it.
LEMMA CommitKeepsChronicle ==
  ASSUME IInv, Chronicle, NEW p \in Procs, Commit(p)
  PROVE  Chronicle'
<1> DEFINE t == txn[p]
<1>1. /\ t.phase = "commit" /\ asset' = Written(t) /\ auditLog' = auditLog \o t.records
      /\ alerts' = alerts + AlertsOf(t.records)
      /\ txn' = [txn EXCEPT ![p] = Idle]
  BY DEF Commit
<1>2. /\ t.new \in Row /\ t.records \in Seq(Record) /\ t.loaded = asset
      /\ asset \in Row /\ auditLog \in Seq(Record) /\ alerts \in Nat
      /\ Tells(asset, t.new, t.records)
  BY <1>1, BusyShape DEF IInv, TypeOK, LoadedIsCurrent, Chronicle, RecordsTellRow
<1>3. asset' = t.new /\ t.new.drift \in BOOLEAN
  BY <1>1, <1>2, WrittenIsNew DEF Row
<1>4. RecordsTellRow'
  <2>1. \A q \in Procs : txn'[q] = IF q = p THEN Idle ELSE txn[q]
    BY <1>1 DEF IInv, TypeOK
  <2> QED BY <2>1 DEF Chronicle, RecordsTellRow, Idle
<1>5. CASE Len(t.records) = 0
  <2>1. t.records = <<>>
    BY <1>2, <1>5
  <2>2. AlertsOf(t.records) = 0
    <3>1. {i \in DOMAIN t.records : t.records[i].action = "detected"} = {}
      BY <2>1
    <3> QED BY <3>1, FS_EmptySet DEF AlertsOf
  <2>3. auditLog' = auditLog /\ alerts' = alerts /\ asset'.drift = asset.drift
    BY <1>1, <1>2, <1>3, <1>5, <2>1, <2>2 DEF Tells
  <2> QED BY <1>4, <2>3, CommitSilently DEF Chronicle
<1>6. CASE Len(t.records) = 1
  <2> DEFINE r == t.records[1]
  <2>1. r \in Record /\ t.records = <<r>> /\ DOMAIN t.records = {1}
    BY <1>2, <1>6
  <2>2. auditLog' = Append(auditLog, r)
    BY <1>1, <1>2, <2>1, ConcatOne
  <2>3. r.drift = t.new.drift /\ (r.action = "detected" => t.new.drift /\ ~asset.drift)
    BY <1>2, <1>6 DEF Tells
  <2>4. alerts' = IF r.action = "detected" THEN alerts + 1 ELSE alerts
    <3> DEFINE D == {i \in DOMAIN t.records : t.records[i].action = "detected"}
    <3>1. CASE r.action = "detected"
      <4>1. D = {1}
        BY <2>1, <3>1
      <4> QED BY <1>1, <1>2, <3>1, <4>1, FS_Singleton DEF AlertsOf
    <3>2. CASE r.action # "detected"
      <4>1. D = {}
        BY <2>1, <3>2
      <4>2. AlertsOf(t.records) = 0
        BY <4>1, FS_EmptySet DEF AlertsOf
      <4> QED BY <1>1, <1>2, <3>2, <4>2
    <3> QED BY <3>1, <3>2
  <2> HIDE DEF r
  <2>5. DetectionsDrift' /\ AuditTellsDrift' /\ AlertedOncePerDrift'
    BY <1>3, <2>1, <2>2, <2>3, <2>4, CommitOneRecord
  <2> QED BY <1>4, <2>5 DEF Chronicle
<1> QED BY <1>2, <1>5, <1>6 DEF Tells

LEMMA NextKeepsChronicle == IInv /\ Chronicle /\ [Next]_vars => Chronicle'
<1> SUFFICES ASSUME IInv, Chronicle, [Next]_vars PROVE Chronicle'
  OBVIOUS
<1> USE DEF row
<1>1. ASSUME NEW v \in Versions, Capture(v) PROVE Chronicle'
  BY <1>1 DEF Capture, Chronicle, RecordsTellRow, DetectionsDrift, Detections,
              AuditTellsDrift, AlertedOncePerDrift
<1>2. ASSUME NEW p \in Procs, NEW i \in DOMAIN captured, Deliver(p, i) PROVE Chronicle'
  BY <1>2, SilentStep DEF Deliver, Open
<1>3. ASSUME NEW p \in Procs, NEW requested \in Text, RequestSet(p, requested)
      PROVE  Chronicle'
  BY <1>3, SilentStep DEF RequestSet, Open
<1>4. ASSUME NEW p \in Procs, RequestClear(p) PROVE Chronicle'
  BY <1>4, SilentStep DEF RequestClear, Open
<1>5. ASSUME NEW p \in Procs, LoadAndApply(p) PROVE Chronicle'
  <2> DEFINE v == captured[txn[p].op.capture]
             new == Apply(asset, v)
             records == Transitions(asset, new)
  <2>1. v \in Versions /\ asset \in Row
    BY <1>5 DEF LoadAndApply, Loading, IInv, CapturesExist, Busy, TypeOK
  <2>2. Tells(asset, new, records)
    BY <2>1, ApplyIsConsistent, TransitionsTell
  <2>3. Change(p, new, records) /\ UNCHANGED <<asset, auditLog, alerts>>
    BY <1>5 DEF LoadAndApply
  <2> HIDE DEF new, records
  <2> QED BY <2>2, <2>3, SilentStep DEF Change
<1>6. ASSUME NEW p \in Procs, LoadAndSet(p) PROVE Chronicle'
  <2> DEFINE new == SetBaseline(asset, txn[p].op.requested)
             records == <<[action |-> "baseline_set", drift |-> new.drift]>>
  <2>1. Change(p, new, records) /\ UNCHANGED <<asset, auditLog, alerts>>
    BY <1>6, Zenon DEF LoadAndSet
  <2> HIDE DEF new
  <2>2. Tells(asset, new, records)
    BY OneTells
  <2> HIDE DEF records
  <2> QED BY <2>1, <2>2, SilentStep DEF Change
<1>7. ASSUME NEW p \in Procs, RefuseSet(p) PROVE Chronicle'
  BY <1>7, SilentStep DEF RefuseSet, Idle
<1>8. ASSUME NEW p \in Procs, LoadAndClear(p) PROVE Chronicle'
  <2> DEFINE new == ClearBaseline(asset)
             records == <<[action |-> "baseline_cleared", drift |-> FALSE]>>
  <2>1. Tells(asset, new, records)
    <3>1. new.drift = FALSE
      BY DEF ClearBaseline, IInv, TypeOK, Row
    <3> HIDE DEF new
    <3> QED BY <3>1, OneTells
  <2>2. Change(p, new, records) /\ UNCHANGED <<asset, auditLog, alerts>>
    BY <1>8 DEF LoadAndClear
  <2> HIDE DEF new, records
  <2> QED BY <2>1, <2>2, SilentStep DEF Change
<1>9. ASSUME NEW p \in Procs, Commit(p) PROVE Chronicle'
  BY <1>9, CommitKeepsChronicle
<1>10. ASSUME NEW p \in Procs, Fail(p) PROVE Chronicle'
  BY <1>10, SilentStep DEF Fail, Idle
<1>11. CASE UNCHANGED vars
  BY <1>11 DEF vars, Chronicle, RecordsTellRow, DetectionsDrift, Detections,
               AuditTellsDrift, AlertedOncePerDrift
<1> QED BY <1>1, <1>2, <1>3, <1>4, <1>5, <1>6, <1>7, <1>8, <1>9, <1>10, <1>11
        DEF Next

LEMMA ChronicleInvariant == Spec => []Chronicle
BY InitEstablishesChronicle, NextKeepsChronicle, Invariant, PTL DEF Spec

\* The last record of the audit log says whether the asset is in drift.
THEOREM AuditLogTellsDrift == Spec => []AuditTellsDrift
<1>1. Chronicle => AuditTellsDrift
  BY DEF Chronicle
<1> QED BY <1>1, ChronicleInvariant, PTL

\* Every drift that responses reveal has one alert.
THEOREM DriftAlertedOnce == Spec => []AlertedOncePerDrift
<1>1. Chronicle => AlertedOncePerDrift
  BY DEF Chronicle
<1> QED BY <1>1, ChronicleInvariant, PTL
=============================================================================
