-------------------------- MODULE AnomalyBaseline --------------------------
(***************************************************************************)
(* Communication baselines and anomalies of one site (anomalies.py):       *)
(* administrators capture baselines and acknowledge anomalies while passes *)
(* of the anomaly worker compare what is observed with the active          *)
(* baseline.  Observations are stored some time after they were made (see  *)
(* Ingestion); an edge is a source, a destination and a protocol.          *)
(*                                                                         *)
(* PostgreSQL runs at READ COMMITTED: an UPDATE or SELECT ... FOR UPDATE   *)
(* picks its rows from what is committed when it starts, waits for those   *)
(* that other transactions hold, and then drops the ones that no longer    *)
(* satisfy its WHERE.  The rows of one statement are awaited together.     *)
(***************************************************************************)
EXTENDS Integers, Sequences, FiniteSets

CONSTANTS Admins,        \* API workers serving administrators
          Analyzers,     \* anomaly worker processes
          Edges,
          MaxTraffic,    \* bound on the observations made
          MaxBaselines,  \* bound on the baselines captured
          MaxFailures    \* bound on the transactions that fail

ASSUME BaselinesAssumption ==
  /\ IsFiniteSet(Admins) /\ Admins \cap Analyzers = {}
  /\ MaxTraffic \in Nat /\ MaxBaselines \in Nat /\ MaxFailures \in Nat

VARIABLES clock,         \* the time of the latest observation made
          traffic,       \* observations made and not stored yet
          observations,  \* committed observations of the site
          baselines,     \* committed graph_baselines with their edges
          anomalies,     \* committed graph_anomalies
          alerts,        \* communication_anomaly events in the outbox
          txn,           \* the open transaction of each process
          uniqueErrors,  \* anomalies refused by uq_graph_anomaly
          failures       \* transactions that failed

vars == <<clock, traffic, observations, baselines, anomalies, alerts, txn, uniqueErrors,
          failures>>
wire == <<clock, traffic, observations>>

Procs == Admins \cup Analyzers
BaselineIds == 1..MaxBaselines

Observation == [edge : Edges, observed_at : Nat]
Baseline == [active : BOOLEAN, captured_at : Nat, edges : SUBSET Edges]
Anomaly == [baseline : BaselineIds, edge : Edges, status : {"open", "acknowledged"},
            first_seen : Nat, last_seen : Nat, observation_count : Nat]
\* A group of the worker's query, and whether no anomaly was found for it.
Finding == [baseline : BaselineIds, edge : Edges, new : BOOLEAN,
            first_seen : Nat, last_seen : Nat, observation_count : Nat]

Idle == [phase |-> "idle", rows |-> {}]
Transaction ==
  {Idle}
  \cup [phase : {"deactivate", "select", "lock"}, rows : SUBSET BaselineIds]
  \cup [phase : {"insert"}, rows : SUBSET BaselineIds, new : Baseline]
  \cup [phase : {"analyze"}, rows : SUBSET BaselineIds, todo : SUBSET BaselineIds,
        findings : SUBSET Finding]

-----------------------------------------------------------------------------
Active == {b \in DOMAIN baselines : baselines[b].active}

\* The baselines rows whose locks a transaction holds.
Held(p) == IF txn[p].phase \in {"select", "insert", "analyze"} THEN txn[p].rows ELSE {}

\* Mutant: the worker selects the baselines without FOR UPDATE.
AnalysisWaitsForNoOne(p, rows) ==
  p \in Admins => \A q \in Procs \ {p} : Held(q) \cap rows = {}

RowsFree(p, rows) == \A q \in Procs \ {p} : Held(q) \cap rows = {}

ObservedEdges == {o.edge : o \in observations}

\* The group of an edge in the worker's query for a baseline.
After(b, e) ==
  {o.observed_at : o \in {x \in observations :
                            x.edge = e /\ x.observed_at > baselines[b].captured_at}}

Least(S) == CHOOSE t \in S : \A u \in S : t <= u
Greatest(S) == CHOOSE t \in S : \A u \in S : u <= t

Known(b, e) == \E a \in anomalies : a.baseline = b /\ a.edge = e

\* Mutant: known anomalies are not updated.
FindingsOfUnknown(b) ==
  {[baseline |-> b, edge |-> e, new |-> TRUE,
    first_seen |-> Least(After(b, e)), last_seen |-> Greatest(After(b, e)),
    observation_count |-> Cardinality(After(b, e))] :
     e \in {x \in ObservedEdges : After(b, x) # {} /\ ~Known(b, x)} \ baselines[b].edges}

\* The edges a baseline does not have, observed after it was captured.
Findings(b) ==
  {[baseline |-> b, edge |-> e, new |-> ~Known(b, e),
    first_seen |-> Least(After(b, e)), last_seen |-> Greatest(After(b, e)),
    observation_count |-> Cardinality(After(b, e))] :
     e \in {x \in ObservedEdges : After(b, x) # {}} \ baselines[b].edges}

-----------------------------------------------------------------------------
Init ==
  /\ clock = 0 /\ traffic = {} /\ observations = {}
  /\ baselines = <<>> /\ anomalies = {} /\ alerts = 0
  /\ txn = [p \in Procs |-> Idle]
  /\ uniqueErrors = {} /\ failures = 0

\* A sensor observes traffic on an edge.
Observe(e) ==
  /\ clock < MaxTraffic
  /\ clock' = clock + 1
  /\ traffic' = traffic \cup {[edge |-> e, observed_at |-> clock']}
  /\ UNCHANGED <<observations, baselines, anomalies, alerts, txn, uniqueErrors, failures>>

\* An ingestion commits it, sooner or later and in any order.
Ingest(o) ==
  /\ traffic' = traffic \ {o}
  /\ observations' = observations \cup {o}
  /\ UNCHANGED <<clock, baselines, anomalies, alerts, txn, uniqueErrors, failures>>

Set(p, t) == txn' = [txn EXCEPT ![p] = t]

Capturing == {p \in Admins : txn[p].phase \in {"deactivate", "select", "insert"}}

\* capture_baseline: UPDATE ... SET active = false, for the baselines that are
\* active when it starts.
StartCapture(p) ==
  /\ txn[p] = Idle
  /\ Len(baselines) + Cardinality(Capturing) < MaxBaselines
  /\ Set(p, [phase |-> "deactivate", rows |-> Active])
  /\ UNCHANGED <<wire, baselines, anomalies, alerts, uniqueErrors, failures>>

Deactivate(p) ==
  /\ txn[p].phase = "deactivate"
  /\ RowsFree(p, txn[p].rows)
  /\ Set(p, [phase |-> "select", rows |-> txn[p].rows \cap Active])
  /\ UNCHANGED <<wire, baselines, anomalies, alerts, uniqueErrors, failures>>

\* The edges stored so far, and captured_at = now.
SelectEdges(p) ==
  /\ txn[p].phase = "select"
  /\ Set(p, [phase |-> "insert", rows |-> txn[p].rows,
             new |-> [active |-> TRUE, captured_at |-> clock, edges |-> ObservedEdges]])
  /\ UNCHANGED <<wire, baselines, anomalies, alerts, uniqueErrors, failures>>

\* The baseline, its edges and the audit record commit.
CommitCapture(p) ==
  /\ txn[p].phase = "insert"
  /\ baselines' = Append([b \in DOMAIN baselines |->
                            IF b \in txn[p].rows THEN [baselines[b] EXCEPT !.active = FALSE]
                            ELSE baselines[b]],
                         txn[p].new)
  /\ Set(p, Idle)
  /\ UNCHANGED <<wire, anomalies, alerts, uniqueErrors, failures>>

\* acknowledge_anomaly: the row is locked, changed and committed; the worker
\* writes other columns of it.
Acknowledge(a) ==
  /\ anomalies' = (anomalies \ {a}) \cup {[a EXCEPT !.status = "acknowledged"]}
  /\ UNCHANGED <<wire, baselines, alerts, txn, uniqueErrors, failures>>

\* analyze_active_baselines: SELECT ... WHERE active FOR UPDATE.
StartAnalysis(p) ==
  /\ txn[p] = Idle
  /\ Set(p, [phase |-> "lock", rows |-> Active])
  /\ UNCHANGED <<wire, baselines, anomalies, alerts, uniqueErrors, failures>>

LockActive(p) ==
  /\ txn[p].phase = "lock"
  /\ RowsFree(p, txn[p].rows)
  /\ LET rows == txn[p].rows \cap Active
     IN  Set(p, [phase |-> "analyze", rows |-> rows, todo |-> rows, findings |-> {}])
  /\ UNCHANGED <<wire, baselines, anomalies, alerts, uniqueErrors, failures>>

\* One turn of the loop; each reads the observations committed by then.
Analyze(p, b) ==
  /\ txn[p].phase = "analyze"
  /\ b \in txn[p].todo
  /\ Set(p, [txn[p] EXCEPT !.todo = @ \ {b}, !.findings = @ \cup Findings(b)])
  /\ UNCHANGED <<wire, baselines, anomalies, alerts, uniqueErrors, failures>>

\* Mutant: new evidence reopens an anomaly.
UpdatedReopens(a, f) ==
  [a EXCEPT !.last_seen = f.last_seen, !.observation_count = f.observation_count,
            !.status = "open"]

\* A known anomaly gets its new last_seen and count, nothing else.
Updated(a, f) ==
  [a EXCEPT !.last_seen = f.last_seen, !.observation_count = f.observation_count]

Opened(f) ==
  [baseline |-> f.baseline, edge |-> f.edge, status |-> "open",
   first_seen |-> f.first_seen, last_seen |-> f.last_seen,
   observation_count |-> f.observation_count]

\* What a pass leaves alone, updates and adds.
Found(t, a) == {f \in t.findings : f.baseline = a.baseline /\ f.edge = a.edge}
Left(t) == {a \in anomalies : Found(t, a) = {}}
Renewed(t) == UNION {{Updated(a, f) : f \in Found(t, a)} : a \in anomalies}
Fresh(t) == {f \in t.findings : f.new}
Added(t) == {Opened(f) : f \in Fresh(t)}

\* Mutant: updated anomalies are alerted again.
AlertsForEachPass(t) == Cardinality(t.findings)

\* enqueue_alert is called for the anomalies that are new.
AlertsFor(t) == Cardinality(Fresh(t))

CommitAnalysis(p) ==
  LET t == txn[p]
      refused == {f \in Fresh(t) : Known(f.baseline, f.edge)}
  IN  /\ t.phase = "analyze" /\ t.todo = {}
      /\ IF refused # {}
         THEN /\ uniqueErrors' = uniqueErrors \cup refused
              /\ UNCHANGED <<anomalies, alerts>>
         ELSE /\ anomalies' = Left(t) \cup Renewed(t) \cup Added(t)
              /\ alerts' = alerts + AlertsFor(t)
              /\ UNCHANGED uniqueErrors
      /\ Set(p, Idle)
      /\ UNCHANGED <<wire, baselines, failures>>

\* A database error or the death of the process.
Fail(p) ==
  /\ txn[p] # Idle
  /\ failures < MaxFailures
  /\ failures' = failures + 1
  /\ Set(p, Idle)
  /\ UNCHANGED <<wire, baselines, anomalies, alerts, uniqueErrors>>

AnalysisStep(p) ==
  StartAnalysis(p) \/ LockActive(p) \/ (\E b \in BaselineIds : Analyze(p, b))

CaptureStep(p) == Deactivate(p) \/ SelectEdges(p) \/ CommitCapture(p)

Next ==
  \/ \E e \in Edges : Observe(e)
  \/ \E o \in traffic : Ingest(o)
  \/ \E a \in anomalies : Acknowledge(a)
  \/ \E p \in Admins : StartCapture(p) \/ CaptureStep(p)
  \/ \E p \in Analyzers : AnalysisStep(p) \/ CommitAnalysis(p)
  \/ \E p \in Procs : Fail(p)

Spec == Init /\ [][Next]_vars

\* The worker runs a pass every interval, PostgreSQL queues the waiters of a
\* row, and a capture that was begun ends or fails.
FairSpec ==
  /\ Spec
  /\ \A p \in Admins : WF_vars(CaptureStep(p))
  /\ \A p \in Analyzers :
       WF_vars(AnalysisStep(p)) /\ SF_vars(LockActive(p)) /\ WF_vars(CommitAnalysis(p))

-----------------------------------------------------------------------------
\* Every variable has its type; no baselines row has two lock holders.
TypeOK ==
  /\ clock \in Nat
  /\ traffic \subseteq Observation /\ observations \subseteq Observation
  /\ baselines \in Seq(Baseline) /\ Len(baselines) <= MaxBaselines
  /\ anomalies \subseteq Anomaly
  /\ alerts \in Nat
  /\ txn \in [Procs -> Transaction]
  /\ uniqueErrors \subseteq Finding
  /\ failures \in 0..MaxFailures
  /\ \A p, q \in Procs : p # q => Held(p) \cap Held(q) = {}

\* Passes that overlap, and passes cut off and repeated, alert an edge that is
\* new to a baseline once, and never run into uq_graph_anomaly.
NewEdgesAlertedOnce ==
  /\ uniqueErrors = {}
  /\ alerts = Cardinality(anomalies)
  /\ \A a, c \in anomalies : a.baseline = c.baseline /\ a.edge = c.edge => a = c

\* A baseline that has been replaced raises no more anomalies, even if it was
\* replaced while a pass was comparing with it.
ReplacedBaselineIsSilent ==
  [][\A a \in anomalies' :
       ~Known(a.baseline, a.edge) => baselines[a.baseline].active]_vars

\* What an anomaly says is never taken back: its evidence grows, and an
\* acknowledgement survives the passes that run beside and after it.
EvidenceOnlyGrows ==
  [][\A a \in anomalies : \E c \in anomalies' :
       /\ c.baseline = a.baseline /\ c.edge = a.edge
       /\ c.first_seen = a.first_seen
       /\ c.last_seen >= a.last_seen /\ c.observation_count >= a.observation_count
       /\ a.status = "acknowledged" => c.status = "acknowledged"]_vars

\* A stored observation of an edge that the active baseline does not have, made
\* after its capture, becomes an anomaly counting at least what was stored then,
\* or the baseline is replaced first.
NewEdgesAreReported ==
  \A b \in BaselineIds, e \in Edges, n \in 1..MaxTraffic :
    (b \in Active /\ e \notin baselines[b].edges /\ Cardinality(After(b, e)) = n)
      ~> (\/ b \notin Active
          \/ \E a \in anomalies : a.baseline = b /\ a.edge = e /\ a.observation_count >= n)

\* docs/communication-anomalies.md:5-6: "Capturing a replacement deactivates -
\* but does not rewrite - the previous snapshot": one snapshot is active.
OneActiveBaseline == Cardinality(Active) <= 1
=============================================================================
