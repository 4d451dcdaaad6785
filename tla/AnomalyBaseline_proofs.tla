----------------------- MODULE AnomalyBaseline_proofs -----------------------
(***************************************************************************)
(* Machine-checked proofs about baselines and anomalies: an edge that is   *)
(* new to a baseline is alerted once, a replaced baseline is silent, and   *)
(* what an anomaly says only grows; for any number of administrators,      *)
(* worker processes, baselines and observations.                           *)
(***************************************************************************)
EXTENDS AnomalyBaseline, FiniteSetTheorems, FunctionTheorems, WellFoundedInduction, TLAPS

CapturePhases == {"deactivate", "select", "insert"}
LockPhases == {"select", "insert", "analyze"}
LocksOf(t) == IF t.phase \in LockPhases THEN t.rows ELSE {}

About(x, y) == x.baseline = y.baseline /\ x.edge = y.edge
OneEach(S) == \A x, y \in S : About(x, y) => x = y
Covers(S, T) == \A y \in T : \E x \in S : About(x, y)

\* What an anomaly or a finding says has been observed.
Grounded(x) ==
  /\ x.last_seen \in After(x.baseline, x.edge)
  /\ x.observation_count <= Cardinality(After(x.baseline, x.edge))

\* A finding says no less than the anomaly about the same edge.
NoLess(f, a) == a.last_seen <= f.last_seen /\ a.observation_count <= f.observation_count

\* A pass works on active baselines.  For those it is done with it has one
\* finding an edge, and nobody else has changed which anomalies they have.
Sound(t) ==
  t.phase = "analyze" =>
    /\ t.rows \subseteq Active /\ t.todo \subseteq t.rows
    /\ IsFiniteSet(t.findings) /\ OneEach(t.findings)
    /\ \A f \in t.findings :
         /\ f.baseline \in t.rows \ t.todo
         /\ Grounded(f)
         /\ f.new <=> ~Known(f.baseline, f.edge)
         /\ \A a \in anomalies : About(a, f) => NoLess(f, a)

AllSound == \A p \in Procs : Sound(txn[p])

\* Observations are of the past, and finitely many.
Past ==
  /\ IsFiniteSet(observations)
  /\ \A o \in observations \cup traffic : o.observed_at <= clock

Evident ==
  /\ IsFiniteSet(anomalies)
  /\ \A a \in anomalies : a.baseline \in DOMAIN baselines /\ Grounded(a)

Capacity == Len(baselines) + Cardinality(Capturing) <= MaxBaselines

IInv == TypeOK /\ Past /\ Evident /\ Capacity /\ AllSound /\ NewEdgesAlertedOnce

-----------------------------------------------------------------------------
(* Facts about finite sets and least and greatest elements.                *)

LEMMA LeastExists ==
  ASSUME NEW S \in SUBSET Nat, S # {}
  PROVE  \E t \in S : \A u \in S : t <= u
<1>1. \E x \in S : \A y \in S : ~ (<<y, x>> \in OpToRel(<, Nat))
  BY NatLessThanWellFounded, WFMin
<1>2. PICK x \in S : \A y \in S : ~ (<<y, x>> \in OpToRel(<, Nat))
  BY <1>1
<1>3. \A y \in S : y < x => <<y, x>> \in OpToRel(<, Nat)
  BY DEF OpToRel
<1>4. \A y \in S : ~(y < x)
  BY <1>2, <1>3, Zenon
<1> QED BY <1>4

LEMMA LeastShape ==
  ASSUME NEW S \in SUBSET Nat, S # {}
  PROVE  Least(S) \in S
BY LeastExists DEF Least

LEMMA GreatestShape ==
  ASSUME NEW S \in SUBSET Nat, S # {}, NEW n \in Nat, \A u \in S : u <= n
  PROVE  Greatest(S) \in S /\ \A u \in S : u <= Greatest(S)
<1> DEFINE T == {n - u : u \in S}
<1>1. T \in SUBSET Nat /\ T # {}
  <2>1. \A u \in S : n - u \in Nat
    OBVIOUS
  <2> QED BY <2>1
<1>2. PICK d \in T : \A e \in T : d <= e
  <2> HIDE DEF T
  <2> QED BY <1>1, LeastExists
<1>3. PICK t \in S : d = n - t
  BY <1>2
<1>4. \A u \in S : n - t <= n - u
  BY <1>2, <1>3
<1>5. \A u \in S : u <= t
  BY <1>4
<1> QED BY <1>5 DEF Greatest

LEMMA FiniteImage ==
  ASSUME NEW S, IsFiniteSet(S), NEW f
  PROVE  IsFiniteSet({f[x] : x \in S})
<1> DEFINE T == {f[x] : x \in S}
           g == [x \in S |-> f[x]]
<1>1. g \in [S -> T] /\ \A t \in T : \E x \in S : g[x] = t
  OBVIOUS
<1>2. g \in Surjection(S, T)
  BY <1>1 DEF Surjection
<1> QED BY <1>2, FS_Surjection

LEMMA DisjointUnion ==
  ASSUME NEW S, NEW T, IsFiniteSet(S), IsFiniteSet(T), S \cap T = {}
  PROVE  /\ IsFiniteSet(S \cup T)
         /\ Cardinality(S \cup T) = Cardinality(S) + Cardinality(T)
<1>1. Cardinality(S \cap T) = 0
  BY FS_EmptySet
<1>2. Cardinality(S) \in Nat /\ Cardinality(T) \in Nat
  BY FS_CardinalityType
<1>3. /\ IsFiniteSet(S \cup T)
      /\ Cardinality(S \cup T) = Cardinality(S) + Cardinality(T) - Cardinality(S \cap T)
  BY FS_Union
<1> QED BY <1>1, <1>2, <1>3

\* Two sets about the same edges, one element each, are of one size.
LEMMA SameSize ==
  ASSUME NEW S, NEW T, IsFiniteSet(S), OneEach(S), OneEach(T), Covers(S, T), Covers(T, S)
  PROVE  IsFiniteSet(T) /\ Cardinality(T) = Cardinality(S)
<1> DEFINE f == [x \in S |-> CHOOSE y \in T : About(x, y)]
<1>1. \A x \in S : f[x] \in T /\ About(x, f[x])
  BY DEF Covers, About
<1>2. f \in [S -> T]
  BY <1>1
<1>3. \A x, y \in S : f[x] = f[y] => x = y
  BY <1>1 DEF OneEach, About
<1>4. \A t \in T : \E x \in S : f[x] = t
  <2> TAKE t \in T
  <2>1. PICK x \in S : About(x, t)
    BY DEF Covers
  <2> QED BY <1>1, <2>1 DEF OneEach, About
<1> HIDE DEF f
<1>5. f \in Bijection(S, T)
  BY <1>2, <1>3, <1>4 DEF Bijection, Injection, IsInjective, Surjection
<1>6. ExistsBijection(S, T)
  BY <1>5 DEF ExistsBijection
<1> QED BY <1>6, FS_Bijection

-----------------------------------------------------------------------------
(* Facts about what a pass reads.                                          *)

LEMMA AfterShape ==
  ASSUME TypeOK, Past, NEW b, NEW e
  PROVE  /\ After(b, e) \in SUBSET Nat /\ IsFiniteSet(After(b, e))
         /\ Cardinality(After(b, e)) \in Nat
         /\ \A t \in After(b, e) : t <= clock
<1>1. After(b, e) \in SUBSET Nat /\ \A t \in After(b, e) : t <= clock
  BY DEF After, TypeOK, Past, Observation
<1>2. clock \in Nat
  BY DEF TypeOK
<1>3. IsFiniteSet(After(b, e))
  BY <1>1, <1>2, FS_BoundedSetOfNaturals
<1> QED BY <1>1, <1>3, FS_CardinalityType

LEMMA FindingShape ==
  ASSUME TypeOK, Past, NEW b \in BaselineIds, NEW f \in Findings(b)
  PROVE  /\ f \in Finding /\ f.baseline = b /\ Grounded(f)
         /\ f.new = ~Known(f.baseline, f.edge)
         /\ f.observation_count = Cardinality(After(b, f.edge))
         /\ \A t \in After(b, f.edge) : t <= f.last_seen
<1>1. PICK e \in ObservedEdges :
        /\ After(b, e) # {}
        /\ f = [baseline |-> b, edge |-> e, new |-> ~Known(b, e),
                first_seen |-> Least(After(b, e)), last_seen |-> Greatest(After(b, e)),
                observation_count |-> Cardinality(After(b, e))]
  BY DEF Findings
<1> DEFINE A == After(b, e)
           n == Cardinality(A)
           new == ~Known(b, e)
<1>2. A \in SUBSET Nat /\ n \in Nat /\ clock \in Nat /\ \A t \in A : t <= clock
  BY AfterShape DEF TypeOK
<1>3. /\ Least(A) \in Nat
      /\ Greatest(A) \in Nat /\ Greatest(A) \in A /\ \A t \in A : t <= Greatest(A)
  BY <1>1, <1>2, LeastShape, GreatestShape
<1>4. e \in Edges /\ new \in BOOLEAN
  BY DEF ObservedEdges, TypeOK, Observation
<1>5. /\ f = [baseline |-> b, edge |-> e, new |-> new, first_seen |-> Least(A),
              last_seen |-> Greatest(A), observation_count |-> n]
  BY <1>1
<1> HIDE DEF new, n
<1>6. /\ f \in Finding /\ f.baseline = b /\ f.edge = e /\ f.new = new
      /\ f.last_seen = Greatest(A) /\ f.observation_count = n
  BY <1>2, <1>3, <1>4, <1>5 DEF Finding
<1> QED BY <1>2, <1>3, <1>6 DEF Grounded, new, n

LEMMA FindingsShape ==
  ASSUME TypeOK, Past, NEW b \in BaselineIds
  PROVE  Findings(b) \subseteq Finding /\ IsFiniteSet(Findings(b)) /\ OneEach(Findings(b))
<1>1. Findings(b) \subseteq Finding
  BY FindingShape
<1>2. OneEach(Findings(b))
  BY DEF OneEach, Findings, About
<1>3. IsFiniteSet(ObservedEdges)
  <2> DEFINE f == [o \in observations |-> o.edge]
  <2>1. {f[o] : o \in observations} = ObservedEdges
    BY DEF ObservedEdges
  <2> HIDE DEF f
  <2> QED BY <2>1, FiniteImage DEF Past
<1> DEFINE E == {x \in ObservedEdges : After(b, x) # {}} \ baselines[b].edges
<1>4. IsFiniteSet(E)
  BY <1>3, FS_Subset
<1>5. IsFiniteSet(Findings(b))
  <2> DEFINE f == [e \in E |-> [baseline |-> b, edge |-> e, new |-> ~Known(b, e),
                     first_seen |-> Least(After(b, e)), last_seen |-> Greatest(After(b, e)),
                     observation_count |-> Cardinality(After(b, e))]]
  <2>1. {f[e] : e \in E} = Findings(b)
    BY DEF Findings
  <2> HIDE DEF f, E
  <2> QED BY <1>4, <2>1, FiniteImage
<1> QED BY <1>1, <1>2, <1>5

-----------------------------------------------------------------------------
LEMMA IdleSound ==
  /\ Idle \in Transaction /\ Sound(Idle) /\ LocksOf(Idle) = {}
  /\ Idle.phase \notin CapturePhases
BY DEF Idle, Transaction, Sound, LocksOf, LockPhases, CapturePhases

LEMMA Initially == Init => IInv
<1> SUFFICES ASSUME Init PROVE IInv
  OBVIOUS
<1>1. \A p \in Procs : txn[p] = Idle
  BY DEF Init
<1>2. Capturing = {}
  BY <1>1, IdleSound DEF Capturing, Procs, CapturePhases
<1>3. TypeOK
  BY <1>1, IdleSound, BaselinesAssumption DEF Init, TypeOK, Held, LocksOf, LockPhases
<1>4. Capacity
  BY <1>2, FS_EmptySet, BaselinesAssumption DEF Init, Capacity
<1>5. Past /\ Evident /\ NewEdgesAlertedOnce
  BY FS_EmptySet DEF Init, Past, Evident, NewEdgesAlertedOnce
<1>6. AllSound
  BY <1>1, IdleSound DEF AllSound
<1> QED BY <1>3, <1>4, <1>5, <1>6 DEF IInv

-----------------------------------------------------------------------------
LEMMA TransactionShape ==
  ASSUME NEW t \in Transaction
  PROVE  /\ t.phase \in {"idle", "lock", "analyze"} \cup CapturePhases
         /\ t.rows \in SUBSET BaselineIds
         /\ t.phase = "insert" => t.new \in Baseline
         /\ t.phase = "analyze" =>
              /\ t \in [phase : {"analyze"}, rows : SUBSET BaselineIds,
                        todo : SUBSET BaselineIds, findings : SUBSET Finding]
              /\ t.todo \in SUBSET BaselineIds /\ t.findings \in SUBSET Finding
BY DEF Transaction, Idle, CapturePhases

LEMMA HeldLocks == \A p : Held(p) = LocksOf(txn[p])
BY DEF Held, LocksOf, LockPhases

\* Nothing that a pass has read is taken back.
Grows ==
  /\ observations \subseteq observations'
  /\ \A b \in DOMAIN baselines :
       b \in DOMAIN baselines' /\ baselines'[b].captured_at = baselines[b].captured_at

LEMMA AfterGrows ==
  ASSUME TypeOK, TypeOK', Past, Past', Grows, NEW b \in DOMAIN baselines, NEW e
  PROVE  /\ After(b, e) \subseteq After(b, e)'
         /\ Cardinality(After(b, e)) \in Nat /\ Cardinality(After(b, e)') \in Nat
         /\ Cardinality(After(b, e)) <= Cardinality(After(b, e)')
<1>1. After(b, e) \subseteq After(b, e)'
  BY DEF After, Grows
<1>2. After(b, e)' \in SUBSET Nat /\ \A t \in After(b, e)' : t <= clock'
  BY DEF After, TypeOK, Past, Observation
<1>3. clock' \in Nat
  BY DEF TypeOK
<1>4. IsFiniteSet(After(b, e)')
  BY <1>2, <1>3, FS_BoundedSetOfNaturals
<1> QED BY <1>1, <1>4, FS_Subset, FS_CardinalityType

LEMMA GroundedKept ==
  ASSUME TypeOK, TypeOK', Past, Past', Grows,
         NEW x, x.baseline \in DOMAIN baselines, x.observation_count \in Nat, Grounded(x)
  PROVE  Grounded(x)'
<1>1. /\ After(x.baseline, x.edge) \subseteq After(x.baseline, x.edge)'
      /\ Cardinality(After(x.baseline, x.edge)) \in Nat
      /\ Cardinality(After(x.baseline, x.edge)') \in Nat
      /\ Cardinality(After(x.baseline, x.edge)) <= Cardinality(After(x.baseline, x.edge)')
  BY AfterGrows
<1> QED BY <1>1 DEF Grounded

\* The anomalies of the baselines a pass has locked say what they said.
Same(t) ==
  \A b \in LocksOf(t) :
    /\ b \in Active => b \in Active'
    /\ \A e : Known(b, e) => Known(b, e)'
    /\ \A a \in anomalies' : a.baseline = b =>
         \E c \in anomalies : /\ About(a, c) /\ a.last_seen = c.last_seen
                              /\ a.observation_count = c.observation_count

LEMMA SoundKept ==
  ASSUME TypeOK, TypeOK', Past, Past', Grows, NEW t \in Transaction, Sound(t), Same(t)
  PROVE  Sound(t)'
<1> SUFFICES ASSUME t.phase = "analyze"
             PROVE  /\ t.rows \subseteq Active'
                    /\ t.todo \subseteq t.rows
                    /\ IsFiniteSet(t.findings) /\ OneEach(t.findings)
                    /\ \A f \in t.findings :
                         /\ f.baseline \in t.rows \ t.todo
                         /\ Grounded(f)'
                         /\ f.new <=> ~Known(f.baseline, f.edge)'
                         /\ \A a \in anomalies' : About(a, f) => NoLess(f, a)
  BY DEF Sound, OneEach, About, NoLess
<1>1. /\ t.rows \subseteq Active /\ t.todo \subseteq t.rows
      /\ IsFiniteSet(t.findings) /\ OneEach(t.findings)
      /\ \A f \in t.findings :
           /\ f.baseline \in t.rows \ t.todo
           /\ Grounded(f)
           /\ f.new <=> ~Known(f.baseline, f.edge)
           /\ \A a \in anomalies : About(a, f) => NoLess(f, a)
  BY DEF Sound
<1>2. LocksOf(t) = t.rows
  BY DEF LocksOf, LockPhases
<1>3. t.rows \subseteq Active'
  BY <1>1, <1>2 DEF Same
<1>4. ASSUME NEW f \in t.findings
      PROVE  /\ Grounded(f)'
             /\ f.new <=> ~Known(f.baseline, f.edge)'
             /\ \A a \in anomalies' : About(a, f) => NoLess(f, a)
  <2>1. f.baseline \in t.rows /\ f.baseline \in DOMAIN baselines
    BY <1>1 DEF Active
  <2>2. f.observation_count \in Nat
    BY TransactionShape DEF Finding
  <2>3. Grounded(f)'
    BY <1>1, <2>1, <2>2, GroundedKept
  <2>4. \A a \in anomalies' : a.baseline = f.baseline =>
          \E c \in anomalies : /\ About(a, c) /\ a.last_seen = c.last_seen
                               /\ a.observation_count = c.observation_count
    BY <1>2, <2>1 DEF Same
  <2>5. \A a \in anomalies' : About(a, f) => NoLess(f, a)
    BY <1>1, <2>4 DEF About, NoLess
  <2>6. Known(f.baseline, f.edge)' => Known(f.baseline, f.edge)
    BY <2>4 DEF Known, About
  <2>7. Known(f.baseline, f.edge) => Known(f.baseline, f.edge)'
    BY <1>2, <2>1 DEF Same
  <2> QED BY <1>1, <2>3, <2>5, <2>6, <2>7
<1> QED BY <1>1, <1>3, <1>4

LEMMA EvidentKept ==
  ASSUME TypeOK, TypeOK', Past, Past', Grows, Evident, UNCHANGED anomalies
  PROVE  Evident'
<1> SUFFICES ASSUME NEW a \in anomalies
             PROVE  a.baseline \in DOMAIN baselines' /\ Grounded(a)'
  BY DEF Evident
<1>1. a.baseline \in DOMAIN baselines /\ Grounded(a) /\ a.observation_count \in Nat
  BY DEF Evident, TypeOK, Anomaly
<1> QED BY <1>1, GroundedKept DEF Grows

-----------------------------------------------------------------------------
\* Traffic is observed and stored beside everything else.
LEMMA WireKeeps ==
  ASSUME IInv, (\E e \in Edges : Observe(e)) \/ (\E o \in traffic : Ingest(o))
  PROVE  IInv'
<1>1. UNCHANGED <<baselines, anomalies, alerts, txn, uniqueErrors, failures>>
  BY DEF Observe, Ingest
<1>2. TypeOK' /\ Past' /\ Grows
  <2>1. CASE \E e \in Edges : Observe(e)
    BY <2>1 DEF IInv, TypeOK, Past, Grows, Observe, Observation, Held
  <2>2. CASE \E o \in traffic : Ingest(o)
    <3>1. PICK o \in traffic : Ingest(o)
      BY <2>2
    <3>2. IsFiniteSet(observations \cup {o})
      BY FS_AddElement DEF IInv, Past
    <3> QED BY <3>1, <3>2 DEF IInv, TypeOK, Past, Grows, Ingest, Held
  <2> QED BY <2>1, <2>2
<1>3. Evident'
  BY <1>1, <1>2, EvidentKept DEF IInv
<1>4. ASSUME NEW p \in Procs PROVE Sound(txn[p])'
  <2>1. PICK t : t = txn[p]
    OBVIOUS
  <2>2. t \in Transaction /\ Sound(t) /\ txn'[p] = t
    BY <1>1, <2>1 DEF IInv, TypeOK, AllSound
  <2>3. Same(t)
    BY <1>1 DEF Same, Active, Known, About
  <2>4. Sound(t)'
    BY <1>2, <2>2, <2>3, SoundKept DEF IInv
  <2> QED BY <2>2, <2>4 DEF Sound, Active, OneEach, About, NoLess, Grounded, After, Known
<1>5. Capacity' /\ NewEdgesAlertedOnce'
  BY <1>1 DEF IInv, Capacity, Capturing, NewEdgesAlertedOnce
<1> QED BY <1>2, <1>3, <1>4, <1>5 DEF IInv, AllSound

\* A step that writes no table: the transaction of one process goes on.
LEMMA WorkKeeps ==
  ASSUME IInv, UNCHANGED <<wire, baselines, anomalies, alerts, uniqueErrors>>,
         failures' \in 0..MaxFailures,
         NEW p \in Procs, NEW t \in Transaction, Set(p, t), Sound(t),
         \A q \in Procs \ {p} : LocksOf(t) \cap Held(q) = {},
         \/ t.phase \in CapturePhases => txn[p].phase \in CapturePhases
         \/ Len(baselines) + Cardinality(Capturing) < MaxBaselines
  PROVE  IInv'
<1>1. /\ txn'[p] = t /\ \A q \in Procs \ {p} : txn'[q] = txn[q]
      /\ txn' \in [Procs -> Transaction]
  BY DEF IInv, TypeOK, Set
<1>2. UNCHANGED <<clock, traffic, observations>>
  BY DEF wire
<1>3. \A q, r \in Procs : q # r => Held(q)' \cap Held(r)' = {}
  BY <1>1, HeldLocks DEF IInv, TypeOK, Held, LocksOf, LockPhases
<1>4. TypeOK'
  BY <1>1, <1>2, <1>3 DEF IInv, TypeOK
<1>5. Past' /\ Evident' /\ NewEdgesAlertedOnce'
  BY <1>2 DEF IInv, Past, Evident, Grounded, After, NewEdgesAlertedOnce
<1>6. AllSound'
  <2> SUFFICES ASSUME NEW q \in Procs PROVE Sound(txn[q])'
    BY DEF AllSound
  <2>1. Sound(txn'[q])
    BY <1>1 DEF IInv, AllSound
  <2> QED BY <1>2, <2>1
          DEF Sound, Active, OneEach, About, NoLess, Grounded, After, Known
<1>7. Capacity'
  <2>1. IsFiniteSet(Capturing) /\ Cardinality(Capturing) \in Nat
    BY BaselinesAssumption, FS_Subset, FS_CardinalityType DEF Capturing
  <2>2. Capturing' \subseteq Capturing \cup {p}
    BY <1>1 DEF Capturing, Procs
  <2>3. CASE t.phase \in CapturePhases => txn[p].phase \in CapturePhases
    <3>1. Capturing' \subseteq Capturing
      BY <1>1, <2>3 DEF Capturing, CapturePhases, Procs
    <3>2. Cardinality(Capturing') \in Nat /\ Cardinality(Capturing') <= Cardinality(Capturing)
      BY <2>1, <3>1, FS_Subset, FS_CardinalityType
    <3> QED BY <2>1, <3>2, BaselinesAssumption DEF Capacity, IInv, TypeOK
  <2>4. CASE Len(baselines) + Cardinality(Capturing) < MaxBaselines
    <3>1. /\ IsFiniteSet(Capturing \cup {p})
          /\ Cardinality(Capturing \cup {p}) <= Cardinality(Capturing) + 1
      <4>1. /\ IsFiniteSet(Capturing \cup {p})
            /\ Cardinality(Capturing \cup {p}) =
                 IF p \in Capturing THEN Cardinality(Capturing) ELSE Cardinality(Capturing) + 1
        BY <2>1, FS_AddElement
      <4> QED BY <2>1, <4>1
    <3>2. /\ Cardinality(Capturing') \in Nat
          /\ Cardinality(Capturing') <= Cardinality(Capturing) + 1
      BY <2>1, <2>2, <3>1, FS_Subset, FS_CardinalityType
    <3> QED BY <2>1, <2>4, <3>2, BaselinesAssumption DEF Capacity, IInv, TypeOK
  <2> QED BY <2>3, <2>4
<1> QED BY <1>4, <1>5, <1>6, <1>7 DEF IInv

LEMMA ActiveShape ==
  ASSUME TypeOK
  PROVE  Active \subseteq BaselineIds /\ Active \subseteq DOMAIN baselines
BY BaselinesAssumption DEF TypeOK, Active, BaselineIds

LEMMA CaptureWorks ==
  ASSUME IInv, NEW p \in Admins, StartCapture(p) \/ Deactivate(p) \/ SelectEdges(p)
  PROVE  IInv'
<1>1. /\ p \in Procs /\ failures' \in 0..MaxFailures /\ txn[p] \in Transaction
      /\ UNCHANGED <<wire, baselines, anomalies, alerts, uniqueErrors>>
  BY DEF IInv, TypeOK, Procs, StartCapture, Deactivate, SelectEdges
<1>2. txn[p].rows \in SUBSET BaselineIds /\ Active \in SUBSET BaselineIds
  BY <1>1, TransactionShape, ActiveShape DEF IInv
<1>3. CASE StartCapture(p)
  <2> DEFINE t == [phase |-> "deactivate", rows |-> Active]
  <2>1. t \in Transaction /\ Sound(t) /\ LocksOf(t) = {}
    BY <1>2 DEF Transaction, Sound, LocksOf, LockPhases
  <2>2. Set(p, t) /\ Len(baselines) + Cardinality(Capturing) < MaxBaselines
    BY <1>3 DEF StartCapture
  <2> HIDE DEF t
  <2> QED BY <1>1, <2>1, <2>2, WorkKeeps
<1>4. CASE Deactivate(p)
  <2> DEFINE t == [phase |-> "select", rows |-> txn[p].rows \cap Active]
  <2>1. /\ t \in Transaction /\ Sound(t) /\ LocksOf(t) \subseteq txn[p].rows
        /\ txn[p].phase \in CapturePhases
    BY <1>2, <1>4 DEF Transaction, Sound, LocksOf, LockPhases, CapturePhases, Deactivate
  <2>2. Set(p, t) /\ \A q \in Procs \ {p} : LocksOf(t) \cap Held(q) = {}
    BY <1>4, <2>1 DEF Deactivate, RowsFree
  <2> HIDE DEF t
  <2> QED BY <1>1, <2>1, <2>2, WorkKeeps
<1>5. CASE SelectEdges(p)
  <2> DEFINE new == [active |-> TRUE, captured_at |-> clock, edges |-> ObservedEdges]
             t == [phase |-> "insert", rows |-> txn[p].rows, new |-> new]
  <2>1. new \in Baseline
    BY DEF IInv, TypeOK, Baseline, ObservedEdges, Observation
  <2>2. Set(p, t)
    BY <1>5 DEF SelectEdges
  <2> HIDE DEF new
  <2>3. t \in Transaction /\ Sound(t) /\ LocksOf(t) = txn[p].rows
    BY <1>2, <2>1 DEF Transaction, Sound, LocksOf, LockPhases
  <2>4. Held(p) = txn[p].rows /\ txn[p].phase \in CapturePhases
    BY <1>5 DEF SelectEdges, Held, CapturePhases
  <2>5. \A q \in Procs \ {p} : LocksOf(t) \cap Held(q) = {}
    BY <1>1, <2>3, <2>4 DEF IInv, TypeOK
  <2> HIDE DEF t
  <2> QED BY <1>1, <2>2, <2>3, <2>4, <2>5, WorkKeeps
<1> QED BY <1>3, <1>4, <1>5

LEMMA AnalysisWorks ==
  ASSUME IInv, NEW p \in Analyzers, StartAnalysis(p) \/ LockActive(p)
  PROVE  IInv'
<1>1. /\ p \in Procs /\ failures' \in 0..MaxFailures /\ txn[p] \in Transaction
      /\ UNCHANGED <<wire, baselines, anomalies, alerts, uniqueErrors>>
  BY DEF IInv, TypeOK, Procs, StartAnalysis, LockActive
<1>2. txn[p].rows \in SUBSET BaselineIds /\ Active \in SUBSET BaselineIds
  BY <1>1, TransactionShape, ActiveShape DEF IInv
<1>3. CASE StartAnalysis(p)
  <2> DEFINE t == [phase |-> "lock", rows |-> Active]
  <2>1. t \in Transaction /\ Sound(t) /\ LocksOf(t) = {} /\ t.phase \notin CapturePhases
    BY <1>2 DEF Transaction, Sound, LocksOf, LockPhases, CapturePhases
  <2>2. Set(p, t)
    BY <1>3 DEF StartAnalysis
  <2> HIDE DEF t
  <2> QED BY <1>1, <2>1, <2>2, WorkKeeps
<1>4. CASE LockActive(p)
  <2> DEFINE rows == txn[p].rows \cap Active
             t == [phase |-> "analyze", rows |-> rows, todo |-> rows, findings |-> {}]
  <2>1. rows \in SUBSET BaselineIds /\ rows \subseteq Active /\ rows \subseteq txn[p].rows
    BY <1>2
  <2>2. Set(p, t) /\ \A q \in Procs \ {p} : rows \cap Held(q) = {}
    BY <1>4 DEF LockActive, RowsFree
  <2> HIDE DEF rows
  <2>3. t \in Transaction /\ LocksOf(t) = rows /\ t.phase \notin CapturePhases
    BY <2>1 DEF Transaction, LocksOf, LockPhases, CapturePhases
  <2>4. Sound(t)
    BY <2>1, FS_EmptySet DEF Sound, OneEach
  <2> HIDE DEF t
  <2> QED BY <1>1, <2>2, <2>3, <2>4, WorkKeeps
<1> QED BY <1>3, <1>4

LEMMA FailKeeps ==
  ASSUME IInv, NEW p \in Procs, Fail(p)
  PROVE  IInv'
<1>1. /\ failures' \in 0..MaxFailures /\ Set(p, Idle)
      /\ UNCHANGED <<wire, baselines, anomalies, alerts, uniqueErrors>>
  BY BaselinesAssumption DEF IInv, TypeOK, Fail
<1> QED BY <1>1, IdleSound, WorkKeeps

LEMMA TurnShape ==
  ASSUME NEW S, NEW F,
         NEW u \in [phase : {"analyze"}, rows : S, todo : S, findings : F],
         NEW x \in S, NEW y \in F,
         NEW t, t = [u EXCEPT !.todo = x, !.findings = y]
  PROVE  /\ t \in [phase : {"analyze"}, rows : S, todo : S, findings : F]
         /\ t.phase = "analyze" /\ t.rows = u.rows /\ t.todo = x /\ t.findings = y
OBVIOUS

\* A turn of the loop adds one finding an edge, about a baseline no earlier
\* turn was about.
LEMMA AnalyzeKeeps ==
  ASSUME IInv, NEW p \in Analyzers, NEW b \in BaselineIds, Analyze(p, b)
  PROVE  IInv'
<1> DEFINE u == txn[p]
           todo == u.todo \ {b}
           findings == u.findings \cup Findings(b)
           t == [u EXCEPT !.todo = todo, !.findings = findings]
<1>1. /\ p \in Procs /\ failures' \in 0..MaxFailures /\ u \in Transaction
      /\ UNCHANGED <<wire, baselines, anomalies, alerts, uniqueErrors>>
      /\ u.phase = "analyze" /\ b \in u.todo /\ Sound(u)
      /\ Set(p, t)
  BY DEF IInv, TypeOK, Procs, Analyze, AllSound
<1>2. /\ u \in [phase : {"analyze"}, rows : SUBSET BaselineIds,
                todo : SUBSET BaselineIds, findings : SUBSET Finding]
      /\ u.rows \in SUBSET BaselineIds
      /\ u.todo \in SUBSET BaselineIds /\ u.findings \in SUBSET Finding
  BY <1>1, TransactionShape
<1>3. /\ Findings(b) \subseteq Finding /\ IsFiniteSet(Findings(b)) /\ OneEach(Findings(b))
      /\ \A f \in Findings(b) :
           /\ f.baseline = b /\ Grounded(f) /\ f.new = ~Known(f.baseline, f.edge)
           /\ f.observation_count = Cardinality(After(b, f.edge))
           /\ \A s \in After(b, f.edge) : s <= f.last_seen
  BY FindingsShape, FindingShape DEF IInv
<1>4. /\ u.rows \subseteq Active /\ u.todo \subseteq u.rows
      /\ IsFiniteSet(u.findings) /\ OneEach(u.findings)
      /\ \A f \in u.findings :
           /\ f.baseline \in u.rows \ u.todo
           /\ Grounded(f)
           /\ f.new <=> ~Known(f.baseline, f.edge)
           /\ \A a \in anomalies : About(a, f) => NoLess(f, a)
  BY <1>1 DEF Sound
<1>5. todo \in SUBSET BaselineIds /\ findings \in SUBSET Finding
  BY <1>2, <1>3
<1>6. /\ t \in [phase : {"analyze"}, rows : SUBSET BaselineIds,
                todo : SUBSET BaselineIds, findings : SUBSET Finding]
      /\ t.phase = "analyze" /\ t.rows = u.rows /\ t.todo = todo /\ t.findings = findings
  <2>1. t = [u EXCEPT !.todo = todo, !.findings = findings]
    OBVIOUS
  <2> HIDE DEF todo, findings, t
  <2> QED BY <1>2, <1>5, <2>1, TurnShape
<1>7. t \in Transaction /\ LocksOf(t) = u.rows /\ t.phase \notin CapturePhases
  <2> HIDE DEF t
  <2> QED BY <1>6 DEF Transaction, LocksOf, LockPhases, CapturePhases
<1>8. IsFiniteSet(findings)
  BY <1>3, <1>4, FS_Union
<1>9. OneEach(findings)
  BY <1>1, <1>3, <1>4 DEF OneEach, About
<1>10. \A f \in Findings(b) : \A a \in anomalies : About(a, f) => NoLess(f, a)
  BY <1>3 DEF IInv, Evident, Grounded, About, NoLess
<1>11. \A f \in findings :
           /\ f.baseline \in u.rows \ todo
           /\ Grounded(f)
           /\ f.new <=> ~Known(f.baseline, f.edge)
           /\ \A a \in anomalies : About(a, f) => NoLess(f, a)
  BY <1>1, <1>3, <1>4, <1>10
<1>12. Sound(t)
  <2>1. todo \subseteq u.rows
    BY <1>4
  <2> HIDE DEF todo, findings, t
  <2> QED BY <1>4, <1>6, <1>8, <1>9, <1>11, <2>1 DEF Sound
<1>13. \A q \in Procs \ {p} : LocksOf(t) \cap Held(q) = {}
  <2>1. Held(p) = u.rows
    BY <1>1 DEF Held
  <2> QED BY <1>1, <1>7, <2>1 DEF IInv, TypeOK
<1> HIDE DEF t
<1> QED BY <1>1, <1>7, <1>12, <1>13, WorkKeeps

-----------------------------------------------------------------------------
\* A replacement deactivates the baselines it has locked: a pass has others.
LEMMA CommitCaptureKeeps ==
  ASSUME IInv, NEW p \in Admins, CommitCapture(p)
  PROVE  IInv'
<1> DEFINE u == txn[p]
           old == [b \in DOMAIN baselines |->
                     IF b \in u.rows THEN [baselines[b] EXCEPT !.active = FALSE]
                     ELSE baselines[b]]
<1>1. /\ p \in Procs /\ u \in Transaction /\ u.phase = "insert" /\ Set(p, Idle)
      /\ UNCHANGED <<clock, traffic, observations, anomalies, alerts, uniqueErrors, failures>>
      /\ baselines' = Append(old, u.new)
  BY DEF IInv, TypeOK, Procs, CommitCapture, wire
<1>2. u.new \in Baseline /\ LocksOf(u) = u.rows
  BY <1>1, TransactionShape DEF LocksOf, LockPhases
<1>3. \A b \in DOMAIN baselines :
        /\ old[b] \in Baseline /\ old[b].captured_at = baselines[b].captured_at
        /\ b \notin u.rows => old[b] = baselines[b]
  <2> SUFFICES ASSUME NEW b \in DOMAIN baselines
               PROVE  /\ old[b] \in Baseline /\ old[b].captured_at = baselines[b].captured_at
                      /\ b \notin u.rows => old[b] = baselines[b]
    OBVIOUS
  <2>1. baselines[b] \in Baseline
    BY DEF IInv, TypeOK
  <2> DEFINE no == FALSE
  <2>2. no \in BOOLEAN /\ [baselines[b] EXCEPT !.active = FALSE] = [baselines[b] EXCEPT !.active = no]
    OBVIOUS
  <2> HIDE DEF no
  <2>3. /\ [baselines[b] EXCEPT !.active = no] \in Baseline
        /\ [baselines[b] EXCEPT !.active = no].captured_at = baselines[b].captured_at
    BY <2>1, <2>2 DEF Baseline
  <2> QED BY <2>1, <2>2, <2>3
<1>4. old \in Seq(Baseline) /\ Len(old) = Len(baselines) /\ DOMAIN old = DOMAIN baselines
  <2>1. DOMAIN baselines = 1..Len(baselines) /\ Len(baselines) \in Nat
    BY DEF IInv, TypeOK
  <2>2. old \in [1..Len(baselines) -> Baseline]
    BY <1>3, <2>1
  <2> HIDE DEF old
  <2> QED BY <2>1, <2>2
<1> HIDE DEF old
<1>5. /\ baselines' \in Seq(Baseline) /\ Len(baselines') = Len(baselines) + 1
      /\ \A b \in DOMAIN baselines : b \in DOMAIN baselines' /\ baselines'[b] = old[b]
  <2>1. Len(baselines) \in Nat /\ DOMAIN old = 1..Len(old)
    BY <1>4 DEF IInv, TypeOK
  <2>2. baselines' \in Seq(Baseline) /\ Len(baselines') = Len(old) + 1
    BY <1>1, <1>2, <1>4
  <2>3. DOMAIN baselines' = 1..Len(old) + 1 /\ \A b \in 1..Len(old) : baselines'[b] = old[b]
    BY <1>1, <1>2, <1>4, <2>2
  <2>4. \A b \in 1..Len(old) : b \in 1..Len(old) + 1
    BY <1>4, <2>1
  <2> QED BY <1>4, <2>1, <2>2, <2>3, <2>4
<1>6. Grows
  BY <1>1, <1>3, <1>5 DEF Grows
<1>7. /\ txn'[p] = Idle /\ \A q \in Procs \ {p} : txn'[q] = txn[q]
      /\ txn' \in [Procs -> Transaction]
  BY <1>1, IdleSound DEF IInv, TypeOK, Set
<1>8. Capacity'
  <2>1. IsFiniteSet(Capturing) /\ Cardinality(Capturing) \in Nat /\ p \in Capturing
    BY <1>1, BaselinesAssumption, FS_Subset, FS_CardinalityType DEF Capturing
  <2>2. Capturing' = Capturing \ {p}
    BY <1>7, IdleSound DEF Capturing, Procs, CapturePhases
  <2>3. Cardinality(Capturing \ {p}) = Cardinality(Capturing) - 1
    BY <2>1, FS_RemoveElement
  <2> QED BY <1>5, <2>1, <2>2, <2>3, BaselinesAssumption DEF IInv, TypeOK, Capacity
<1>9. TypeOK'
  <2>1. Len(baselines') <= MaxBaselines
    <3>1. IsFiniteSet(Capturing') /\ Cardinality(Capturing') \in Nat
      BY BaselinesAssumption, FS_Subset, FS_CardinalityType DEF Capturing
    <3> QED BY <1>5, <1>8, <3>1, BaselinesAssumption DEF IInv, TypeOK, Capacity
  <2>2. \A q, r \in Procs : q # r => Held(q)' \cap Held(r)' = {}
    BY <1>7, IdleSound, HeldLocks DEF IInv, TypeOK, Held, LocksOf, LockPhases
  <2> QED BY <1>1, <1>5, <1>7, <2>1, <2>2 DEF IInv, TypeOK
<1>10. Past' /\ NewEdgesAlertedOnce'
  BY <1>1 DEF IInv, Past, NewEdgesAlertedOnce
<1>11. Evident'
  BY <1>1, <1>6, <1>9, <1>10, EvidentKept DEF IInv
<1>12. ASSUME NEW q \in Procs PROVE Sound(txn[q])'
  <2>1. CASE q = p
    BY <1>7, <2>1 DEF Sound, Idle
  <2>2. CASE q # p
    <3>1. PICK t : t = txn[q]
      OBVIOUS
    <3>2. t \in Transaction /\ Sound(t) /\ txn'[q] = t
      BY <1>7, <2>2, <3>1 DEF IInv, TypeOK, AllSound
    <3>3. \A b \in LocksOf(t) : b \notin u.rows
      BY <1>1, <1>2, <2>2, <3>1, HeldLocks DEF IInv, TypeOK
    <3>4. Same(t)
      BY <1>1, <1>3, <1>5, <3>3 DEF Same, Active, Known, About
    <3>5. Sound(t)'
      BY <1>6, <1>9, <1>10, <3>2, <3>4, SoundKept DEF IInv
    <3> QED BY <3>2, <3>5 DEF Sound, Active, OneEach, About, NoLess, Grounded, After, Known
  <2> QED BY <2>1, <2>2
<1> QED BY <1>8, <1>9, <1>10, <1>11, <1>12 DEF IInv, AllSound

-----------------------------------------------------------------------------
LEMMA AcknowledgedShape ==
  ASSUME NEW a \in Anomaly
  PROVE  LET c == [a EXCEPT !.status = "acknowledged"]
         IN  /\ c \in Anomaly /\ c.baseline = a.baseline /\ c.edge = a.edge
             /\ c.status = "acknowledged" /\ c.first_seen = a.first_seen
             /\ c.last_seen = a.last_seen /\ c.observation_count = a.observation_count
BY DEF Anomaly

LEMMA AcknowledgeKeeps ==
  ASSUME IInv, NEW a \in anomalies, Acknowledge(a)
  PROVE  IInv'
<1> DEFINE c == [a EXCEPT !.status = "acknowledged"]
<1>1. /\ a \in Anomaly /\ anomalies \subseteq Anomaly
      /\ anomalies' = (anomalies \ {a}) \cup {c}
      /\ UNCHANGED <<clock, traffic, observations, baselines, alerts, txn, uniqueErrors, failures>>
  BY DEF IInv, TypeOK, Acknowledge, wire
<1>2. /\ c \in Anomaly /\ c.baseline = a.baseline /\ c.edge = a.edge
      /\ c.last_seen = a.last_seen /\ c.observation_count = a.observation_count
  BY <1>1, AcknowledgedShape
<1> HIDE DEF c
<1>3. OneEach(anomalies) /\ alerts = Cardinality(anomalies) /\ IsFiniteSet(anomalies)
  BY DEF IInv, NewEdgesAlertedOnce, OneEach, About, Evident
<1>4. OneEach(anomalies') /\ Covers(anomalies, anomalies') /\ Covers(anomalies', anomalies)
  BY <1>1, <1>2, <1>3 DEF OneEach, Covers, About
<1>5. IsFiniteSet(anomalies') /\ Cardinality(anomalies') = Cardinality(anomalies)
  BY <1>3, <1>4, SameSize
<1>6. NewEdgesAlertedOnce'
  BY <1>1, <1>3, <1>4, <1>5 DEF IInv, NewEdgesAlertedOnce, OneEach, About
<1>7. TypeOK' /\ Past' /\ Capacity' /\ Grows
  BY <1>1, <1>2 DEF IInv, TypeOK, Past, Capacity, Capturing, Grows, Held
<1>8. Evident'
  BY <1>1, <1>2, <1>5 DEF IInv, Evident, Grounded, After
<1>9. ASSUME NEW p \in Procs PROVE Sound(txn[p])'
  <2>1. PICK t : t = txn[p]
    OBVIOUS
  <2>2. t \in Transaction /\ Sound(t) /\ txn'[p] = t
    BY <1>1, <2>1 DEF IInv, TypeOK, AllSound
  <2>3. Same(t)
    BY <1>1, <1>2 DEF Same, Active, Known, About
  <2>4. Sound(t)'
    BY <1>7, <2>2, <2>3, SoundKept DEF IInv
  <2> QED BY <2>2, <2>4 DEF Sound, Active, OneEach, About, NoLess, Grounded, After, Known
<1> QED BY <1>6, <1>7, <1>8, <1>9 DEF IInv, AllSound

-----------------------------------------------------------------------------
LEMMA UpdatedShape ==
  ASSUME NEW a \in Anomaly, NEW f \in Finding
  PROVE  /\ Updated(a, f) \in Anomaly /\ About(Updated(a, f), a)
         /\ Updated(a, f).status = a.status /\ Updated(a, f).first_seen = a.first_seen
         /\ Updated(a, f).last_seen = f.last_seen
         /\ Updated(a, f).observation_count = f.observation_count
<1> DEFINE last == f.last_seen
           count == f.observation_count
           z == [a EXCEPT !.last_seen = last, !.observation_count = count]
<1>1. last \in Nat /\ count \in Nat
  BY DEF Finding
<1>2. Updated(a, f) = z
  BY DEF Updated
<1> HIDE DEF last, count
<1>3. /\ z \in Anomaly /\ z.baseline = a.baseline /\ z.edge = a.edge
      /\ z.status = a.status /\ z.first_seen = a.first_seen
      /\ z.last_seen = last /\ z.observation_count = count
  BY <1>1 DEF Anomaly
<1> QED BY <1>2, <1>3 DEF About, last, count

LEMMA OpenedShape ==
  ASSUME NEW f \in Finding
  PROVE  /\ Opened(f) \in Anomaly /\ About(Opened(f), f)
         /\ Opened(f).last_seen = f.last_seen
         /\ Opened(f).observation_count = f.observation_count
BY DEF Opened, Finding, Anomaly, About

LEMMA CommitShape ==
  ASSUME IInv, NEW p \in Analyzers, CommitAnalysis(p), NEW t, t = txn[p]
  PROVE  /\ p \in Procs /\ t \in Transaction /\ t.phase = "analyze"
         /\ t.findings \in SUBSET Finding /\ LocksOf(t) = t.rows /\ Sound(t)
         /\ t.rows \subseteq Active /\ Active \subseteq DOMAIN baselines
         /\ anomalies' = Left(t) \cup Renewed(t) \cup Added(t)
         /\ alerts' = alerts + Cardinality(Fresh(t)) /\ Set(p, Idle)
         /\ UNCHANGED <<clock, traffic, observations, baselines, uniqueErrors, failures>>
         /\ \A x \in Renewed(t) : \E a \in anomalies : \E f \in t.findings :
              /\ About(f, a) /\ About(x, a) /\ x \in Anomaly
              /\ x.status = a.status /\ x.first_seen = a.first_seen
              /\ x.last_seen = f.last_seen /\ x.observation_count = f.observation_count
              /\ x = Updated(a, f)
         /\ \A x \in Added(t) : \E f \in Fresh(t) :
              /\ About(x, f) /\ x \in Anomaly
              /\ x.last_seen = f.last_seen /\ x.observation_count = f.observation_count
              /\ x = Opened(f)
<1>1. /\ p \in Procs /\ t \in Transaction /\ t.phase = "analyze" /\ t.todo = {}
      /\ Sound(t) /\ LocksOf(t) = t.rows /\ Set(p, Idle)
      /\ UNCHANGED <<clock, traffic, observations, baselines, failures>>
  BY DEF IInv, TypeOK, Procs, AllSound, CommitAnalysis, wire, LocksOf, LockPhases
<1>2. t.findings \in SUBSET Finding
  BY <1>1, TransactionShape
<1>3. {f \in Fresh(t) : Known(f.baseline, f.edge)} = {}
  BY <1>1 DEF Sound, Fresh
<1>4. /\ UNCHANGED uniqueErrors /\ alerts' = alerts + Cardinality(Fresh(t))
      /\ anomalies' = Left(t) \cup Renewed(t) \cup Added(t)
  BY <1>3 DEF CommitAnalysis, AlertsFor
<1>5. ASSUME NEW x \in Renewed(t)
      PROVE  \E a \in anomalies : \E f \in t.findings :
              /\ About(f, a) /\ About(x, a) /\ x \in Anomaly
              /\ x.status = a.status /\ x.first_seen = a.first_seen
              /\ x.last_seen = f.last_seen /\ x.observation_count = f.observation_count
              /\ x = Updated(a, f)
  <2>1. PICK a \in anomalies : \E f \in Found(t, a) : x = Updated(a, f)
    BY DEF Renewed
  <2>2. PICK f \in Found(t, a) : x = Updated(a, f)
    BY <2>1
  <2>3. f \in t.findings /\ About(f, a) /\ f \in Finding /\ a \in Anomaly
    BY <1>2 DEF Found, About, IInv, TypeOK
  <2> QED BY <2>2, <2>3, UpdatedShape
<1>6. ASSUME NEW x \in Added(t)
      PROVE  \E f \in Fresh(t) :
              /\ About(x, f) /\ x \in Anomaly
              /\ x.last_seen = f.last_seen /\ x.observation_count = f.observation_count
              /\ x = Opened(f)
  BY <1>2, OpenedShape DEF Added, Fresh
<1>7. t.rows \subseteq Active /\ Active \subseteq DOMAIN baselines
  BY <1>1 DEF Sound, Active
<1> QED BY <1>1, <1>2, <1>4, <1>5, <1>6, <1>7

\* The alerts of a commit are the anomalies it adds.
LEMMA CommitAnalysisKeeps ==
  ASSUME IInv, NEW p \in Analyzers, CommitAnalysis(p)
  PROVE  IInv'
<1>1. PICK t : t = txn[p]
  OBVIOUS
<1> DEFINE keep == Left(t) \cup Renewed(t)
           add == Added(t)
           fresh == Fresh(t)
<1>2. /\ p \in Procs /\ t \in Transaction /\ t.phase = "analyze"
      /\ t.findings \in SUBSET Finding /\ LocksOf(t) = t.rows /\ Sound(t)
      /\ t.rows \subseteq Active /\ Active \subseteq DOMAIN baselines
      /\ anomalies' = keep \cup add
      /\ alerts' = alerts + Cardinality(fresh) /\ Set(p, Idle)
      /\ UNCHANGED <<clock, traffic, observations, baselines, uniqueErrors, failures>>
  BY <1>1, CommitShape
<1>3. \A x \in Renewed(t) : \E a \in anomalies : \E f \in t.findings :
        /\ About(f, a) /\ About(x, a) /\ x \in Anomaly
        /\ x.status = a.status /\ x.first_seen = a.first_seen
        /\ x.last_seen = f.last_seen /\ x.observation_count = f.observation_count
        /\ x = Updated(a, f)
  BY <1>1, CommitShape
<1>4. \A x \in add : \E f \in fresh :
        /\ About(x, f) /\ x \in Anomaly
        /\ x.last_seen = f.last_seen /\ x.observation_count = f.observation_count
        /\ x = Opened(f)
  BY <1>1, CommitShape
<1>5. /\ IsFiniteSet(t.findings) /\ OneEach(t.findings) /\ fresh \subseteq t.findings
      /\ \A f \in t.findings :
           /\ f.baseline \in t.rows /\ Grounded(f)
           /\ f.new <=> ~Known(f.baseline, f.edge)
  BY <1>2 DEF Sound, Fresh
<1>6. /\ OneEach(anomalies) /\ alerts = Cardinality(anomalies) /\ IsFiniteSet(anomalies)
      /\ anomalies \subseteq Anomaly
  BY DEF IInv, NewEdgesAlertedOnce, OneEach, About, Evident, TypeOK
<1>7. \A a \in Left(t) : a \in anomalies /\ \A f \in t.findings : ~About(f, a)
  BY DEF Left, Found, About
<1>8. OneEach(keep)
  <2> SUFFICES ASSUME NEW x \in keep, NEW y \in keep, About(x, y) PROVE x = y
    BY DEF OneEach
  <2>1. CASE x \in Left(t) /\ y \in Left(t)
    BY <1>6, <1>7, <2>1 DEF OneEach
  <2>2. CASE x \in Renewed(t) /\ y \in Renewed(t)
    BY <1>3, <1>5, <1>6, <2>2 DEF OneEach, About
  <2>3. ASSUME NEW a \in Left(t), NEW z \in Renewed(t), About(a, z) \/ About(z, a) PROVE FALSE
    BY <1>3, <1>7, <2>3 DEF About
  <2> QED BY <2>1, <2>2, <2>3 DEF About
<1>9. Covers(anomalies, keep) /\ Covers(keep, anomalies)
  <2>1. Covers(anomalies, keep)
    BY <1>3, <1>7 DEF Covers, About
  <2>2. ASSUME NEW a \in anomalies PROVE \E x \in keep : About(x, a)
    <3>1. CASE Found(t, a) = {}
      BY <3>1 DEF Left, About
    <3>2. CASE Found(t, a) # {}
      <4>1. PICK f \in Found(t, a) : TRUE
        BY <3>2
      <4>2. Updated(a, f) \in Renewed(t)
        BY <4>1 DEF Renewed
      <4>3. f \in Finding /\ a \in Anomaly
        BY <1>2, <1>6, <4>1 DEF Found
      <4> QED BY <4>2, <4>3, UpdatedShape
    <3> QED BY <3>1, <3>2
  <2> QED BY <2>1, <2>2 DEF Covers
<1>10. IsFiniteSet(keep) /\ Cardinality(keep) = Cardinality(anomalies)
  <2> HIDE DEF keep
  <2> QED BY <1>6, <1>8, <1>9, SameSize
<1>11. IsFiniteSet(fresh) /\ OneEach(fresh)
  BY <1>5, FS_Subset DEF OneEach
<1>12. OneEach(add)
  BY <1>4, <1>11 DEF OneEach, About
<1>13. Covers(fresh, add) /\ Covers(add, fresh)
  <2>1. Covers(fresh, add)
    BY <1>4 DEF Covers, About
  <2>2. ASSUME NEW f \in fresh PROVE Opened(f) \in add /\ About(Opened(f), f)
    BY <1>2, <1>5, OpenedShape DEF Added
  <2> QED BY <2>1, <2>2 DEF Covers
<1>14. IsFiniteSet(add) /\ Cardinality(add) = Cardinality(fresh)
  <2> HIDE DEF fresh, add
  <2> QED BY <1>11, <1>12, <1>13, SameSize
<1>15. \A x \in keep, y \in add : ~About(x, y) /\ ~About(y, x)
  <2> SUFFICES ASSUME NEW x \in keep, NEW y \in add, About(x, y) PROVE FALSE
    BY DEF About
  <2>1. PICK a \in anomalies : About(a, x)
    BY <1>9 DEF Covers
  <2>2. PICK f \in fresh : About(y, f)
    BY <1>4
  <2>3. Known(f.baseline, f.edge)
    BY <2>1, <2>2 DEF Known, About
  <2> QED BY <1>5, <2>3 DEF Fresh
<1>16. OneEach(anomalies')
  BY <1>2, <1>8, <1>12, <1>15 DEF OneEach
<1>17. keep \cap add = {}
  BY <1>15 DEF About
<1>18. IsFiniteSet(anomalies') /\ Cardinality(anomalies') = Cardinality(anomalies) + Cardinality(fresh)
  <2> HIDE DEF keep, add, fresh
  <2> QED BY <1>2, <1>10, <1>14, <1>17, DisjointUnion
<1>19. NewEdgesAlertedOnce'
  BY <1>2, <1>6, <1>16, <1>18 DEF IInv, NewEdgesAlertedOnce, OneEach, About
<1>20. /\ txn'[p] = Idle /\ \A q \in Procs \ {p} : txn'[q] = txn[q]
       /\ txn' \in [Procs -> Transaction]
  BY <1>2, IdleSound DEF IInv, TypeOK, Set
<1>21. TypeOK'
  <2>1. \A q, r \in Procs : q # r => Held(q)' \cap Held(r)' = {}
    BY <1>20, IdleSound, HeldLocks DEF IInv, TypeOK, Held, LocksOf, LockPhases
  <2>2. anomalies' \subseteq Anomaly
    BY <1>2, <1>3, <1>4, <1>6, <1>7
  <2>3. alerts' \in Nat
    BY <1>2, <1>11, FS_CardinalityType DEF IInv, TypeOK
  <2> QED BY <1>2, <1>20, <2>1, <2>2, <2>3 DEF IInv, TypeOK
<1>22. Past' /\ Grows
  BY <1>2 DEF IInv, Past, Grows
<1>23. Capacity'
  <2>1. Capturing' = Capturing
    <3>1. p \notin Admins
      BY BaselinesAssumption
    <3> QED BY <1>20, <3>1 DEF Capturing, Procs
  <2> QED BY <1>2, <2>1 DEF IInv, Capacity
<1>24. Evident'
  <2>1. \A a \in anomalies' : a.baseline \in DOMAIN baselines /\ Grounded(a)
    BY <1>2, <1>3, <1>4, <1>5, <1>7 DEF IInv, Evident, Grounded, About
  <2> QED BY <1>2, <1>18, <2>1 DEF Evident, Grounded, After
<1>25. ASSUME NEW q \in Procs PROVE Sound(txn[q])'
  <2>1. CASE q = p
    BY <1>20, <2>1 DEF Sound, Idle
  <2>2. CASE q # p
    <3>1. PICK v : v = txn[q]
      OBVIOUS
    <3>2. v \in Transaction /\ Sound(v) /\ txn'[q] = v
      BY <1>20, <2>2, <3>1 DEF IInv, TypeOK, AllSound
    <3>3. \A b \in LocksOf(v) : b \notin t.rows
      BY <1>1, <1>2, <2>2, <3>1, HeldLocks DEF IInv, TypeOK
    <3>4. \A a \in anomalies : a.baseline \in LocksOf(v) => a \in anomalies'
      BY <1>2, <1>5, <3>3 DEF Left, Found
    <3>5. \A a \in anomalies' : a.baseline \in LocksOf(v) => a \in anomalies
      BY <1>2, <1>3, <1>4, <1>5, <1>7, <3>3 DEF About
    <3>6. Same(v)
      <4>1. Active' = Active
        BY <1>2 DEF Active
      <4> QED BY <3>4, <3>5, <4>1 DEF Same, Known, About
    <3>7. Sound(v)'
      BY <1>21, <1>22, <3>2, <3>6, SoundKept DEF IInv
    <3> QED BY <3>2, <3>7 DEF Sound, Active, OneEach, About, NoLess, Grounded, After, Known
  <2> QED BY <2>1, <2>2
<1> QED BY <1>19, <1>21, <1>22, <1>23, <1>24, <1>25 DEF IInv, AllSound

-----------------------------------------------------------------------------
LEMMA Inductive == IInv /\ [Next]_vars => IInv'
<1> SUFFICES ASSUME IInv, [Next]_vars PROVE IInv'
  OBVIOUS
<1>1. CASE (\E e \in Edges : Observe(e)) \/ (\E o \in traffic : Ingest(o))
  BY <1>1, WireKeeps
<1>2. ASSUME NEW a \in anomalies, Acknowledge(a) PROVE IInv'
  BY <1>2, AcknowledgeKeeps
<1>3. ASSUME NEW p \in Admins, StartCapture(p) \/ CaptureStep(p) PROVE IInv'
  BY <1>3, CaptureWorks, CommitCaptureKeeps DEF CaptureStep
<1>4. ASSUME NEW p \in Analyzers, AnalysisStep(p) \/ CommitAnalysis(p) PROVE IInv'
  BY <1>4, AnalysisWorks, AnalyzeKeeps, CommitAnalysisKeeps DEF AnalysisStep
<1>5. ASSUME NEW p \in Procs, Fail(p) PROVE IInv'
  BY <1>5, FailKeeps
<1>6. CASE UNCHANGED vars
  <2>1. /\ UNCHANGED <<clock, traffic, observations, baselines, anomalies>>
        /\ UNCHANGED <<alerts, txn, uniqueErrors, failures>>
    BY <1>6 DEF vars
  <2>2. TypeOK' /\ Past' /\ Evident' /\ Capacity' /\ NewEdgesAlertedOnce'
    BY <2>1 DEF IInv, TypeOK, Held, Past, Evident, Grounded, After, Capacity, Capturing,
       NewEdgesAlertedOnce
  <2>3. ASSUME NEW p \in Procs PROVE Sound(txn[p])'
    BY <2>1 DEF IInv, AllSound, Sound, Active, OneEach, About, NoLess, Grounded, After, Known
  <2> QED BY <2>2, <2>3 DEF IInv, AllSound
<1> QED BY <1>1, <1>2, <1>3, <1>4, <1>5, <1>6 DEF Next

LEMMA Invariance == Spec => []IInv
<1>1. Init => IInv
  BY Initially
<1>2. IInv /\ [Next]_vars => IInv'
  BY Inductive
<1> QED BY <1>1, <1>2, PTL DEF Spec

\* Every variable keeps its type, no more baselines are captured than the bound,
\* and no row of baselines has two lock holders.
THEOREM TypeCorrect == Spec => []TypeOK
<1>1. IInv => TypeOK
  BY DEF IInv
<1> QED BY <1>1, Invariance, PTL

\* However passes overlap, are cut off and repeated, an edge that is new to a
\* baseline is alerted once and uq_graph_anomaly refuses nothing.
THEOREM AlertedOnce == Spec => []NewEdgesAlertedOnce
<1>1. IInv => NewEdgesAlertedOnce
  BY DEF IInv
<1> QED BY <1>1, Invariance, PTL

\* Only the commit of a pass makes anomalies that were not there.
LEMMA OthersMakeNone ==
  ASSUME [Next]_vars, NEW a \in anomalies', ~Known(a.baseline, a.edge), TypeOK
  PROVE  \E p \in Analyzers : CommitAnalysis(p)
<1>1. a \notin anomalies
  BY DEF Known
<1>2. ASSUME NEW c \in anomalies, Acknowledge(c) PROVE FALSE
  <2>1. a = [c EXCEPT !.status = "acknowledged"] /\ c \in Anomaly
    BY <1>1, <1>2 DEF Acknowledge, TypeOK
  <2>2. c.baseline = a.baseline /\ c.edge = a.edge
    BY <2>1, AcknowledgedShape
  <2> QED BY <2>2 DEF Known
<1>3. ASSUME UNCHANGED anomalies PROVE FALSE
  BY <1>1, <1>3
<1> QED BY <1>2, <1>3 DEF Next, Observe, Ingest, StartCapture, CaptureStep, Deactivate,
           SelectEdges, CommitCapture, AnalysisStep, StartAnalysis, LockActive, Analyze,
           Fail, vars

\* A pass that goes on when its baseline is replaced raises nothing more about it.
THEOREM ReplacedIsSilent == Spec => ReplacedBaselineIsSilent
<1> DEFINE A == \A a \in anomalies' : ~Known(a.baseline, a.edge) => baselines[a.baseline].active
<1>1. IInv /\ [Next]_vars => [A]_vars
  <2> SUFFICES ASSUME IInv, [Next]_vars, NEW a \in anomalies', ~Known(a.baseline, a.edge)
               PROVE  baselines[a.baseline].active
    OBVIOUS
  <2>1. PICK p \in Analyzers : CommitAnalysis(p)
    BY OthersMakeNone DEF IInv
  <2>2. PICK t : t = txn[p]
    OBVIOUS
  <2>3. /\ Sound(t) /\ t.phase = "analyze" /\ t.rows \subseteq Active
        /\ anomalies' = Left(t) \cup Renewed(t) \cup Added(t)
    BY <2>1, <2>2, CommitShape
  <2>4. a \notin Left(t)
    BY DEF Left, Known
  <2>5. a \notin Renewed(t)
    <3> SUFFICES ASSUME a \in Renewed(t) PROVE FALSE
      OBVIOUS
    <3>1. PICK c \in anomalies : About(a, c)
      BY <2>1, <2>2, CommitShape
    <3> QED BY <3>1 DEF Known, About
  <2>6. PICK f \in Fresh(t) : About(a, f)
    BY <2>1, <2>2, <2>3, <2>4, <2>5, CommitShape
  <2>7. a.baseline \in t.rows
    BY <2>3, <2>6 DEF Sound, Fresh, About
  <2> QED BY <2>3, <2>7 DEF Active
<1> QED BY <1>1, Invariance, PTL DEF Spec, ReplacedBaselineIsSilent

\* An anomaly keeps its first observation, counts no less and stays acknowledged,
\* whatever passes run beside and after the acknowledgement.
THEOREM EvidenceGrows == Spec => EvidenceOnlyGrows
<1> DEFINE Kept(a, c) ==
             /\ c.baseline = a.baseline /\ c.edge = a.edge
             /\ c.first_seen = a.first_seen
             /\ c.last_seen >= a.last_seen /\ c.observation_count >= a.observation_count
             /\ a.status = "acknowledged" => c.status = "acknowledged"
           A == \A a \in anomalies : \E c \in anomalies' : Kept(a, c)
<1>1. IInv /\ [Next]_vars => [A]_vars
  <2> SUFFICES ASSUME IInv, [Next]_vars, NEW a \in anomalies
               PROVE  \E c \in anomalies' : Kept(a, c)
    OBVIOUS
  <2>1. a \in Anomaly /\ a.last_seen \in Nat /\ a.observation_count \in Nat
    BY DEF IInv, TypeOK, Anomaly
  <2>2. ASSUME a \in anomalies' PROVE \E c \in anomalies' : Kept(a, c)
    BY <2>1, <2>2
  <2>3. ASSUME NEW d \in anomalies, Acknowledge(d) PROVE \E c \in anomalies' : Kept(a, c)
    <3>1. CASE a = d
      <4> DEFINE c == [a EXCEPT !.status = "acknowledged"]
      <4>1. c \in anomalies'
        BY <2>3, <3>1 DEF Acknowledge
      <4>2. /\ c.baseline = a.baseline /\ c.edge = a.edge
            /\ c.status = "acknowledged" /\ c.first_seen = a.first_seen
            /\ c.last_seen = a.last_seen /\ c.observation_count = a.observation_count
        BY <2>1, AcknowledgedShape
      <4> HIDE DEF c
      <4> QED BY <2>1, <4>1, <4>2
    <3>2. CASE a # d
      BY <2>2, <2>3, <3>2 DEF Acknowledge
    <3> QED BY <3>1, <3>2
  <2>4. ASSUME NEW p \in Analyzers, CommitAnalysis(p) PROVE \E c \in anomalies' : Kept(a, c)
    <3>1. PICK t : t = txn[p]
      OBVIOUS
    <3>2. /\ Sound(t) /\ t.phase = "analyze" /\ t.findings \in SUBSET Finding
          /\ anomalies' = Left(t) \cup Renewed(t) \cup Added(t)
      BY <2>4, <3>1, CommitShape
    <3>3. CASE Found(t, a) = {}
      BY <2>2, <3>2, <3>3 DEF Left
    <3>4. CASE Found(t, a) # {}
      <4>1. PICK f \in Found(t, a) : TRUE
        BY <3>4
      <4>2. f \in t.findings /\ f \in Finding /\ About(a, f)
        BY <3>2, <4>1 DEF Found, About
      <4>3. NoLess(f, a)
        BY <3>2, <4>2 DEF Sound
      <4> DEFINE c == Updated(a, f)
      <4>4. c \in anomalies'
        BY <3>2, <4>1 DEF Renewed
      <4>5. /\ About(c, a) /\ c.status = a.status /\ c.first_seen = a.first_seen
            /\ c.last_seen = f.last_seen /\ c.observation_count = f.observation_count
        BY <2>1, <4>2, UpdatedShape
      <4>6. f.last_seen \in Nat /\ f.observation_count \in Nat
        BY <4>2 DEF Finding
      <4> HIDE DEF c
      <4> QED BY <2>1, <4>3, <4>4, <4>5, <4>6 DEF About, NoLess
    <3> QED BY <3>3, <3>4
  <2> QED BY <2>2, <2>3, <2>4 DEF Next, Observe, Ingest, StartCapture, CaptureStep, Deactivate,
             SelectEdges, CommitCapture, AnalysisStep, StartAnalysis, LockActive, Analyze,
             Fail, vars
<1> QED BY <1>1, Invariance, PTL DEF Spec, EvidenceOnlyGrows
=============================================================================
