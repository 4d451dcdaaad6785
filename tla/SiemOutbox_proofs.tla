------------------------- MODULE SiemOutbox_proofs --------------------------
(***************************************************************************)
(* Machine-checked proofs that the audit log tells the state of every SIEM *)
(* destination, that the worker is silent to a disabled one, and that each *)
(* delivery lives as DeliveryLifecycle says, for any number of processes   *)
(* and destinations and any bounds.                                        *)
(***************************************************************************)
EXTENDS SiemOutbox, FiniteSetTheorems, TLAPS

States == {"absent", "disabled", "enabled"}
SwitchTxn == [phase : {"switch"}, destination : Destinations,
              was : {"disabled", "enabled"}, target : {"disabled", "enabled"}]
EventTxn == [phase : {"lock", "insert"}, matched : SUBSET Destinations,
             inserted : SUBSET Destinations]
PassTxn == [phase : {"next", "audit"}, todo : SUBSET Nat,
            read : [destination : Destinations \cup {None}, state : States],
            rows : UNION {[S -> Delivery] : S \in SUBSET Nat}]
Transaction == {Idle} \cup SwitchTxn \cup EventTxn \cup PassTxn

\* What the proofs need of the types; a transaction in one of its phases has
\* the fields of that phase.
Typed ==
  /\ destinations \in [Destinations -> States]
  /\ deliveries \in Seq(Delivery)
  /\ open \in [Workers -> SUBSET Destinations]
  /\ txn \in [Procs -> Transaction]

\* Only administrators switch, one at a time each destination, and the row
\* is still what it was when it was locked.
RowLocked ==
  /\ \A p \in Procs :
       txn[p].phase = "switch" => p \in Admins /\ txn[p].was = destinations[txn[p].destination]
  /\ \A p, q \in Procs :
       txn[p].phase = "switch" /\ txn[q].phase = "switch" /\ p # q =>
         txn[p].destination # txn[q].destination

\* What is enabled during a pass, now or when the pass read it, counts as open
\* to it.
OpenToPass ==
  \A w \in Workers :
    txn[w].phase \in {"next", "audit"} =>
      /\ {x \in Destinations : destinations[x] = "enabled"} \subseteq open[w]
      /\ txn[w].read.state = "enabled" => txn[w].read.destination \in open[w]

IInv == Typed /\ RowLocked /\ AuditTellsSwitch /\ OpenToPass

-----------------------------------------------------------------------------
LEMMA TransactionShape ==
  ASSUME NEW t \in Transaction
  PROVE  /\ t.phase \in {"idle", "switch", "lock", "insert", "next", "audit"}
         /\ t.phase = "idle" => t = Idle
         /\ t.phase = "switch" => t \in SwitchTxn
         /\ t.phase \in {"lock", "insert"} => t \in EventTxn
         /\ t.phase \in {"next", "audit"} => t \in PassTxn
BY DEF Transaction, Idle, SwitchTxn, EventTxn, PassTxn

\* A set made a sequence has no elements but its own, and is as long as there
\* are elements.
LEMMA SetToSeqRange ==
  ASSUME NEW S, IsFiniteSet(S)
  PROVE  /\ SetToSeq(S) \in Seq(S) /\ SetToSeq(S) \in [1..Cardinality(S) -> S]
         /\ \A i \in DOMAIN SetToSeq(S) : SetToSeq(S)[i] \in S
<1> DEFINE n == Cardinality(S)
<1>1. n \in Nat /\ \E f \in Bijection(1..n, S) : TRUE
  BY FS_CardinalityType, FS_NatBijection, Zenon DEF ExistsBijection
<1>2. \E f \in [1..n -> S] : IsInjective(f)
  BY <1>1 DEF Bijection, Injection, IsInjective
<1>3. SetToSeq(S) \in [1..n -> S]
  BY <1>2 DEF SetToSeq
<1> QED BY <1>1, <1>3

-----------------------------------------------------------------------------
\* A step that changes no destination, and ends or leaves alone the switches,
\* keeps the row locks and what the log tells.
LEMMA NoSwitchTouched ==
  ASSUME RowLocked, AuditTellsSwitch, UNCHANGED <<destinations, audited>>,
         NEW p \in Procs, NEW t, t.phase # "switch", txn' = [txn EXCEPT ![p] = t],
         txn \in [Procs -> Transaction]
  PROVE  RowLocked' /\ AuditTellsSwitch'
<1>1. \A q \in Procs : txn'[q].phase = "switch" => q # p /\ txn'[q] = txn[q]
  OBVIOUS
<1> QED BY <1>1 DEF RowLocked, AuditTellsSwitch

\* A step of one process that leaves the rest alone keeps what is open to the
\* other passes.
LEMMA OtherPassesOpen ==
  ASSUME OpenToPass, UNCHANGED <<destinations, open>>,
         NEW p \in Procs, NEW t, txn' = [txn EXCEPT ![p] = t], txn \in [Procs -> Transaction],
         \/ t.phase \notin {"next", "audit"}
         \/ /\ p \in Workers => {x \in Destinations : destinations[x] = "enabled"} \subseteq open[p]
            /\ p \in Workers => (t.read.state = "enabled" => t.read.destination \in open[p])
  PROVE  OpenToPass'
<1>1. txn'[p] = t /\ \A w \in Procs \ {p} : txn'[w] = txn[w]
  OBVIOUS
<1>2. Workers \subseteq Procs
  BY DEF Procs
<1> QED BY <1>1, <1>2 DEF OpenToPass

-----------------------------------------------------------------------------
(* One lemma for each group of actions. *)

LEMMA Initially == Init => IInv
<1> SUFFICES ASSUME Init PROVE IInv
  OBVIOUS
<1>1. Typed
  BY DEF Init, Typed, States, Transaction
<1>2. \A p \in Procs : txn[p].phase = "idle"
  BY DEF Init, Idle
<1>3. Workers \subseteq Procs
  BY DEF Procs
<1> QED BY <1>1, <1>2, <1>3 DEF Init, IInv, RowLocked, AuditTellsSwitch, OpenToPass

LEMMA StutterKeeps == IInv /\ UNCHANGED vars => IInv'
BY DEF IInv, vars, Typed, RowLocked, AuditTellsSwitch, OpenToPass

LEMMA CreateKeeps ==
  ASSUME IInv, NEW p \in Admins, NEW x \in Destinations, CreateDestination(p, x)
  PROVE  IInv'
<1> USE DEF CreateDestination
<1>1. Typed'
  BY DEF IInv, Typed, States
<1>2. \A q \in Procs : txn[q].phase = "switch" =>
        txn[q] \in SwitchTxn /\ destinations'[txn[q].destination] = destinations[txn[q].destination]
  <2> TAKE q \in Procs
  <2> HAVE txn[q].phase = "switch"
  <2>1. txn[q] \in SwitchTxn
    BY TransactionShape DEF IInv, Typed
  <2>2. txn[q].destination # x
    BY <2>1 DEF IInv, RowLocked, SwitchTxn
  <2> QED BY <2>1, <2>2 DEF IInv, Typed, SwitchTxn
<1>3. RowLocked'
  BY <1>2 DEF IInv, RowLocked
<1>4. AuditTellsSwitch'
  BY DEF IInv, AuditTellsSwitch
<1>5. OpenToPass'
  BY DEF IInv, Typed, OpenToPass
<1> QED BY <1>1, <1>3, <1>4, <1>5 DEF IInv

\* The row is free when it is locked, so no other switch has it.
LEMMA LockDestinationKeeps ==
  ASSUME IInv, NEW p \in Admins, NEW x \in Destinations, NEW target \in {"enabled", "disabled"},
         LockDestination(p, x, target)
  PROVE  IInv'
<1> DEFINE t == [phase |-> "switch", destination |-> x, was |-> destinations[x], target |-> target]
<1> USE DEF LockDestination, Set
<1>1. p \in Procs /\ txn \in [Procs -> Transaction] /\ txn' = [txn EXCEPT ![p] = t]
  BY DEF IInv, Typed, Procs
<1>2. t \in SwitchTxn
  BY DEF IInv, Typed, States, SwitchTxn
<1>3. Typed'
  BY <1>1, <1>2 DEF IInv, Typed, Transaction
<1>4. \A q \in Procs \ {p} : txn'[q] = txn[q] /\ (txn[q].phase = "switch" => txn[q].destination # x)
  <2>1. \A q \in Admins : txn[q].phase = "switch" => txn[q].destination # x
    BY DEF RowFree, NotHeld, HeldBy
  <2> QED BY <2>1, <1>1 DEF IInv, RowLocked
<1>5. RowLocked'
  BY <1>1, <1>4 DEF IInv, RowLocked
<1>6. AuditTellsSwitch'
  BY DEF IInv, AuditTellsSwitch
<1>7. OpenToPass'
  BY <1>1, OtherPassesOpen DEF IInv
<1> QED BY <1>3, <1>5, <1>6, <1>7 DEF IInv

\* What a switch writes is its target, as the row is what it read; no other
\* switch has that row.
LEMMA SwitchKeeps ==
  ASSUME IInv, NEW p \in Admins, Switch(p)
  PROVE  IInv'
<1> DEFINE x == txn[p].destination
<1> USE DEF Switch, Set
<1>1. p \in Procs /\ txn \in [Procs -> Transaction] /\ txn' = [txn EXCEPT ![p] = Idle]
  BY DEF IInv, Typed, Procs
<1>2. txn[p] \in SwitchTxn /\ x \in Destinations
  BY <1>1, TransactionShape DEF SwitchTxn
<1>3. destinations' = [destinations EXCEPT ![x] = txn[p].target]
  BY <1>1, <1>2 DEF IInv, Typed, RowLocked
<1>4. Typed'
  BY <1>1, <1>2, <1>3 DEF IInv, Typed, Transaction, SwitchTxn, States
<1>5. \A q \in Procs : txn'[q].phase = "switch" =>
        /\ q # p /\ txn'[q] = txn[q] /\ txn[q] \in SwitchTxn
        /\ destinations'[txn[q].destination] = destinations[txn[q].destination]
  <2> TAKE q \in Procs
  <2> HAVE txn'[q].phase = "switch"
  <2>1. q # p /\ txn'[q] = txn[q]
    BY <1>1 DEF Idle
  <2>2. txn[q] \in SwitchTxn
    BY <1>1, <2>1, TransactionShape
  <2>3. txn[q].destination # x
    BY <1>1, <2>1 DEF IInv, RowLocked
  <2> QED BY <1>3, <2>1, <2>2, <2>3 DEF IInv, Typed, SwitchTxn
<1>6. RowLocked'
  BY <1>5 DEF IInv, RowLocked
<1>7. AuditTellsSwitch'
  BY <1>3 DEF IInv, AuditTellsSwitch
<1>8. OpenToPass'
  <2> SUFFICES ASSUME NEW w \in Workers, txn'[w].phase \in {"next", "audit"}
               PROVE  /\ {y \in Destinations : destinations'[y] = "enabled"} \subseteq open'[w]
                      /\ txn'[w].read.state = "enabled" => txn'[w].read.destination \in open'[w]
    BY DEF OpenToPass
  <2>1. w \in Procs /\ w # p /\ txn'[w] = txn[w]
    BY <1>1 DEF Idle, Procs
  <2>2. open'[w] = open[w] \cup {y \in Destinations : destinations'[y] = "enabled"}
    BY DEF IInv, Typed
  <2> QED BY <2>1, <2>2 DEF IInv, OpenToPass
<1> QED BY <1>4, <1>6, <1>7, <1>8 DEF IInv

\* Steps that end a transaction or go on with one of a producer.
LEMMA QuietKeeps ==
  ASSUME IInv, NEW p \in Procs, NEW t \in Transaction \ (SwitchTxn \cup PassTxn),
         txn' = [txn EXCEPT ![p] = t],
         UNCHANGED <<destinations, deliveries, audited, open>>
  PROVE  IInv'
<1>1. t.phase \notin {"switch", "next", "audit"}
  BY DEF Transaction, Idle, EventTxn
<1>2. Typed'
  BY DEF IInv, Typed
<1>3. RowLocked' /\ AuditTellsSwitch'
  BY <1>1, NoSwitchTouched DEF IInv, Typed
<1>4. OpenToPass'
  BY <1>1, OtherPassesOpen DEF IInv, Typed
<1> QED BY <1>2, <1>3, <1>4 DEF IInv

LEMMA IdleIsQuiet == Idle \in Transaction \ (SwitchTxn \cup PassTxn)
BY DEF Transaction, Idle, SwitchTxn, PassTxn

LEMMA EventIsQuiet == EventTxn \subseteq Transaction \ (SwitchTxn \cup PassTxn)
BY DEF Transaction, EventTxn, SwitchTxn, PassTxn

LEMMA EventKeeps ==
  ASSUME IInv, NEW p \in Producers,
         \/ \E matched \in SUBSET Destinations, recorded \in BOOLEAN : Match(p, matched, recorded)
         \/ LockAudit(p) \/ \E x \in Destinations : Insert(p, x)
  PROVE  IInv'
<1>1. p \in Procs /\ txn \in [Procs -> Transaction]
  BY DEF IInv, Typed, Procs
<1>2. txn[p].phase \in {"lock", "insert"} => txn[p] \in EventTxn
  BY <1>1, TransactionShape
<1>3. ASSUME NEW matched \in SUBSET Destinations, NEW recorded \in BOOLEAN,
             Match(p, matched, recorded)
      PROVE  IInv'
  <2>1. PICK t \in EventTxn : txn' = [txn EXCEPT ![p] = t]
    BY <1>3 DEF Match, Set, EventTxn
  <2> QED BY <1>1, <1>3, <2>1, EventIsQuiet, QuietKeeps DEF Match
<1>4. CASE LockAudit(p)
  <2>1. [txn[p] EXCEPT !.phase = "insert"] \in EventTxn
    BY <1>2, <1>4 DEF LockAudit, EventTxn
  <2> QED BY <1>1, <1>4, <2>1, EventIsQuiet, QuietKeeps DEF LockAudit, Set
<1>5. ASSUME NEW x \in Destinations, Insert(p, x)
      PROVE  IInv'
  <2>1. [txn[p] EXCEPT !.inserted = @ \cup {x}] \in EventTxn
    BY <1>2, <1>5 DEF Insert, EventTxn
  <2> QED BY <1>1, <1>5, <2>1, EventIsQuiet, QuietKeeps DEF Insert, Set
<1> QED BY <1>3, <1>4, <1>5

LEMMA EndsKeep ==
  ASSUME IInv,
         \/ \E p \in Admins : Refuse(p)
         \/ \E p \in Producers, a \in Admins : BreakDeadlock(p, a)
  PROVE  IInv'
<1>1. \A p \in Procs : Set(p, Idle) /\ UNCHANGED <<destinations, deliveries, audited, open>> => IInv'
  BY IdleIsQuiet, QuietKeeps DEF Set
<1> QED BY <1>1 DEF Refuse, BreakDeadlock, Procs

\* The new deliveries are of destinations that matched.
LEMMA EnqueueKeeps ==
  ASSUME IInv, NEW p \in Producers, Enqueue(p)
  PROVE  IInv'
<1> DEFINE xs == SetToSeq(txn[p].matched)
           new == [i \in DOMAIN xs |-> Queued(xs[i])]
<1> USE DEF Enqueue, Set
<1>1. p \in Procs /\ txn \in [Procs -> Transaction] /\ txn' = [txn EXCEPT ![p] = Idle]
  BY DEF IInv, Typed, Procs
<1>2. txn[p].matched \in SUBSET Destinations
  BY <1>1, TransactionShape DEF EventTxn
<1>3. IsFiniteSet(txn[p].matched)
  BY <1>2, FS_Subset, SiemAssumption
<1>4. xs \in Seq(txn[p].matched) /\ \A i \in DOMAIN xs : xs[i] \in Destinations
  BY <1>2, <1>3, SetToSeqRange
<1>5. \A x \in Destinations : Queued(x) \in Delivery
  BY DEF Queued, Delivery, Pending
<1>6. new \in Seq(Delivery)
  <2> HIDE DEF xs
  <2>1. DOMAIN xs = 1..Len(xs) /\ Len(xs) \in Nat
    BY <1>4
  <2>2. \A i \in 1..Len(xs) : Queued(xs[i]) \in Delivery
    BY <1>4, <1>5, <2>1
  <2>3. new = [i \in 1..Len(xs) |-> Queued(xs[i])]
    BY <2>1
  <2> QED BY <2>1, <2>2, <2>3
<1>7. deliveries' \in Seq(Delivery)
  <2>1. deliveries' = deliveries \o new
    OBVIOUS
  <2>2. deliveries \in Seq(Delivery)
    BY DEF IInv, Typed
  <2>3. \A s, n \in Seq(Delivery) : s \o n \in Seq(Delivery)
    OBVIOUS
  <2> HIDE DEF new, Enqueue
  <2> QED BY <1>6, <2>1, <2>2, <2>3
<1>8. Typed'
  BY <1>1, <1>7, IdleIsQuiet DEF IInv, Typed
<1>9. RowLocked' /\ AuditTellsSwitch'
  BY <1>1, NoSwitchTouched DEF IInv, Idle
<1>10. OpenToPass'
  BY <1>1, OtherPassesOpen DEF IInv, Idle
<1> QED BY <1>8, <1>9, <1>10 DEF IInv

LEMMA BecomeDueKeeps ==
  ASSUME IInv, NEW d \in DOMAIN deliveries, BecomeDue(d)
  PROVE  IInv'
<1>1. deliveries[d] \in Delivery
  BY DEF IInv, Typed
<1>2. [deliveries[d] EXCEPT !.due = TRUE] \in Delivery
  BY <1>1 DEF Delivery
<1>3. deliveries' \in Seq(Delivery)
  BY <1>2 DEF BecomeDue, IInv, Typed
<1> QED BY <1>3 DEF BecomeDue, IInv, Typed, RowLocked, AuditTellsSwitch, OpenToPass

-----------------------------------------------------------------------------
(* Passes of the worker *)

LEMMA SelectKeeps ==
  ASSUME IInv, NEW w \in Workers, Select(w)
  PROVE  IInv'
<1> DEFINE t == [phase |-> "next", todo |-> Batch(w),
                 read |-> [destination |-> None, state |-> "absent"],
                 rows |-> [d \in Batch(w) |-> deliveries[d]]]
<1> USE DEF Select, Set
<1>1. w \in Procs /\ txn \in [Procs -> Transaction] /\ txn' = [txn EXCEPT ![w] = t]
  BY DEF IInv, Typed, Procs
<1>2. Batch(w) \subseteq DOMAIN deliveries /\ DOMAIN deliveries \subseteq Nat
  BY DEF Batch, Selectable, IInv, Typed
<1>3. [d \in Batch(w) |-> deliveries[d]] \in [Batch(w) -> Delivery]
  BY <1>2 DEF IInv, Typed
<1>4. t \in PassTxn
  <2> HIDE DEF Batch
  <2>1. t.rows \in UNION {[S -> Delivery] : S \in SUBSET Nat}
    BY <1>2, <1>3
  <2> QED BY <1>2, <2>1 DEF PassTxn, States
<1>5. Typed'
  BY <1>1, <1>4 DEF IInv, Typed, Transaction
<1>6. RowLocked' /\ AuditTellsSwitch'
  BY <1>1, NoSwitchTouched DEF IInv
<1>7. OpenToPass'
  <2> SUFFICES ASSUME NEW v \in Workers, txn'[v].phase \in {"next", "audit"}
               PROVE  /\ {y \in Destinations : destinations'[y] = "enabled"} \subseteq open'[v]
                      /\ txn'[v].read.state = "enabled" => txn'[v].read.destination \in open'[v]
    BY DEF OpenToPass
  <2>1. CASE v = w
    <3>1. open'[v] = {y \in Destinations : destinations[y] = "enabled"}
      BY <2>1 DEF IInv, Typed
    <3> QED BY <1>1, <2>1, <3>1
  <2>2. CASE v # w
    BY <1>1, <2>2 DEF IInv, Typed, OpenToPass, Procs
  <2> QED BY <2>1, <2>2
<1> QED BY <1>5, <1>6, <1>7 DEF IInv

\* Steps that go on with a pass: what the pass has read is of a destination
\* that is open to it.
LEMMA PassKeeps ==
  ASSUME IInv, NEW w \in Workers, NEW t \in PassTxn, txn' = [txn EXCEPT ![w] = t],
         txn[w].phase \in {"next", "audit"},
         t.read.state = "enabled" => t.read.destination \in open[w],
         UNCHANGED <<destinations, deliveries, audited, open>>
  PROVE  IInv'
<1>1. w \in Procs /\ txn \in [Procs -> Transaction] /\ t.phase # "switch"
  BY DEF IInv, Typed, Procs, PassTxn
<1>2. Typed'
  BY DEF IInv, Typed, Transaction
<1>3. RowLocked' /\ AuditTellsSwitch'
  BY <1>1, NoSwitchTouched DEF IInv
<1>4. OpenToPass'
  BY <1>1, OtherPassesOpen DEF IInv, OpenToPass
<1> QED BY <1>2, <1>3, <1>4 DEF IInv

\* The heart of DisabledStaysSilent: an enabled destination that a pass finds,
\* in its session or in the table, is open to the pass.
LEMMA ReadIsOpen ==
  ASSUME IInv, NEW w \in Workers, txn[w].phase \in {"next", "audit"},
         NEW x \in Destinations, Read(w, x).state = "enabled"
  PROVE  Read(w, x).destination = x /\ x \in open[w]
BY DEF IInv, OpenToPass, Read

LEMMA ReadType ==
  ASSUME IInv, NEW w \in Workers, txn[w].phase \in {"next", "audit"}, NEW x \in Destinations
  PROVE  Read(w, x) \in [destination : Destinations \cup {None}, state : States]
<1>1. txn[w] \in PassTxn
  BY TransactionShape DEF IInv, Typed, Procs
<1> QED BY <1>1 DEF Read, IInv, Typed, PassTxn

\* A row of a batch after an attempt is a row.
LEMMA RetryType ==
  ASSUME NEW r \in Delivery
  PROVE  Retry(r) \in Delivery
<1> DEFINE n == r.attempts + 1
           s == IF n >= MaxAttempts THEN "failed" ELSE "retrying"
           no == FALSE
<1>1. n \in Nat /\ s \in Pending \cup {"delivered", "failed"}
  BY DEF Delivery, Pending
<1>2. no \in BOOLEAN
  OBVIOUS
<1>3. Retry(r) = [r EXCEPT !.attempts = n, !.due = no, !.status = s]
  BY Zenon DEF Retry
<1> HIDE DEF n, s, no
<1>4. [r EXCEPT !.attempts = n, !.due = no, !.status = s] \in Delivery
  BY <1>1, <1>2 DEF Delivery
<1> QED BY <1>3, <1>4

LEMMA RowType ==
  ASSUME NEW t \in PassTxn, NEW d \in Nat, NEW row, d \in DOMAIN t.rows => row \in Delivery
  PROVE  [t.rows EXCEPT ![d] = row] \in UNION {[S -> Delivery] : S \in SUBSET Nat}
<1>1. PICK S \in SUBSET Nat : t.rows \in [S -> Delivery]
  BY DEF PassTxn
<1>2. [t.rows EXCEPT ![d] = row] \in [S -> Delivery]
  BY <1>1
<1> QED BY <1>2

\* An abandoned delivery is failed, an accepted one delivered, a refused one
\* counted; the pass goes on with what it has read.
LEMMA SendKeeps ==
  ASSUME IInv, NEW w \in Workers, NEW d \in DOMAIN deliveries,
         Abandon(w, d) \/ SendAccepted(w, d) \/ SendRefused(w, d)
  PROVE  IInv'
<1> DEFINE x == deliveries[d].destination
           u == txn[w]
           c == Read(w, x)
<1>1. u.phase = "next" /\ u \in PassTxn
  BY TransactionShape DEF Abandon, SendAccepted, SendRefused, Sending, IInv, Typed, Procs
<1>2. x \in Destinations /\ d \in Nat
  <2>1. deliveries[d] \in Delivery /\ d \in Nat
    BY DEF IInv, Typed
  <2> QED BY <2>1 DEF Delivery
<1>3. c \in [destination : Destinations \cup {None}, state : States]
  BY <1>1, <1>2, ReadType
<1>4. c.state = "enabled" => c.destination \in open[w]
  BY <1>1, <1>2, ReadIsOpen
<1>5. ASSUME NEW row, d \in DOMAIN u.rows => row \in Delivery, NEW phase \in {"next", "audit"},
             txn' = [txn EXCEPT ![w] = [u EXCEPT !.rows = [u.rows EXCEPT ![d] = row],
                                          !.phase = phase, !.read = c, !.todo = u.todo \ {d}]],
             UNCHANGED <<destinations, deliveries, audited, open>>
      PROVE  IInv'
  <2> DEFINE t == [u EXCEPT !.rows = [u.rows EXCEPT ![d] = row],
                     !.phase = phase, !.read = c, !.todo = u.todo \ {d}]
             rows == [u.rows EXCEPT ![d] = row]
  <2>1. rows \in UNION {[S -> Delivery] : S \in SUBSET Nat}
    BY <1>1, <1>2, <1>5, RowType
  <2>2. t \in PassTxn /\ t.read = c
    <3> HIDE DEF rows, c
    <3>1. t = [u EXCEPT !.rows = rows, !.phase = phase, !.read = c, !.todo = u.todo \ {d}]
      BY DEF rows
    <3> QED BY <1>1, <1>3, <1>5, <2>1, <3>1 DEF PassTxn
  <2> HIDE DEF t, c
  <2>3. txn' = [txn EXCEPT ![w] = t]
    BY <1>5 DEF t, c
  <2> QED BY <1>1, <1>4, <1>5, <2>2, <2>3, PassKeeps
<1>6. d \in DOMAIN u.rows => u.rows[d] \in Delivery
  <2>1. PICK S \in SUBSET Nat : u.rows \in [S -> Delivery]
    BY <1>1 DEF PassTxn
  <2> QED BY <2>1
<1>7. CASE Abandon(w, d)
  <2>1. d \in DOMAIN u.rows => [u.rows[d] EXCEPT !.status = "failed"] \in Delivery
    BY <1>6 DEF Delivery
  <2> QED BY <1>5, <1>7, <2>1 DEF Abandon, Set
<1>8. CASE SendAccepted(w, d)
  <2> DEFINE n == u.rows[d].attempts + 1
             row == [u.rows[d] EXCEPT !.status = "delivered", !.attempts = n]
  <2>1. ASSUME d \in DOMAIN u.rows
        PROVE  row \in Delivery
    <3>1. n \in Nat
      BY <1>6, <2>1 DEF Delivery
    <3> HIDE DEF n
    <3> QED BY <1>6, <2>1, <3>1 DEF Delivery
  <2>2. txn' = [txn EXCEPT ![w] = [u EXCEPT !.rows = [u.rows EXCEPT ![d] = row],
                                     !.phase = "audit", !.read = c, !.todo = u.todo \ {d}]]
    BY <1>8, Zenon DEF SendAccepted, Set
  <2>3. UNCHANGED <<destinations, deliveries, audited, open>>
    BY <1>8 DEF SendAccepted
  <2> HIDE DEF row
  <2> QED BY <1>5, <2>1, <2>2, <2>3
<1>9. CASE SendRefused(w, d)
  <2>1. d \in DOMAIN u.rows => Retry(u.rows[d]) \in Delivery
    BY <1>6, RetryType
  <2> QED BY <1>5, <1>9, <2>1 DEF SendRefused, Set
<1> QED BY <1>7, <1>8, <1>9

LEMMA AuditKeeps ==
  ASSUME IInv, NEW w \in Workers, Audit(w)
  PROVE  IInv'
<1> DEFINE t == [txn[w] EXCEPT !.phase = "next"]
<1>1. txn[w].phase = "audit" /\ txn[w] \in PassTxn
  BY TransactionShape DEF Audit, IInv, Typed, Procs
<1>2. t \in PassTxn /\ t.read = txn[w].read
  BY <1>1 DEF PassTxn
<1>3. txn[w].read.state = "enabled" => txn[w].read.destination \in open[w]
  BY <1>1 DEF IInv, OpenToPass
<1> QED BY <1>1, <1>2, <1>3, PassKeeps DEF Audit, Set

\* A pass that has ended has no open destinations, and needs none.
LEMMA PassEndsKeep ==
  ASSUME IInv, NEW w \in Workers, Set(w, Idle), open' = [open EXCEPT ![w] = {}],
         UNCHANGED <<destinations, audited>>, deliveries' \in Seq(Delivery)
  PROVE  IInv'
<1>1. w \in Procs /\ txn \in [Procs -> Transaction] /\ txn' = [txn EXCEPT ![w] = Idle]
  BY DEF IInv, Typed, Procs, Set
<1>2. Typed'
  BY <1>1, IdleIsQuiet DEF IInv, Typed
<1>3. RowLocked' /\ AuditTellsSwitch'
  BY <1>1, NoSwitchTouched DEF IInv, Idle
<1>4. OpenToPass'
  <2> SUFFICES ASSUME NEW v \in Workers, txn'[v].phase \in {"next", "audit"}
               PROVE  /\ {y \in Destinations : destinations'[y] = "enabled"} \subseteq open'[v]
                      /\ txn'[v].read.state = "enabled" => txn'[v].read.destination \in open'[v]
    BY DEF OpenToPass
  <2>1. v # w /\ txn'[v] = txn[v] /\ open'[v] = open[v]
    BY <1>1 DEF Idle, Procs, IInv, Typed
  <2> QED BY <2>1 DEF IInv, OpenToPass
<1> QED BY <1>2, <1>3, <1>4 DEF IInv

LEMMA CommitKeeps ==
  ASSUME IInv, NEW w \in Workers, Commit(w)
  PROVE  IInv'
<1>1. txn[w] \in PassTxn
  BY TransactionShape DEF Commit, IInv, Typed, Procs
<1>2. PICK S \in SUBSET Nat : txn[w].rows \in [S -> Delivery]
  BY <1>1 DEF PassTxn
<1>3. \A d \in DOMAIN deliveries :
        (IF d \in Locked(w) THEN txn[w].rows[d] ELSE deliveries[d]) \in Delivery
  BY <1>2 DEF Locked, IInv, Typed
<1>4. deliveries' \in Seq(Delivery)
  BY <1>3 DEF Commit, IInv, Typed
<1> QED BY <1>4, PassEndsKeep DEF Commit

LEMMA AbortKeeps ==
  ASSUME IInv, NEW w \in Workers, Abort(w)
  PROVE  IInv'
BY PassEndsKeep DEF Abort, IInv, Typed

-----------------------------------------------------------------------------
LEMMA Inductive == IInv /\ [Next]_vars => IInv'
<1> SUFFICES ASSUME IInv, [Next]_vars PROVE IInv'
  OBVIOUS
<1>1. CASE UNCHANGED vars
  BY <1>1, StutterKeeps
<1>2. ASSUME NEW p \in Producers,
             \/ \E matched \in SUBSET Destinations, recorded \in BOOLEAN : Match(p, matched, recorded)
             \/ Event(p)
      PROVE  IInv'
  BY <1>2, EventKeeps, EnqueueKeeps DEF Event
<1>3. ASSUME NEW p \in Producers, NEW a \in Admins, BreakDeadlock(p, a)
      PROVE  IInv'
  BY <1>3, EndsKeep
<1>4. ASSUME NEW p \in Admins, NEW x \in Destinations,
             \/ CreateDestination(p, x)
             \/ \E target \in {"enabled", "disabled"} : LockDestination(p, x, target)
      PROVE  IInv'
  BY <1>4, CreateKeeps, LockDestinationKeeps
<1>5. ASSUME NEW p \in Admins, Switch(p) \/ Refuse(p)
      PROVE  IInv'
  BY <1>5, SwitchKeeps, EndsKeep
<1>6. ASSUME NEW d \in DOMAIN deliveries, BecomeDue(d)
      PROVE  IInv'
  BY <1>6, BecomeDueKeeps
<1>7. ASSUME NEW w \in Workers, Pass(w) \/ Abort(w)
      PROVE  IInv'
  BY <1>7, SelectKeeps, AuditKeeps, CommitKeeps, SendKeeps, AbortKeeps DEF Pass
<1> QED BY <1>1, <1>2, <1>3, <1>4, <1>5, <1>6, <1>7 DEF Next

LEMMA Invariant == Spec => []IInv
BY Initially, Inductive, PTL DEF Spec

\* What the audit log says last of a destination is true of it, whichever
\* switches overlap with each other, with events and with passes.
THEOREM AuditIsTrue == Spec => []AuditTellsSwitch
<1>1. IInv => AuditTellsSwitch
  BY DEF IInv
<1> QED BY <1>1, Invariant, PTL

-----------------------------------------------------------------------------
\* An attempt is only made in a step of the pass itself, which goes on with its
\* rows otherwise unchanged.
LEMMA AttemptIsOpen ==
  ASSUME IInv, [Next]_vars, NEW w \in Workers, NEW d \in Locked(w),
         txn'[w].phase # "idle", txn'[w].rows[d].attempts # txn[w].rows[d].attempts
  PROVE  deliveries[d].destination \in open[w]
<1>1. /\ txn[w].phase \in {"next", "audit"} /\ txn[w] \in PassTxn /\ w \in Procs
      /\ d \in DOMAIN txn[w].rows
  BY TransactionShape DEF Locked, IInv, Typed, Procs
<1>2. PICK S \in SUBSET Nat : txn[w].rows \in [S -> Delivery]
  BY <1>1 DEF PassTxn
<1>3. txn[w].rows[d] \in Delivery
  BY <1>1, <1>2
<1>4. txn'[w] # txn[w]
  OBVIOUS
<1>5. ASSUME NEW e \in DOMAIN deliveries,
             Abandon(w, e) \/ SendAccepted(w, e) \/ SendRefused(w, e)
      PROVE  deliveries[d].destination \in open[w]
  <2>1. deliveries[e].destination \in Destinations
    <3>1. deliveries[e] \in Delivery
      BY DEF IInv, Typed
    <3> QED BY <3>1 DEF Delivery
  <2>2. ~Abandon(w, e)
    <3> SUFFICES ASSUME Abandon(w, e) PROVE FALSE
      OBVIOUS
    <3>1. txn'[w].rows = [txn[w].rows EXCEPT ![e] = [@ EXCEPT !.status = "failed"]]
      BY <1>1 DEF Abandon, Set, IInv, Typed, PassTxn
    <3>2. txn'[w].rows[d].attempts = txn[w].rows[d].attempts
      BY <1>2, <1>3, <3>1 DEF Delivery
    <3> QED BY <3>2
  <2>3. PICK row : txn'[w].rows = [txn[w].rows EXCEPT ![e] = row]
    <3>1. ASSUME NEW row, NEW phase, NEW c, NEW todo,
                 txn' = [txn EXCEPT ![w] = [txn[w] EXCEPT
                           !.rows = [txn[w].rows EXCEPT ![e] = row],
                           !.phase = phase, !.read = c, !.todo = todo]]
          PROVE  \E r : txn'[w].rows = [txn[w].rows EXCEPT ![e] = r]
      BY <1>1, <3>1 DEF IInv, Typed, PassTxn
    <3>2. CASE SendAccepted(w, e)
      BY <3>1, <3>2 DEF SendAccepted, Set
    <3>3. CASE SendRefused(w, e)
      <4> DEFINE row == Retry(txn[w].rows[e])
                 phase == IF row.status = "failed" THEN "audit" ELSE "next"
                 c == Read(w, deliveries[e].destination)
                 todo == txn[w].todo \ {e}
      <4>1. txn' = [txn EXCEPT ![w] = [txn[w] EXCEPT
                      !.rows = [txn[w].rows EXCEPT ![e] = row],
                      !.phase = phase, !.read = c, !.todo = todo]]
        BY <3>3 DEF SendRefused, Set
      <4> HIDE DEF row, phase, c, todo
      <4> QED BY <3>1, <4>1
    <3> QED BY <1>5, <2>2, <3>2, <3>3
  <2>4. d = e
    BY <1>1, <1>2, <2>3
  <2> QED BY <1>1, <1>5, <2>1, <2>2, <2>4, ReadIsOpen DEF SendAccepted, SendRefused
<1> DEFINE Attempt == \E e \in DOMAIN deliveries :
                        Abandon(w, e) \/ SendAccepted(w, e) \/ SendRefused(w, e)
           Quiet == \/ txn'[w] = txn[w] \/ txn'[w].phase = "idle"
                    \/ txn'[w].rows = txn[w].rows
<1>6. Attempt \/ Quiet
  <2> USE <1>1 DEF IInv, Typed, Set
  <2>1. ASSUME NEW v \in Workers, Pass(v) \/ Abort(v)
        PROVE  Attempt \/ Quiet
    <3>1. CASE v = w
      BY <2>1, <3>1 DEF Pass, Select, Audit, Commit, Abort, Idle, PassTxn
    <3>2. CASE v # w
      BY <2>1, <3>2 DEF Pass, Abandon, SendAccepted, SendRefused, Select, Audit, Commit, Abort
    <3> QED BY <3>1, <3>2
  <2>2. ASSUME NEW p \in Producers,
               \/ \E matched \in SUBSET Destinations, recorded \in BOOLEAN : Match(p, matched, recorded)
               \/ Event(p) \/ \E a \in Admins : BreakDeadlock(p, a)
        PROVE  Attempt \/ Quiet
    BY <2>2 DEF Match, Event, LockAudit, Insert, Enqueue, BreakDeadlock, Idle
  <2>3. ASSUME NEW p \in Admins,
               \/ \E x \in Destinations : \/ CreateDestination(p, x)
                                          \/ \E target \in {"enabled", "disabled"} : LockDestination(p, x, target)
               \/ Switch(p) \/ Refuse(p)
        PROVE  Attempt \/ Quiet
    BY <2>3 DEF CreateDestination, LockDestination, Switch, Refuse, Idle
  <2>4. ASSUME NEW e \in DOMAIN deliveries, BecomeDue(e)
        PROVE  Attempt \/ Quiet
    BY <2>4 DEF BecomeDue
  <2>5. CASE UNCHANGED vars
    BY <2>5 DEF vars
  <2> QED BY <2>1, <2>2, <2>3, <2>4, <2>5 DEF Next
<1> QED BY <1>4, <1>5, <1>6

\* A pass makes no attempt for a destination that was disabled all through it.
THEOREM DisabledIsSilent == Spec => DisabledStaysSilent
<1> DEFINE Step == \A w \in Workers : \A d \in Locked(w) :
              txn'[w].phase # "idle" /\ txn'[w].rows[d].attempts # txn[w].rows[d].attempts =>
                deliveries[d].destination \in open[w]
<1>1. IInv /\ [Next]_vars => [Step]_vars
  BY AttemptIsOpen
<1>2. [][Step]_vars => DisabledStaysSilent
  BY PTL DEF DisabledStaysSilent
<1> HIDE DEF Step
<1> QED BY <1>1, <1>2, Invariant, PTL DEF Spec

-----------------------------------------------------------------------------
(* Refinement *)

\* What a pass has made of a delivery.
Outcome(row, was) ==
  \/ row.status = "delivered" /\ row.attempts = was.attempts + 1
  \/ row.status = "retrying" /\ row.attempts = was.attempts + 1 /\ row.attempts < MaxAttempts
  \/ row.status = "failed" /\ row.attempts = was.attempts + 1 /\ row.attempts = MaxAttempts
  \/ row.status = "failed" /\ row.attempts = was.attempts

\* A delivery that is not at its end has attempts left.
AttemptsLeft ==
  \A d \in DOMAIN deliveries :
    deliveries[d].status \in Pending => deliveries[d].attempts < MaxAttempts

\* A pass has its deliveries to itself, and has either settled each of them
\* once or still to do it.
BatchIsOwn ==
  /\ \A v, w \in Workers : v # w => Locked(v) \cap Locked(w) = {}
  /\ \A w \in Workers : \A d \in Locked(w) :
       LET row == txn[w].rows[d] IN
       /\ d \in DOMAIN deliveries /\ deliveries[d].status \in Pending
       /\ \/ row.status = deliveries[d].status /\ row.attempts = deliveries[d].attempts
          \/ d \notin txn[w].todo /\ Outcome(row, deliveries[d])

RInv == IInv /\ AttemptsLeft /\ BatchIsOwn

\* The deliveries are the ones there were, with new ones behind them.
Grown ==
  /\ DOMAIN deliveries \subseteq DOMAIN deliveries'
  /\ \A d \in DOMAIN deliveries : /\ deliveries'[d].status = deliveries[d].status
                                  /\ deliveries'[d].attempts = deliveries[d].attempts
  /\ \A d \in DOMAIN deliveries' \ DOMAIN deliveries :
       deliveries'[d].status = "queued" /\ deliveries'[d].attempts = 0

\* The passes are where they were with their deliveries, or over.
Steady ==
  \A w \in Workers :
    \/ txn'[w] = txn[w]
    \/ txn'[w].phase \notin {"next", "audit"}
    \/ /\ txn[w].phase \in {"next", "audit"}
       /\ txn'[w].rows = txn[w].rows /\ txn'[w].todo = txn[w].todo

LEMMA SteadyKeeps ==
  ASSUME RInv, Grown, Steady
  PROVE  AttemptsLeft' /\ BatchIsOwn'
<1>1. AttemptsLeft'
  BY SiemAssumption DEF RInv, Grown, AttemptsLeft
<1>2. \A w \in Workers : \A d \in Locked(w)' :
        d \in Locked(w) /\ txn'[w].rows = txn[w].rows /\ txn'[w].todo = txn[w].todo
  BY DEF Steady, Locked
<1>3. BatchIsOwn'
  <2>1. \A v, w \in Workers : v # w => Locked(v)' \cap Locked(w)' = {}
    BY <1>2 DEF RInv, BatchIsOwn
  <2>2. ASSUME NEW w \in Workers, NEW d \in Locked(w)'
        PROVE  LET row == txn'[w].rows[d] IN
               /\ d \in DOMAIN deliveries' /\ deliveries'[d].status \in Pending
               /\ \/ row.status = deliveries'[d].status /\ row.attempts = deliveries'[d].attempts
                  \/ d \notin txn'[w].todo /\ Outcome(row, deliveries'[d])
    BY <1>2 DEF RInv, BatchIsOwn, Grown, Outcome
  <2> QED BY <2>1, <2>2 DEF BatchIsOwn
<1> QED BY <1>1, <1>3

LEMMA EnqueueGrows ==
  ASSUME IInv, NEW p \in Producers, Enqueue(p)
  PROVE  Grown
<1> DEFINE xs == SetToSeq(txn[p].matched)
           new == [i \in DOMAIN xs |-> Queued(xs[i])]
<1>1. txn[p].matched \in SUBSET Destinations
  BY TransactionShape DEF Enqueue, EventTxn, IInv, Typed, Procs
<1>2. xs \in Seq(txn[p].matched)
  BY <1>1, SetToSeqRange, FS_Subset, SiemAssumption
<1>3. deliveries' = deliveries \o new /\ deliveries \in Seq(Delivery)
  BY DEF Enqueue, IInv, Typed
<1>4. /\ DOMAIN new = 1..Len(xs) /\ Len(xs) \in Nat
      /\ \A i \in 1..Len(xs) : new[i].status = "queued" /\ new[i].attempts = 0
  <2> HIDE DEF xs
  <2> QED BY <1>2 DEF Queued
<1>5. new \in Seq(Delivery \cup {new[i] : i \in DOMAIN new}) /\ Len(new) = Len(xs)
  <2>1. new = [i \in 1..Len(xs) |-> new[i]]
    BY <1>2
  <2> HIDE DEF xs, new
  <2> QED BY <1>4, <2>1
<1> HIDE DEF xs, new
<1> QED BY <1>3, <1>4, <1>5 DEF Grown

LEMMA OthersSteady ==
  ASSUME IInv,
         \/ \E p \in Producers :
              \/ \E matched \in SUBSET Destinations, recorded \in BOOLEAN : Match(p, matched, recorded)
              \/ Event(p) \/ \E a \in Admins : BreakDeadlock(p, a)
         \/ \E p \in Admins :
              \/ \E x \in Destinations :
                   \/ CreateDestination(p, x)
                   \/ \E target \in {"enabled", "disabled"} : LockDestination(p, x, target)
              \/ Switch(p) \/ Refuse(p)
         \/ \E d \in DOMAIN deliveries : BecomeDue(d)
         \/ \E w \in Workers : Audit(w) \/ Abort(w)
         \/ UNCHANGED vars
  PROVE  Grown /\ Steady
<1>1. ASSUME UNCHANGED deliveries PROVE Grown
  BY <1>1 DEF Grown
<1>2. Grown
  <2>1. ASSUME NEW d \in DOMAIN deliveries, BecomeDue(d) PROVE Grown
    <3>1. \A e \in DOMAIN deliveries : deliveries[e] \in Delivery
      BY DEF IInv, Typed
    <3>2. [deliveries[d] EXCEPT !.due = TRUE].status = deliveries[d].status
          /\ [deliveries[d] EXCEPT !.due = TRUE].attempts = deliveries[d].attempts
      BY <3>1 DEF Delivery
    <3> QED BY <2>1, <3>2 DEF BecomeDue, Grown
  <2>2. ASSUME NEW p \in Producers, Event(p) PROVE Grown
    BY <1>1, <2>2, EnqueueGrows DEF Event, LockAudit, Insert
  <2> QED BY <1>1, <2>1, <2>2 DEF Match, BreakDeadlock, CreateDestination, LockDestination,
             Switch, Refuse, Audit, Abort, vars
<1>3. txn \in [Procs -> Transaction] /\ Workers \subseteq Procs
  BY DEF IInv, Typed, Procs
<1>4. Idle.phase \notin {"next", "audit"}
  BY DEF Idle
<1>5. \A p, t : /\ txn' = [txn EXCEPT ![p] = t]
                /\ t.phase \notin {"next", "audit"}
                => Steady
  BY <1>3 DEF Steady
<1>6. \A p : Set(p, Idle) => Steady
  BY <1>4, <1>5 DEF Set
<1>7. ASSUME NEW p \in Producers,
             \/ \E matched \in SUBSET Destinations, recorded \in BOOLEAN : Match(p, matched, recorded)
             \/ LockAudit(p) \/ \E x \in Destinations : Insert(p, x)
      PROVE  Steady
  <2>1. txn[p].phase \in {"lock", "insert"} => txn[p] \in EventTxn
    BY <1>3, TransactionShape DEF Procs
  <2>2. CASE \E matched \in SUBSET Destinations, recorded \in BOOLEAN : Match(p, matched, recorded)
    BY <1>5, <2>2 DEF Match, Set
  <2>3. CASE LockAudit(p)
    <3>1. [txn[p] EXCEPT !.phase = "insert"].phase = "insert"
      BY <2>1, <2>3 DEF LockAudit, EventTxn
    <3> QED BY <1>5, <2>3, <3>1 DEF LockAudit, Set
  <2>4. ASSUME NEW x \in Destinations, Insert(p, x) PROVE Steady
    <3>1. [txn[p] EXCEPT !.inserted = @ \cup {x}].phase = "insert"
      BY <2>1, <2>4 DEF Insert, EventTxn
    <3> QED BY <1>5, <2>4, <3>1 DEF Insert, Set
  <2> QED BY <1>7, <2>2, <2>3, <2>4
<1>8. ASSUME NEW w \in Workers, Audit(w) PROVE Steady
  <2>1. txn[w].phase = "audit" /\ txn[w] \in PassTxn
    BY <1>3, <1>8, TransactionShape DEF Audit
  <2> QED BY <1>3, <1>8, <2>1 DEF Audit, Set, Steady, PassTxn
<1>9. ASSUME UNCHANGED txn PROVE Steady
  BY <1>9 DEF Steady
<1>10. ASSUME NEW p \in Admins, NEW x \in Destinations, NEW target \in {"enabled", "disabled"},
              LockDestination(p, x, target)
       PROVE  Steady
  BY <1>5, <1>10 DEF LockDestination, Set
<1>11. Steady
  BY <1>6, <1>7, <1>8, <1>9, <1>10 DEF Event, Enqueue, BreakDeadlock, CreateDestination, Switch,
     Refuse, BecomeDue, Abort, vars
<1> QED BY <1>2, <1>11

\* Nobody else has what a pass selects.
LEMMA SelectOwns ==
  ASSUME RInv, NEW w \in Workers, Select(w)
  PROVE  AttemptsLeft' /\ BatchIsOwn'
<1> DEFINE rows == [d \in Batch(w) |-> deliveries[d]]
<1>1. /\ txn \in [Procs -> Transaction] /\ Workers \subseteq Procs /\ UNCHANGED deliveries
      /\ txn[w] = Idle
  BY DEF RInv, IInv, Typed, Procs, Select
<1>2. txn'[w].phase = "next" /\ txn'[w].rows = rows
  BY <1>1 DEF Select, Set
<1>3. \A v \in Workers \ {w} : txn'[v] = txn[v]
  BY <1>1 DEF Select, Set
<1>4. /\ Batch(w) \subseteq DOMAIN deliveries
      /\ \A d \in Batch(w) : /\ deliveries[d].status \in Pending
                             /\ \A v \in Workers \ {w} : d \notin Locked(v)
  BY DEF Batch, Selectable
<1>5. Locked(w)' = Batch(w) /\ \A v \in Workers \ {w} : Locked(v)' = Locked(v)
  BY <1>2, <1>3 DEF Locked
<1>6. \A d \in Batch(w) : txn'[w].rows[d] = deliveries[d]
  BY <1>2
<1>7. BatchIsOwn'
  BY <1>1, <1>3, <1>4, <1>5, <1>6 DEF RInv, BatchIsOwn, Outcome
<1> QED BY <1>1, <1>7 DEF RInv, AttemptsLeft

\* A delivery is settled once: what is still to do is as it was selected.
LEMMA SendSettles ==
  ASSUME RInv, NEW w \in Workers, NEW d \in DOMAIN deliveries,
         Abandon(w, d) \/ SendAccepted(w, d) \/ SendRefused(w, d)
  PROVE  AttemptsLeft' /\ BatchIsOwn'
<1> DEFINE u == txn[w]
           was == deliveries[d]
           r == u.rows[d]
           c == Read(w, deliveries[d].destination)
<1>1. /\ txn \in [Procs -> Transaction] /\ Workers \subseteq Procs /\ UNCHANGED deliveries
      /\ u.phase = "next" /\ d \in u.todo
  BY DEF RInv, IInv, Typed, Procs, Abandon, SendAccepted, SendRefused, Sending
<1>0. AttemptsLeft'
  BY <1>1 DEF RInv, AttemptsLeft
<1>2. u \in PassTxn
  BY <1>1, TransactionShape
<1>3. PICK S \in SUBSET Nat : u.rows \in [S -> Delivery]
  BY <1>2 DEF PassTxn
<1>4. d \in Locked(w) =>
        /\ r \in Delivery /\ r.attempts = was.attempts /\ was.attempts \in Nat
        /\ was.attempts < MaxAttempts /\ was.status \in Pending
  <2>1. d \in Locked(w) => r \in Delivery
    BY <1>1, <1>3 DEF Locked
  <2>2. was \in Delivery
    BY DEF RInv, IInv, Typed
  <2>3. was.attempts \in Nat
    BY <2>2 DEF Delivery
  <2> QED BY <1>1, <2>1, <2>3 DEF RInv, BatchIsOwn, AttemptsLeft
<1>5. ASSUME NEW row, d \in Locked(w) => Outcome(row, was), NEW phase \in {"next", "audit"},
             txn' = [txn EXCEPT ![w] = [u EXCEPT !.rows = [u.rows EXCEPT ![d] = row],
                                          !.phase = phase, !.read = c, !.todo = u.todo \ {d}]]
      PROVE  BatchIsOwn'
  <2> HIDE DEF c
  <2>1. /\ txn'[w].phase = phase /\ txn'[w].rows = [u.rows EXCEPT ![d] = row]
        /\ txn'[w].todo = u.todo \ {d}
    BY <1>1, <1>2, <1>5 DEF PassTxn
  <2>2. \A v \in Workers \ {w} : txn'[v] = txn[v]
    BY <1>1, <1>5
  <2>3. \A v \in Workers : Locked(v)' = Locked(v)
    BY <1>1, <1>5, <2>1, <2>2 DEF Locked
  <2>4. \A e \in Locked(w) \ {d} : txn'[w].rows[e] = u.rows[e]
    BY <1>3, <2>1
  <2>5. d \in Locked(w) => txn'[w].rows[d] = row
    BY <1>1, <1>3, <2>1 DEF Locked
  <2>6. ASSUME NEW v \in Workers, NEW e \in Locked(v)'
        PROVE  LET q == txn'[v].rows[e] IN
               /\ e \in DOMAIN deliveries' /\ deliveries'[e].status \in Pending
               /\ \/ q.status = deliveries'[e].status /\ q.attempts = deliveries'[e].attempts
                  \/ e \notin txn'[v].todo /\ Outcome(q, deliveries'[e])
    <3>1. CASE v # w
      BY <1>1, <2>2, <2>3, <2>6, <3>1 DEF RInv, BatchIsOwn, Outcome
    <3>2. CASE v = w /\ e # d
      <4>1. e \in Locked(w) /\ txn'[w].rows[e] = u.rows[e] /\ txn'[w].todo = u.todo \ {d}
        BY <2>1, <2>3, <2>4, <2>6, <3>2
      <4>2. /\ e \in DOMAIN deliveries /\ deliveries[e].status \in Pending
            /\ \/ u.rows[e].status = deliveries[e].status /\ u.rows[e].attempts = deliveries[e].attempts
               \/ e \notin u.todo /\ Outcome(u.rows[e], deliveries[e])
        BY <4>1 DEF RInv, BatchIsOwn
      <4> QED BY <1>1, <3>2, <4>1, <4>2
    <3>3. CASE v = w /\ e = d
      BY <1>1, <1>4, <1>5, <2>1, <2>3, <2>5, <2>6, <3>3 DEF Outcome
    <3> QED BY <3>1, <3>2, <3>3
  <2> QED BY <2>3, <2>6 DEF RInv, BatchIsOwn
<1>6. CASE Abandon(w, d)
  <2> DEFINE row == [r EXCEPT !.status = "failed"]
  <2>1. d \in Locked(w) => Outcome(row, was)
    BY <1>4 DEF Outcome, Delivery
  <2>2. txn' = [txn EXCEPT ![w] = [u EXCEPT !.rows = [u.rows EXCEPT ![d] = row],
                                     !.phase = "audit", !.read = c, !.todo = u.todo \ {d}]]
    BY <1>6 DEF Abandon, Set
  <2> HIDE DEF row, c
  <2> QED BY <1>0, <1>5, <2>1, <2>2
<1>7. CASE SendAccepted(w, d)
  <2> DEFINE row == [r EXCEPT !.status = "delivered", !.attempts = r.attempts + 1]
  <2>1. d \in Locked(w) => Outcome(row, was)
    BY <1>4 DEF Outcome, Delivery
  <2>2. txn' = [txn EXCEPT ![w] = [u EXCEPT !.rows = [u.rows EXCEPT ![d] = row],
                                     !.phase = "audit", !.read = c, !.todo = u.todo \ {d}]]
    BY <1>7 DEF SendAccepted, Set
  <2> HIDE DEF row, c
  <2> QED BY <1>0, <1>5, <2>1, <2>2
<1>8. CASE SendRefused(w, d)
  <2> DEFINE row == Retry(r)
             phase == IF row.status = "failed" THEN "audit" ELSE "next"
  <2>1. d \in Locked(w) => Outcome(row, was)
    <3> SUFFICES ASSUME d \in Locked(w) PROVE Outcome(row, was)
      OBVIOUS
    <3>1. row.attempts = r.attempts + 1
      BY <1>4, Zenon DEF Retry, Delivery
    <3>2. row.status = IF r.attempts + 1 >= MaxAttempts THEN "failed" ELSE "retrying"
      BY <1>4, Zenon DEF Retry, Delivery
    <3> HIDE DEF row
    <3> QED BY <1>4, <3>1, <3>2, SiemAssumption DEF Outcome
  <2>2. txn' = [txn EXCEPT ![w] = [u EXCEPT !.rows = [u.rows EXCEPT ![d] = row],
                                     !.phase = phase, !.read = c, !.todo = u.todo \ {d}]]
    BY <1>8 DEF SendRefused, Set
  <2>3. phase \in {"next", "audit"}
    OBVIOUS
  <2> HIDE DEF row, phase, c
  <2> QED BY <1>0, <1>5, <2>1, <2>2, <2>3
<1> QED BY <1>6, <1>7, <1>8

\* What a commit does with the deliveries.
Settled ==
  /\ DOMAIN deliveries' = DOMAIN deliveries
  /\ \A d \in DOMAIN deliveries :
       \/ /\ deliveries'[d].status = deliveries[d].status
          /\ deliveries'[d].attempts = deliveries[d].attempts
       \/ deliveries[d].status \in Pending /\ Outcome(deliveries'[d], deliveries[d])

LEMMA CommitSettles ==
  ASSUME RInv, NEW w \in Workers, Commit(w)
  PROVE  AttemptsLeft' /\ BatchIsOwn' /\ Settled
<1>1. /\ txn \in [Procs -> Transaction] /\ Workers \subseteq Procs
      /\ deliveries \in Seq(Delivery)
  BY DEF RInv, IInv, Typed, Procs
<1>2. txn'[w] = Idle /\ \A v \in Workers \ {w} : txn'[v] = txn[v]
  BY <1>1 DEF Commit, Set
<1>3. Locked(w)' = {} /\ \A v \in Workers \ {w} : Locked(v)' = Locked(v)
  BY <1>2 DEF Locked, Idle
<1>4. /\ DOMAIN deliveries' = DOMAIN deliveries
      /\ \A d \in DOMAIN deliveries :
           deliveries'[d] = IF d \in Locked(w) THEN txn[w].rows[d] ELSE deliveries[d]
  BY DEF Commit
<1>5. Settled
  BY <1>4 DEF RInv, BatchIsOwn, Settled, Commit
<1>6. AttemptsLeft'
  <2>1. \A d \in DOMAIN deliveries : deliveries[d].attempts \in Nat
    <3>1. \A d \in DOMAIN deliveries : deliveries[d] \in Delivery
      BY <1>1
    <3> QED BY <3>1 DEF Delivery
  <2> QED BY <1>4, <1>5, <2>1 DEF RInv, AttemptsLeft, Settled, Outcome, Pending
<1>7. BatchIsOwn'
  <2>1. \A v, u \in Workers : v # u => Locked(v)' \cap Locked(u)' = {}
    BY <1>3 DEF RInv, BatchIsOwn
  <2>2. ASSUME NEW v \in Workers, NEW d \in Locked(v)'
        PROVE  /\ v # w /\ txn'[v] = txn[v] /\ d \in Locked(v) /\ d \in DOMAIN deliveries
               /\ deliveries'[d] = deliveries[d]
    BY <1>2, <1>3, <1>4, <2>2 DEF RInv, BatchIsOwn
  <2> QED BY <1>4, <2>1, <2>2 DEF RInv, BatchIsOwn, Outcome
<1> QED BY <1>5, <1>6, <1>7

\* What a pass has settled is written only when it commits.
LEMMA SendWritesNothing ==
  ASSUME NEW w \in Workers, NEW d \in DOMAIN deliveries,
         Abandon(w, d) \/ SendAccepted(w, d) \/ SendRefused(w, d)
  PROVE  Grown
BY DEF Abandon, SendAccepted, SendRefused, Grown

LEMMA StepSettles == RInv /\ [Next]_vars => RInv' /\ (Grown \/ Settled)
<1> SUFFICES ASSUME RInv, [Next]_vars PROVE RInv' /\ (Grown \/ Settled)
  OBVIOUS
<1>1. IInv'
  BY Inductive DEF RInv
<1>2. ASSUME Grown, Steady PROVE AttemptsLeft' /\ BatchIsOwn' /\ Grown
  BY <1>2, SteadyKeeps
<1>3. ASSUME NEW w \in Workers, Pass(w)
      PROVE  AttemptsLeft' /\ BatchIsOwn' /\ (Grown \/ Settled)
  <2>1. CASE Audit(w)
    BY <1>2, <2>1, OthersSteady DEF RInv
  <2>2. CASE Commit(w)
    BY <2>2, CommitSettles
  <2>3. CASE Select(w)
    BY <2>3, SelectOwns DEF Select, Grown
  <2>4. ASSUME NEW d \in DOMAIN deliveries,
               Abandon(w, d) \/ SendAccepted(w, d) \/ SendRefused(w, d)
        PROVE  AttemptsLeft' /\ BatchIsOwn' /\ Grown
    BY <2>4, SendSettles, SendWritesNothing
  <2> QED BY <1>3, <2>1, <2>2, <2>3, <2>4 DEF Pass
<1>4. CASE \E w \in Workers : Pass(w)
  BY <1>1, <1>3, <1>4 DEF RInv
<1>5. CASE ~ \E w \in Workers : Pass(w)
  <2>1. Grown /\ Steady
    BY <1>5, OthersSteady DEF RInv, Next
  <2> QED BY <1>1, <1>2, <2>1 DEF RInv
<1> QED BY <1>4, <1>5

LEMMA InitiallySettled == Init => RInv
<1> SUFFICES ASSUME Init PROVE RInv
  OBVIOUS
<1>1. \A w \in Workers : Locked(w) = {}
  BY DEF Init, Locked, Procs, Idle
<1> QED BY <1>1, Initially DEF RInv, AttemptsLeft, BatchIsOwn, Init

\* Every delivery takes the step of a life.
LEMMA LifeStep == RInv /\ (Grown \/ Settled) => [Lifecycle!Next]_(Lifecycle!vars)
<1> SUFFICES ASSUME RInv, Grown \/ Settled, NEW d \in Ids
             PROVE  \/ /\ State(d) = "unborn" /\ State(d)' = "queued" /\ Attempts(d)' = 0
                    \/ /\ State(d) \in Pending /\ Attempts(d)' = Attempts(d) + 1
                       /\ \/ State(d)' = "delivered" /\ Attempts(d)' <= MaxAttempts
                          \/ State(d)' = "retrying" /\ Attempts(d)' < MaxAttempts
                          \/ State(d)' = "failed" /\ Attempts(d)' = MaxAttempts
                    \/ State(d) \in Pending /\ State(d)' = "failed" /\ Attempts(d)' = Attempts(d)
                    \/ State(d)' = State(d) /\ Attempts(d)' = Attempts(d)
  BY Zenon DEF Lifecycle!Next, Lifecycle!Enqueued, Lifecycle!Delivered, Lifecycle!Postponed,
     Lifecycle!Failed, Lifecycle!Abandoned, Lifecycle!Kept, Lifecycle!Pending, Pending
<1>1. CASE d \notin DOMAIN deliveries
  BY <1>1 DEF Grown, Settled, State, Attempts
<1>2. CASE d \in DOMAIN deliveries
  <2>1. deliveries[d].attempts \in Nat
    <3>1. deliveries[d] \in Delivery
      BY <1>2 DEF RInv, IInv, Typed
    <3> QED BY <3>1 DEF Delivery
  <2>2. deliveries[d].status \in Pending => deliveries[d].attempts < MaxAttempts
    BY <1>2 DEF RInv, AttemptsLeft
  <2>3. CASE Grown
    BY <1>2, <2>3 DEF Grown, State, Attempts
  <2>4. CASE Settled
    BY <1>2, <2>1, <2>2, <2>4, SiemAssumption DEF Settled, Outcome, State, Attempts
  <2> QED BY <2>3, <2>4
<1> QED BY <1>1, <1>2

\* The outbox keeps the promise of a delivery's life: an end is final, and
\* comes at the last attempt that is allowed, or without one.
THEOREM DeliveriesLive == Spec => ImplementsLifecycle
<1>1. Init => Lifecycle!Init
  <2> SUFFICES ASSUME Init PROVE Lifecycle!Init
    OBVIOUS
  <2>1. \A d : d \notin DOMAIN deliveries
    BY DEF Init
  <2>2. \A d : State(d) = "unborn" /\ Attempts(d) = 0
    BY <2>1 DEF State, Attempts
  <2> QED BY <2>2 DEF Lifecycle!Init
<1>2. RInv /\ [Next]_vars => RInv' /\ [Lifecycle!Next]_(Lifecycle!vars)
  BY StepSettles, LifeStep
<1> QED BY <1>1, <1>2, InitiallySettled, PTL DEF Spec, ImplementsLifecycle, Lifecycle!Spec

-----------------------------------------------------------------------------
(* Types.  The bound on the deliveries needs the ones that transactions still *)
(* have to insert: a match is made only if there is room for them all.        *)

Budget ==
  /\ \A p \in Producers : txn[p] \in {Idle} \cup EventTxn
  /\ IsFiniteSet(Unborn) /\ Len(deliveries) + Cardinality(Unborn) <= MaxDeliveries

LockTyped ==
  auditLock \in Workers \cup Producers \cup {None} /\ failures \in 0..MaxFailures

LEMMA UnbornShape ==
  \A x : x \in Unborn <=> \E p \in Producers : txn[p] # Idle /\ x \in {p} \X txn[p].matched
BY DEF Unborn

\* A producer's pairs are as many as its matches.
LEMMA PairsOf ==
  ASSUME NEW p, NEW m \in SUBSET Destinations
  PROVE  /\ IsFiniteSet(m) /\ IsFiniteSet({p} \X m)
         /\ Cardinality({p} \X m) = Cardinality(m) /\ Cardinality(m) \in Nat
<1>1. IsFiniteSet(m) /\ Cardinality(m) \in Nat
  BY FS_Subset, FS_CardinalityType, SiemAssumption
<1>2. IsFiniteSet({p}) /\ Cardinality({p}) = 1
  BY FS_Singleton
<1>3. IsFiniteSet({p} \X m) /\ Cardinality({p} \X m) = Cardinality({p}) * Cardinality(m)
  BY <1>1, <1>2, FS_Product
<1> QED BY <1>1, <1>2, <1>3

\* Steps that add no delivery and leave a producer what it has to insert, or
\* end its transaction.
LEMMA NothingAdded ==
  ASSUME Typed, Budget, Len(deliveries') = Len(deliveries),
         \A p \in Producers :
           \/ txn'[p] = txn[p] \/ txn'[p] = Idle
           \/ txn[p] # Idle /\ txn'[p] \in EventTxn /\ txn'[p].matched = txn[p].matched
  PROVE  Budget'
<1>1. Unborn' \subseteq Unborn
  BY UnbornShape DEF Unborn
<1>2. IsFiniteSet(Unborn') /\ Cardinality(Unborn') <= Cardinality(Unborn)
  BY <1>1, FS_Subset, FS_CardinalityType DEF Budget
<1>3. Cardinality(Unborn') \in Nat /\ Cardinality(Unborn) \in Nat /\ Len(deliveries) \in Nat
  BY <1>2, FS_CardinalityType DEF Budget, Typed
<1>4. \A p \in Producers : txn'[p] \in {Idle} \cup EventTxn
  BY DEF Budget
<1>5. Len(deliveries') + Cardinality(Unborn') <= MaxDeliveries
  <2> DEFINE a == Cardinality(Unborn')
             b == Cardinality(Unborn)
             n == Len(deliveries)
  <2>1. a <= b /\ n + b <= MaxDeliveries /\ a \in Nat /\ b \in Nat /\ n \in Nat /\ MaxDeliveries \in Nat
    BY <1>2, <1>3, SiemAssumption DEF Budget
  <2> HIDE DEF a, b, n
  <2>2. n + a <= MaxDeliveries
    BY <2>1
  <2> QED BY <2>2 DEF a, n
<1> QED BY <1>2, <1>4, <1>5 DEF Budget

LEMMA MatchBudget ==
  ASSUME Typed, Budget, NEW p \in Producers, NEW m \in SUBSET Destinations,
         NEW recorded \in BOOLEAN, Match(p, m, recorded)
  PROVE  Budget'
<1> DEFINE new == {p} \X m
           a == Cardinality(Unborn)
           n == Cardinality(m)
           len == Len(deliveries)
<1>1. /\ txn'[p] \in EventTxn /\ txn'[p].matched = m
      /\ \A q \in Producers \ {p} : txn'[q] = txn[q]
  BY DEF Match, Set, Typed, Procs, EventTxn
<1>2. Unborn' \subseteq Unborn \cup new
  BY <1>1, UnbornShape DEF Unborn
<1>3. IsFiniteSet(new) /\ Cardinality(new) = n /\ n \in Nat /\ IsFiniteSet(Unborn) /\ a \in Nat
  BY PairsOf, FS_CardinalityType DEF Budget
<1>4. IsFiniteSet(Unborn \cup new) /\ Cardinality(Unborn \cup new) <= a + n
  <2>1. /\ IsFiniteSet(Unborn \cup new) /\ IsFiniteSet(Unborn \cap new)
        /\ Cardinality(Unborn \cup new) = a + n - Cardinality(Unborn \cap new)
    BY <1>3, FS_Union, FS_Intersection
  <2>2. Cardinality(Unborn \cap new) \in Nat /\ Cardinality(Unborn \cup new) \in Nat
    BY <2>1, FS_CardinalityType
  <2> QED BY <1>3, <2>1, <2>2
<1>5. IsFiniteSet(Unborn') /\ Cardinality(Unborn') <= Cardinality(Unborn \cup new)
  BY <1>2, <1>4, FS_Subset
<1>6. Cardinality(Unborn') \in Nat /\ Cardinality(Unborn \cup new) \in Nat
  BY <1>4, <1>5, FS_CardinalityType
<1>7. len + a + n <= MaxDeliveries /\ deliveries' = deliveries /\ len \in Nat
  BY DEF Match, Typed
<1>8. Len(deliveries') + Cardinality(Unborn') <= MaxDeliveries
  BY <1>3, <1>4, <1>5, <1>6, <1>7, SiemAssumption
<1>9. \A q \in Producers : txn'[q] \in {Idle} \cup EventTxn
  BY <1>1 DEF Budget
<1> QED BY <1>5, <1>8, <1>9 DEF Budget

\* What was to be inserted is among the deliveries.
LEMMA EnqueueBudget ==
  ASSUME Typed, Budget, NEW p \in Producers, Enqueue(p)
  PROVE  Budget'
<1> DEFINE m == txn[p].matched
           old == {p} \X m
           n == Cardinality(m)
           xs == SetToSeq(m)
           new == [i \in DOMAIN xs |-> Queued(xs[i])]
           a == Cardinality(Unborn)
           len == Len(deliveries)
<1>1. txn[p] # Idle /\ m \in SUBSET Destinations
  BY DEF Enqueue, Budget, EventTxn, Idle
<1>2. txn'[p] = Idle /\ \A q \in Producers \ {p} : txn'[q] = txn[q]
  BY DEF Enqueue, Set, Typed, Procs
<1>3. Unborn' \subseteq Unborn \ old /\ old \subseteq Unborn
  BY <1>1, <1>2, UnbornShape DEF Unborn
<1>4. IsFiniteSet(old) /\ Cardinality(old) = n /\ n \in Nat /\ IsFiniteSet(m)
  BY <1>1, PairsOf
<1>5. IsFiniteSet(Unborn) /\ a \in Nat
  BY FS_CardinalityType DEF Budget
<1>6. IsFiniteSet(Unborn \ old) /\ Cardinality(Unborn \ old) = a - n
  <2>1. Unborn \cap old = old
    BY <1>3
  <2>2. /\ IsFiniteSet(Unborn \ old)
        /\ Cardinality(Unborn \ old) = Cardinality(Unborn) - Cardinality(Unborn \cap old)
    BY <1>5, FS_Difference
  <2> QED BY <1>4, <2>1, <2>2
<1>7. IsFiniteSet(Unborn') /\ Cardinality(Unborn') <= a - n
  BY <1>3, <1>6, FS_Subset
<1>8. Len(deliveries') = len + n /\ len \in Nat
  <2>1. xs \in [1..n -> m]
    BY <1>4, SetToSeqRange
  <2> HIDE DEF xs
  <2>2. new = [i \in 1..n |-> Queued(xs[i])]
    BY <2>1
  <2>3. Len(new) = n /\ new \in Seq(Delivery)
    <3>1. \A i \in 1..n : Queued(xs[i]) \in Delivery
      BY <1>1, <2>1 DEF Queued, Delivery, Pending
    <3> QED BY <1>4, <2>2, <3>1
  <2>4. deliveries' = deliveries \o new /\ deliveries \in Seq(Delivery)
    BY DEF Enqueue, Typed, xs
  <2> HIDE DEF new
  <2>5. \A s, t \in Seq(Delivery) : Len(s \o t) = Len(s) + Len(t) /\ Len(s) \in Nat
    OBVIOUS
  <2> QED BY <2>3, <2>4, <2>5
<1>9. Len(deliveries') + Cardinality(Unborn') <= MaxDeliveries
  <2>1. Cardinality(Unborn') \in Nat /\ len + a <= MaxDeliveries
    BY <1>7, FS_CardinalityType DEF Budget
  <2> HIDE DEF a, n, len
  <2> QED BY <1>4, <1>5, <1>7, <1>8, <2>1, SiemAssumption
<1>10. \A q \in Producers : txn'[q] \in {Idle} \cup EventTxn
  BY <1>2 DEF Budget
<1> QED BY <1>7, <1>9, <1>10 DEF Budget

LEMMA SameLength ==
  ASSUME Typed, Typed', DOMAIN deliveries' = DOMAIN deliveries
  PROVE  Len(deliveries') = Len(deliveries)
<1> DEFINE n == Len(deliveries)
           l == Len(deliveries')
<1>1. n \in Nat /\ l \in Nat /\ 1..n = 1..l
  BY DEF Typed
<1> HIDE DEF n, l
<1>2. n = l
  BY <1>1
<1> QED BY <1>2 DEF n, l

LEMMA BudgetStep ==
  ASSUME Typed, Typed', Budget, [Next]_vars
  PROVE  Budget'
<1>1. \A p \in Workers \cup Admins : \A t : Set(p, t) => \A q \in Producers : txn'[q] = txn[q]
  BY SiemAssumption DEF Set, Typed, Procs
<1>2. ASSUME UNCHANGED deliveries \/ DOMAIN deliveries' = DOMAIN deliveries,
             \A p \in Producers :
               \/ txn'[p] = txn[p] \/ txn'[p] = Idle
               \/ txn[p] # Idle /\ txn'[p] \in EventTxn /\ txn'[p].matched = txn[p].matched
      PROVE  Budget'
  BY <1>2, SameLength, NothingAdded
<1>3. CASE UNCHANGED vars
  BY <1>2, <1>3 DEF vars
<1>4. ASSUME NEW p \in Producers, LockAudit(p) \/ \E x \in Destinations : Insert(p, x)
      PROVE  Budget'
  <2>1. txn[p].phase \in {"lock", "insert"} /\ txn[p] # Idle /\ txn[p] \in EventTxn
    <3>1. txn[p].phase \in {"lock", "insert"}
      BY <1>4 DEF LockAudit, Insert
    <3>2. Idle.phase = "idle" /\ (txn[p] = Idle \/ txn[p] \in EventTxn)
      BY DEF Idle, Budget
    <3> HIDE DEF Idle
    <3>3. txn[p] # Idle
      BY <3>1, <3>2
    <3> QED BY <3>1, <3>2, <3>3
  <2>2. /\ [txn[p] EXCEPT !.phase = "insert"] \in EventTxn
        /\ [txn[p] EXCEPT !.phase = "insert"].matched = txn[p].matched
        /\ \A x \in Destinations : LET t == [txn[p] EXCEPT !.inserted = @ \cup {x}]
                                   IN  t \in EventTxn /\ t.matched = txn[p].matched
    BY <2>1 DEF EventTxn
  <2>3. PICK t \in EventTxn : Set(p, t) /\ t.matched = txn[p].matched
    BY <1>4, <2>2 DEF LockAudit, Insert
  <2>4. txn'[p] = t /\ \A q \in Producers \ {p} : txn'[q] = txn[q]
    BY <2>3 DEF Set, Typed, Procs
  <2> QED BY <1>2, <1>4, <2>1, <2>3, <2>4 DEF LockAudit, Insert
<1>5. ASSUME NEW p \in Producers, NEW a \in Admins, BreakDeadlock(p, a)
      PROVE  Budget'
  <2>1. \A q \in Producers : txn'[q] = txn[q] \/ txn'[q] = Idle
    BY <1>5 DEF BreakDeadlock, Set, Typed, Procs
  <2> QED BY <1>2, <1>5, <2>1 DEF BreakDeadlock
<1>6. ASSUME NEW p \in Admins, NEW x \in Destinations,
             \/ CreateDestination(p, x)
             \/ \E target \in {"enabled", "disabled"} : LockDestination(p, x, target)
      PROVE  Budget'
  BY <1>1, <1>2, <1>6 DEF CreateDestination, LockDestination
<1>7. ASSUME NEW p \in Admins, Switch(p) \/ Refuse(p) PROVE Budget'
  BY <1>1, <1>2, <1>7 DEF Switch, Refuse
<1>8. ASSUME NEW d, BecomeDue(d) PROVE Budget'
  BY <1>2, <1>8 DEF BecomeDue, Typed
<1>9. ASSUME NEW w \in Workers, Select(w) \/ Audit(w) \/ Abort(w) PROVE Budget'
  BY <1>1, <1>2, <1>9 DEF Select, Audit, Abort
<1>10. ASSUME NEW w \in Workers, NEW d, Abandon(w, d) \/ SendAccepted(w, d) \/ SendRefused(w, d)
       PROVE  Budget'
  BY <1>1, <1>2, <1>10 DEF Abandon, SendAccepted, SendRefused
<1>11. ASSUME NEW w \in Workers, Commit(w) PROVE Budget'
  BY <1>1, <1>2, <1>11 DEF Commit
<1> QED BY <1>3, <1>4, <1>5, <1>6, <1>7, <1>8, <1>9, <1>10, <1>11, MatchBudget, EnqueueBudget
        DEF Next, Event, Pass

LEMMA LockStep ==
  ASSUME LockTyped, [Next]_vars
  PROVE  LockTyped'
<1> USE SiemAssumption DEF LockTyped
<1>1. CASE UNCHANGED vars
  BY <1>1 DEF vars
<1>2. ASSUME NEW p \in Producers,
             \/ \E matched \in SUBSET Destinations, recorded \in BOOLEAN : Match(p, matched, recorded)
             \/ Event(p) \/ \E a \in Admins : BreakDeadlock(p, a)
      PROVE  auditLock' \in {auditLock, p, None} /\ UNCHANGED failures
  BY <1>2 DEF Match, Event, LockAudit, Enqueue, Insert, BreakDeadlock, Release
<1>3. ASSUME NEW p \in Admins,
             \/ \E x \in Destinations :
                  \/ CreateDestination(p, x)
                  \/ \E target \in {"enabled", "disabled"} : LockDestination(p, x, target)
             \/ Switch(p) \/ Refuse(p)
      PROVE  UNCHANGED <<auditLock, failures>>
  BY <1>3 DEF CreateDestination, LockDestination, Switch, Refuse
<1>4. ASSUME NEW d, BecomeDue(d) PROVE UNCHANGED <<auditLock, failures>>
  BY <1>4 DEF BecomeDue
<1>5. ASSUME NEW w \in Workers, Pass(w)
      PROVE  auditLock' \in {auditLock, w, None} /\ UNCHANGED failures
  BY <1>5 DEF Pass, Select, Audit, Commit, Release, Abandon, SendAccepted, SendRefused
<1>6. ASSUME NEW w \in Workers, Abort(w)
      PROVE  auditLock' \in {auditLock, None} /\ failures' \in 0..MaxFailures
  BY <1>6 DEF Abort, Release
<1> QED BY <1>1, <1>2, <1>3, <1>4, <1>5, <1>6 DEF Next

LEMMA TypesKept == Spec => [](Budget /\ LockTyped)
<1>1. Init => Budget /\ LockTyped
  <2> SUFFICES ASSUME Init PROVE Budget /\ LockTyped
    OBVIOUS
  <2>1. \A p \in Producers : txn[p] = Idle
    BY DEF Init, Procs
  <2>2. Unborn = {}
    BY <2>1, UnbornShape
  <2>3. IsFiniteSet(Unborn) /\ Cardinality(Unborn) = 0 /\ Len(deliveries) = 0
    BY <2>2, FS_EmptySet DEF Init
  <2> QED BY <2>1, <2>3, SiemAssumption DEF Init, Budget, LockTyped
<1>2. IInv /\ IInv' /\ Budget /\ LockTyped /\ [Next]_vars => Budget' /\ LockTyped'
  BY BudgetStep, LockStep DEF IInv
<1> QED BY <1>1, <1>2, Invariant, PTL DEF Spec

\* Destinations, deliveries, locks and transactions keep their types, and there
\* are no more deliveries than there was room for when they were matched.
THEOREM TypeCorrect == Spec => []TypeOK
<1>1. ASSUME IInv, Budget, LockTyped PROVE TypeOK
  <2>1. \A p \in Procs : txn[p].phase \in {"idle", "next", "audit", "switch", "lock", "insert"}
    BY <1>1, TransactionShape DEF IInv, Typed
  <2>2. Len(deliveries) <= MaxDeliveries
    <3>1. Cardinality(Unborn) \in Nat /\ Len(deliveries) \in Nat
      BY <1>1, FS_CardinalityType DEF Budget, IInv, Typed
    <3> QED BY <1>1, <3>1, SiemAssumption DEF Budget
  <2> QED BY <1>1, <2>1, <2>2 DEF IInv, Typed, States, AuditTellsSwitch, LockTyped, TypeOK
<1>2. IInv /\ Budget /\ LockTyped => TypeOK
  BY <1>1
<1> QED BY <1>2, Invariant, TypesKept, PTL
=============================================================================
