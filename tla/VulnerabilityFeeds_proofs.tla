---------------------- MODULE VulnerabilityFeeds_proofs ----------------------
(***************************************************************************)
(* Machine-checked proofs that a vulnerability match is alerted when its row *)
(* is made and, unless correlations overlap, never again, that the mark of  *)
(* known exploitation is kept, and that a correlation which no other        *)
(* overlaps leaves every asset with the matches and the risk that the       *)
(* firmware and the catalog it read give, for any finite set of assets and  *)
(* any feeds, processes and bounds.                                         *)
(***************************************************************************)
EXTENDS VulnerabilityFeeds, FiniteSetTheorems, TLAPS

Pairs == Assets \X Cves

Fields == {"phase", "todo", "firmware", "catalog", "existing", "writes", "new", "alone"}

\* What the proof needs of the types.
Typed ==
  /\ alerts \in [Pairs -> Nat]
  /\ txn = [p \in Procs |-> txn[p]]
  /\ \A p \in Procs : /\ "phase" \in DOMAIN txn[p]
                      /\ Correlating(p) => Fields \subseteq DOMAIN txn[p]

\* A pair that a correlation writes has a row already, or is new; what it took
\* for existing has a row or is among the ones it has written.
WritesAccounted ==
  \A p \in Procs : Correlating(p) =>
    /\ txn[p].new \subseteq DOMAIN txn[p].writes
    /\ DOMAIN txn[p].writes \subseteq txn[p].new \cup DOMAIN matches
    /\ txn[p].phase = "upsert" =>
         \A c \in txn[p].existing : <<Head(txn[p].todo), c>> \in DOMAIN Visible(p)

\* Correlations that do not overlap find the rows of all that are done.
NewIsNew ==
  ~overlapped =>
    /\ \A p, q \in Procs : Correlating(p) /\ Correlating(q) => p = q
    /\ \A p \in Procs : Correlating(p) =>
         /\ txn[p].new \cap DOMAIN matches = {}
         /\ txn[p].phase = "upsert" =>
              \A c \in Cves : <<Head(txn[p].todo), c>> \in DOMAIN matches => c \in txn[p].existing

IInv == Typed /\ WritesAccounted /\ NewIsNew /\ MatchesAlertedOnce

LEMMA Initially == Init => IInv
<1> SUFFICES ASSUME Init PROVE IInv
  OBVIOUS
<1>1. \A p \in Procs : txn[p] = Idle /\ ~Correlating(p)
  BY DEF Init, Idle, Correlating
<1>2. Typed
  BY <1>1 DEF Init, Idle, Typed, Pairs
<1>3. DOMAIN matches = {}
  BY DEF Init
<1>4. MatchesAlertedOnce
  BY <1>3 DEF Init, MatchesAlertedOnce
<1> QED BY <1>1, <1>2, <1>4 DEF IInv, WritesAccounted, NewIsNew

-----------------------------------------------------------------------------
\* A correlation goes on with what it has.
SameWork(t, u) ==
  /\ DOMAIN t = DOMAIN u /\ t.phase = u.phase /\ t.todo = u.todo
  /\ t.existing = u.existing /\ t.writes = u.writes /\ t.new = u.new

\* What an overlap tells a correlation leaves its work alone.
LEMMA OverlappedIsSame ==
  ASSUME NEW r, Fields \subseteq DOMAIN r
  PROVE  SameWork([r EXCEPT !.alone = FALSE], r)
<1> DEFINE no == FALSE
<1>1. ASSUME NEW b
      PROVE  SameWork([r EXCEPT !.alone = b], r)
  BY DEF SameWork, Fields
<1>2. SameWork([r EXCEPT !.alone = no], r)
  <2> HIDE DEF no
  <2> QED BY <1>1
<1> QED BY <1>2

\* Steps of a process that is in no correlation before and after.
LEMMA OthersKeep ==
  ASSUME IInv, UNCHANGED <<matches, alerts, overlapped>>,
         txn' = [p \in Procs |-> txn'[p]],
         \A p \in Procs : \/ "phase" \in DOMAIN txn'[p] /\ ~Correlating(p)'
                          \/ txn'[p] = txn[p]
  PROVE  IInv'
<1>1. \A p \in Procs : Correlating(p)' => Correlating(p) /\ txn'[p] = txn[p]
  BY DEF Correlating
<1>2. Typed'
  BY <1>1 DEF IInv, Typed, Correlating
<1>3. WritesAccounted'
  BY <1>1 DEF IInv, WritesAccounted, Visible
<1>4. NewIsNew'
  BY <1>1 DEF IInv, NewIsNew
<1>5. MatchesAlertedOnce'
  BY DEF IInv, MatchesAlertedOnce
<1> QED BY <1>2, <1>3, <1>4, <1>5 DEF IInv

LEMMA SetKeeps ==
  ASSUME IInv, UNCHANGED <<matches, alerts, overlapped>>, NEW p \in Procs,
         NEW t, "phase" \in DOMAIN t, t.phase \notin {"asset", "upsert"}, Set(p, t)
  PROVE  IInv'
<1>1. txn' = [q \in Procs |-> IF q = p THEN t ELSE txn[q]]
  BY DEF Set, IInv, Typed
<1> QED BY <1>1, OthersKeep DEF Correlating

LEMMA IdleShape == "phase" \in DOMAIN Idle /\ Idle.phase = "idle"
BY DEF Idle

-----------------------------------------------------------------------------
(* One lemma for each group of actions. *)

LEMMA EnvironmentKeeps ==
  ASSUME IInv,
         \/ \E files \in Transfers : Arrive(files)
         \/ \E a \in Assets, version \in Versions : Observe(a, version)
  PROVE  IInv'
BY OthersKeep DEF Arrive, Observe, IInv, Typed

LEMMA StartKeeps ==
  ASSUME IInv, Watch \/ \E p \in Operators, files \in Jobs, correlate \in BOOLEAN : RunByHand(p, files, correlate)
  PROVE  IInv'
<1>1. ASSUME NEW p \in Procs, NEW files, NEW correlate, Start(p, files, correlate)
      PROVE  IInv'
  <2> DEFINE t == [phase |-> "nvd", files |-> files, correlate |-> correlate]
  <2>1. "phase" \in DOMAIN t /\ t.phase = "nvd"
    OBVIOUS
  <2> HIDE DEF t
  <2>2. Set(p, t) /\ UNCHANGED <<matches, alerts, overlapped>>
    BY <1>1 DEF Start, t
  <2> QED BY <2>1, <2>2, SetKeeps
<1>2. ASSUME Watch PROVE IInv'
  <2>1. Start(Watcher, directory, TRUE)
    BY <1>2 DEF Watch
  <2> DEFINE b == TRUE
  <2>2. Start(Watcher, directory, b)
    BY <2>1
  <2> HIDE DEF b
  <2> QED BY <2>2, <1>1 DEF Procs
<1> QED BY <1>1, <1>2 DEF RunByHand, Procs

LEMMA EndsKeep ==
  ASSUME IInv,
         \E p \in Procs : Fails(p) \/ Crash(p) \/ \E q \in Procs : BreakDeadlock(p, q)
  PROVE  IInv'
<1>1. \A p \in Procs : Set(p, Idle) /\ UNCHANGED <<matches, alerts, overlapped>> => IInv'
  BY IdleShape, SetKeeps
<1> QED BY <1>1 DEF Fails, Crash, BreakDeadlock, Die

\* The NVD page and the KEV catalog, and what a correlation reads first.
LEMMA FeedKeeps ==
  ASSUME IInv, NEW p \in Procs,
         UpsertNvd(p) \/ CommitNvd(p) \/ ReadKev(p) \/ LockAudit(p) \/ CommitKev(p) \/ ReadAssets(p)
  PROVE  IInv'
<1>1. "phase" \in DOMAIN txn[p]
  BY DEF IInv, Typed
<1>2. \A phase : LET t == [txn[p] EXCEPT !.phase = phase]
                 IN  "phase" \in DOMAIN t /\ t.phase = phase
  BY <1>1
<1>3. \A t : /\ Set(p, t) /\ "phase" \in DOMAIN t /\ t.phase \notin {"asset", "upsert"}
             /\ UNCHANGED <<matches, alerts, overlapped>>
             => IInv'
  BY SetKeeps
<1>4. CASE UpsertNvd(p)
  <2>1. \A g, c, n : LET t == [phase |-> "imported", files |-> g, correlate |-> c, page |-> n]
                     IN  "phase" \in DOMAIN t /\ t.phase = "imported"
    OBVIOUS
  <2> QED BY <1>2, <1>3, <1>4, <2>1 DEF UpsertNvd
<1>5. CASE CommitNvd(p)
  <2>1. \A g, c : LET t == [phase |-> "kev", files |-> g, correlate |-> c]
                  IN  "phase" \in DOMAIN t /\ t.phase = "kev"
    OBVIOUS
  <2> QED BY <1>3, <1>5, <2>1 DEF CommitNvd
<1>6. CASE ReadKev(p)
  <2>1. \A g, c, f : LET t == [phase |-> "found", files |-> g, correlate |-> c, found |-> f]
                     IN  "phase" \in DOMAIN t /\ t.phase = "found"
    OBVIOUS
  <2> QED BY <1>2, <1>3, <1>6, <2>1 DEF ReadKev
<1>7. CASE LockAudit(p)
  BY <1>2, <1>3, <1>7 DEF LockAudit
<1>8. CASE CommitKev(p)
  BY <1>2, <1>3, <1>8 DEF CommitKev
<1>9. CASE ReadAssets(p)
  <2>1. \A g, f : LET t == [phase |-> "catalog", files |-> g, firmware |-> f]
                  IN  "phase" \in DOMAIN t /\ t.phase = "catalog"
    OBVIOUS
  <2> QED BY <1>3, <1>9, <2>1, IdleShape DEF ReadAssets, Finish
<1> QED BY <1>4, <1>5, <1>6, <1>7, <1>8, <1>9

-----------------------------------------------------------------------------
(* Correlation *)

\* A step of a correlation that changes no row keeps the invariant when its
\* new work is accounted for.
LEMMA WorkKeeps ==
  ASSUME IInv, UNCHANGED <<matches, alerts, overlapped>>, NEW p \in Procs, Correlating(p),
         NEW t, Fields \subseteq DOMAIN t, t.phase \in {"asset", "upsert"}, Set(p, t),
         t.new \subseteq DOMAIN t.writes,
         DOMAIN t.writes \subseteq t.new \cup DOMAIN matches,
         t.phase = "upsert" =>
           \A c \in t.existing : <<Head(t.todo), c>> \in DOMAIN t.writes \cup DOMAIN matches,
         ~overlapped =>
           /\ t.new \cap DOMAIN matches = {}
           /\ t.phase = "upsert" =>
                \A c \in Cves : <<Head(t.todo), c>> \in DOMAIN matches => c \in t.existing
  PROVE  IInv'
<1>1. /\ txn' = [q \in Procs |-> txn'[q]]
      /\ \A q \in Procs : txn'[q] = IF q = p THEN t ELSE txn[q]
  BY DEF Set, IInv, Typed
<1>2. Typed'
  BY <1>1 DEF IInv, Typed, Fields, Correlating
<1>3. DOMAIN Visible(p)' = DOMAIN t.writes \cup DOMAIN matches
  BY <1>1 DEF Visible, Over
<1>4. WritesAccounted'
  <2> SUFFICES ASSUME NEW q \in Procs, Correlating(q)'
               PROVE  /\ txn'[q].new \subseteq DOMAIN txn'[q].writes
                      /\ DOMAIN txn'[q].writes \subseteq txn'[q].new \cup DOMAIN matches'
                      /\ txn'[q].phase = "upsert" =>
                           \A c \in txn'[q].existing : <<Head(txn'[q].todo), c>> \in DOMAIN Visible(q)'
    BY DEF WritesAccounted
  <2>1. CASE q = p
    BY <1>1, <1>3, <2>1
  <2>2. CASE q # p
    <3>1. txn'[q] = txn[q] /\ Correlating(q) /\ Visible(q)' = Visible(q)
      BY <1>1, <2>2 DEF Correlating, Visible
    <3> QED BY <3>1 DEF IInv, WritesAccounted
  <2> QED BY <2>1, <2>2
<1>5. NewIsNew'
  <2>1. \A q \in Procs : Correlating(q)' => Correlating(q)
    BY <1>1 DEF Correlating
  <2> QED BY <1>1, <2>1 DEF IInv, NewIsNew
<1>6. MatchesAlertedOnce'
  BY DEF IInv, MatchesAlertedOnce
<1> QED BY <1>2, <1>4, <1>5, <1>6 DEF IInv

\* What a correlation sees is what it has written and what is there.
LEMMA VisibleDomain == \A p : DOMAIN Visible(p) = DOMAIN txn[p].writes \cup DOMAIN matches
BY DEF Visible, Over

LEMMA ReadExistingKeeps ==
  ASSUME IInv, NEW p \in Procs, ReadExisting(p)
  PROVE  IInv'
<1> DEFINE a == Head(txn[p].todo)
           t == [txn[p] EXCEPT !.phase = "upsert", !.existing = Existing(p, a)]
<1>1. Correlating(p) /\ Fields \subseteq DOMAIN txn[p]
  BY DEF ReadExisting, Correlating, IInv, Typed
<1>2. /\ Fields \subseteq DOMAIN t /\ t.phase = "upsert" /\ t.existing = Existing(p, a)
      /\ t.new = txn[p].new /\ t.writes = txn[p].writes /\ t.todo = txn[p].todo
  BY <1>1 DEF Fields
<1>3. DOMAIN Visible(p) = DOMAIN txn[p].writes \cup DOMAIN matches
  BY VisibleDomain
<1>4. \A c : c \in Existing(p, a) <=> c \in Cves /\ <<a, c>> \in DOMAIN Visible(p)
  BY DEF Existing
<1>5. Set(p, t) /\ UNCHANGED <<matches, alerts, overlapped>>
  BY DEF ReadExisting
<1>6. /\ txn[p].new \subseteq DOMAIN txn[p].writes
      /\ DOMAIN txn[p].writes \subseteq txn[p].new \cup DOMAIN matches
      /\ ~overlapped => txn[p].new \cap DOMAIN matches = {}
  BY <1>1 DEF IInv, WritesAccounted, NewIsNew
<1> HIDE DEF t, a
<1>7. Head(t.todo) = a
  BY <1>2 DEF a
<1> QED BY <1>1, <1>2, <1>3, <1>4, <1>5, <1>6, <1>7, WorkKeeps

\* A new correlation has no work yet; it overlaps with the others there are.
LEMMA ReadCatalogKeeps ==
  ASSUME IInv, NEW p \in Procs, ReadCatalog(p)
  PROVE  IInv'
<1>1. ~Correlating(p) /\ txn[p].phase = "catalog"
  BY DEF ReadCatalog, Correlating
<1>2. IInv'
  <2> DEFINE quiet == \A q \in Procs : ~Correlating(q)
             begun(order) ==
               [phase |-> "asset", files |-> txn[p].files, todo |-> order,
                firmware |-> txn[p].firmware, catalog |-> catalog, existing |-> {},
                writes |-> <<>>, new |-> {}, alone |-> quiet]
  <2>0. PICK order \in SetToSeqs(Assets) : txn' = Overlapped([txn EXCEPT ![p] = begun(order)])
    BY Zenon DEF ReadCatalog
  <2> DEFINE t == begun(order)
             u == [txn EXCEPT ![p] = t]
             d(q) == [u[q] EXCEPT !.alone = FALSE]
  <2>1. txn' = Overlapped(u) /\ UNCHANGED <<matches, alerts>>
    BY <2>0 DEF ReadCatalog
  <2>2. Fields \subseteq DOMAIN t /\ t.phase = "asset" /\ t.new = {} /\ DOMAIN t.writes = {}
    <3> HIDE DEF quiet
    <3> QED BY DEF Fields
  <2>3. overlapped' <=> overlapped \/ \E q \in Procs : Correlating(q)
    BY Zenon DEF ReadCatalog
  <2> HIDE DEF t
  <2>4. u[p] = t /\ \A q \in Procs \ {p} : u[q] = txn[q]
    BY DEF IInv, Typed
  <2>5. \A q \in Procs : txn'[q] = IF Correlating(q) THEN d(q) ELSE u[q]
    BY <2>1 DEF Overlapped
  <2>6. \A q \in Procs : Correlating(q) => q # p /\ SameWork(d(q), txn[q])
    <3> SUFFICES ASSUME NEW q \in Procs, Correlating(q) PROVE q # p /\ SameWork(d(q), txn[q])
      OBVIOUS
    <3>1. q # p /\ u[q] = txn[q] /\ Fields \subseteq DOMAIN txn[q]
      BY <1>1, <2>4 DEF IInv, Typed
    <3> QED BY <3>1, OverlappedIsSame
  <2> HIDE DEF u, d
  <2>7. txn'[p] = t
    BY <1>1, <2>4, <2>5
  <2>8. \A q \in Procs \ {p} : \/ txn'[q] = txn[q]
                               \/ Correlating(q) /\ SameWork(txn'[q], txn[q])
    BY <2>4, <2>5, <2>6
  <2>9. \A q \in Procs \ {p} : Correlating(q)' => Correlating(q) /\ SameWork(txn'[q], txn[q])
    BY <2>8 DEF SameWork, Correlating
  <2>10. Typed'
    <3>1. txn' = [q \in Procs |-> txn'[q]]
      BY <2>1 DEF Overlapped
    <3>2. \A q \in Procs : /\ "phase" \in DOMAIN txn'[q]
                           /\ Correlating(q)' => Fields \subseteq DOMAIN txn'[q]
      <4> TAKE q \in Procs
      <4>1. CASE q = p
        BY <2>2, <2>7, <4>1 DEF Fields
      <4>2. CASE q # p
        BY <2>8, <2>9, <4>2 DEF IInv, Typed, SameWork
      <4> QED BY <4>1, <4>2
    <3> QED BY <2>1, <3>1, <3>2 DEF IInv, Typed
  <2>11. WritesAccounted'
    <3> SUFFICES ASSUME NEW q \in Procs, Correlating(q)'
                 PROVE  /\ txn'[q].new \subseteq DOMAIN txn'[q].writes
                        /\ DOMAIN txn'[q].writes \subseteq txn'[q].new \cup DOMAIN matches'
                        /\ txn'[q].phase = "upsert" =>
                             \A c \in txn'[q].existing : <<Head(txn'[q].todo), c>> \in DOMAIN Visible(q)'
      BY DEF WritesAccounted
    <3>1. CASE q = p
      BY <2>2, <2>7, <3>1
    <3>2. CASE q # p
      BY <2>1, <2>9, <3>2 DEF IInv, WritesAccounted, SameWork, Visible
    <3> QED BY <3>1, <3>2
  <2>12. NewIsNew'
    <3> SUFFICES ASSUME ~overlapped'
                 PROVE  /\ \A q, r \in Procs : Correlating(q)' /\ Correlating(r)' => q = r
                        /\ \A q \in Procs : Correlating(q)' =>
                             /\ txn'[q].new \cap DOMAIN matches' = {}
                             /\ txn'[q].phase = "upsert" =>
                                  \A c \in Cves : <<Head(txn'[q].todo), c>> \in DOMAIN matches'
                                                    => c \in txn'[q].existing
      BY DEF NewIsNew
    <3>1. \A q \in Procs : Correlating(q)' => q = p
      BY <2>3, <2>9
    <3> QED BY <2>2, <2>7, <3>1
  <2>13. MatchesAlertedOnce'
    BY <2>1, <2>3 DEF IInv, MatchesAlertedOnce
  <2> QED BY <2>10, <2>11, <2>12, <2>13 DEF IInv
<1> QED BY <1>2

\* What is written for an asset had a row, or is new.
LEMMA UpsertKeeps ==
  ASSUME IInv, NEW p \in Procs, Upsert(p)
  PROVE  IInv'
<1> DEFINE u == txn[p]
           a == Head(u.todo)
           matched == Matched(u, a)
           stale == Stale(p, a, matched)
           rows == Rows(p, a, matched)
           new == u.new \cup {a} \X (matched \ u.existing)
           t == [u EXCEPT !.phase = "asset", !.todo = Tail(@), !.writes = Over(rows, @), !.new = new]
<1>1. u.phase = "upsert" /\ Correlating(p) /\ Fields \subseteq DOMAIN u
  BY DEF Upsert, Correlating, IInv, Typed
<1>2. matched \subseteq Cves /\ \A c \in stale : <<a, c>> \in DOMAIN Visible(p)
  BY DEF Stale, Matched
<1>3. DOMAIN rows = {a} \X (matched \cup stale)
  BY DEF Rows
<1>4. Set(p, t) /\ UNCHANGED <<matches, alerts, overlapped>>
  BY DEF Upsert
<1> HIDE DEF matched, stale, rows, new
<1>5. Fields \subseteq DOMAIN t /\ t.phase = "asset" /\ t.writes = Over(rows, u.writes) /\ t.new = new
  BY <1>1 DEF Fields
<1>6. DOMAIN t.writes = {a} \X (matched \cup stale) \cup DOMAIN u.writes
  BY <1>3, <1>5 DEF Over
<1>7. DOMAIN Visible(p) = DOMAIN u.writes \cup DOMAIN matches
  BY VisibleDomain
<1>8. /\ u.new \subseteq DOMAIN u.writes /\ DOMAIN u.writes \subseteq u.new \cup DOMAIN matches
      /\ \A c \in u.existing : <<a, c>> \in DOMAIN Visible(p)
  BY <1>1 DEF IInv, WritesAccounted
<1>9. ~overlapped => /\ u.new \cap DOMAIN matches = {}
                     /\ \A c \in Cves : <<a, c>> \in DOMAIN matches => c \in u.existing
  BY <1>1 DEF IInv, NewIsNew
<1> HIDE DEF t, a
<1>10. t.new \subseteq DOMAIN t.writes
  BY <1>5, <1>6, <1>8 DEF new
<1>11. DOMAIN t.writes \subseteq t.new \cup DOMAIN matches
  BY <1>2, <1>5, <1>6, <1>7, <1>8 DEF new
<1>12. ~overlapped => t.new \cap DOMAIN matches = {}
  BY <1>2, <1>5, <1>9 DEF new
<1> QED BY <1>1, <1>4, <1>5, <1>10, <1>11, <1>12, WorkKeeps

\* A correlation that ends alerts its new pairs and makes rows of all of them.
LEMMA CommitMatchesKeeps ==
  ASSUME IInv, NEW p \in Procs, CommitMatches(p)
  PROVE  IInv'
<1>1. Correlating(p) /\ txn' = [q \in Procs |-> IF q = p THEN Idle ELSE txn[q]]
  BY DEF CommitMatches, Correlating, Finish, Set, IInv, Typed
<1>2. Typed'
  BY <1>1, IdleShape DEF CommitMatches, IInv, Typed, Correlating, Pairs
<1>3. /\ txn[p].new \subseteq DOMAIN txn[p].writes
      /\ DOMAIN txn[p].writes \subseteq txn[p].new \cup DOMAIN matches
  BY <1>1 DEF IInv, WritesAccounted
<1>4. DOMAIN matches' = txn[p].new \cup DOMAIN matches
  BY <1>3, VisibleDomain DEF CommitMatches
<1>5. \A q \in Procs : Correlating(q)' => q # p /\ Correlating(q) /\ txn'[q] = txn[q]
  BY <1>1, IdleShape DEF Correlating
<1>6. WritesAccounted'
  BY <1>4, <1>5 DEF IInv, WritesAccounted, Visible, Over
<1>7. NewIsNew'
  BY <1>1, <1>5 DEF CommitMatches, IInv, NewIsNew
<1>8. \A x \in Pairs : alerts'[x] = alerts[x] + IF x \in txn[p].new THEN 1 ELSE 0
  BY DEF CommitMatches, Pairs
<1>9. MatchesAlertedOnce'
  <2> SUFFICES ASSUME NEW x \in Pairs
               PROVE  /\ alerts'[x] > 0 <=> x \in DOMAIN matches'
                      /\ ~overlapped' => alerts'[x] <= 1
    BY DEF MatchesAlertedOnce, Pairs
  <2>1. /\ alerts[x] \in Nat /\ (alerts[x] > 0 <=> x \in DOMAIN matches)
        /\ ~overlapped => alerts[x] <= 1
    BY DEF IInv, Typed, MatchesAlertedOnce, Pairs
  <2>2. ~overlapped /\ x \in txn[p].new => x \notin DOMAIN matches
    BY <1>1 DEF IInv, NewIsNew
  <2>3. overlapped' = overlapped
    BY DEF CommitMatches
  <2> QED BY <1>4, <1>8, <2>1, <2>2, <2>3
<1> QED BY <1>2, <1>6, <1>7, <1>9 DEF IInv

-----------------------------------------------------------------------------
LEMMA Inductive == IInv /\ [Next]_vars => IInv'
<1> SUFFICES ASSUME IInv, [Next]_vars PROVE IInv'
  OBVIOUS
<1>1. CASE UNCHANGED vars
  BY <1>1, OthersKeep DEF vars, IInv, Typed
<1>2. ASSUME NEW p \in Procs, Process(p) \/ Fails(p) \/ Crash(p)
      PROVE  IInv'
  BY <1>2, FeedKeeps, ReadCatalogKeeps, ReadExistingKeeps, UpsertKeeps,
     CommitMatchesKeeps, EndsKeep DEF Process
<1> QED BY <1>1, <1>2, EnvironmentKeeps, StartKeeps DEF Next

\* A match is alerted if and only if its row has been made, and only once
\* unless two correlations overlap, however feeds, crashes and restarts come.
THEOREM AlertedOnce == Spec => []MatchesAlertedOnce
<1>1. IInv => MatchesAlertedOnce
  BY DEF IInv
<1> QED BY <1>1, Initially, Inductive, PTL DEF Spec

-----------------------------------------------------------------------------
\* Every row of the catalog says whether its CVE is known to be exploited.
Marked == \A c \in Cves : "exploited" \in DOMAIN catalog[c]

LEMMA CatalogStep ==
  ASSUME Marked, [Next]_vars
  PROVE  Marked' /\ \A c \in Cves : catalog[c].exploited => catalog'[c].exploited
<1>1. CASE UNCHANGED catalog
  BY <1>1 DEF Marked
<1>2. ASSUME NEW p \in Procs, CommitNvd(p)
      PROVE  Marked' /\ \A c \in Cves : catalog[c].exploited => catalog'[c].exploited
  <2>1. ASSUME NEW r, "exploited" \in DOMAIN r, NEW x, NEW y
        PROVE  LET t == [r EXCEPT !.listed = x, !.affects = y]
               IN  "exploited" \in DOMAIN t /\ t.exploited = r.exploited
    BY <2>1
  <2>2. ASSUME NEW c \in Cves
        PROVE  "exploited" \in DOMAIN catalog'[c] /\ (catalog[c].exploited => catalog'[c].exploited)
    <3>1. CASE c \in DOMAIN Page(p)
      <4> DEFINE page == Page(p)
      <4>1. catalog'[c] = [catalog[c] EXCEPT !.listed = TRUE, !.affects = page[c]]
        BY <1>2, <3>1 DEF CommitNvd, Imported
      <4> HIDE DEF page
      <4> QED BY <2>1, <4>1 DEF Marked
    <3>2. CASE c \notin DOMAIN Page(p)
      BY <1>2, <3>2 DEF CommitNvd, Imported, Marked
    <3> QED BY <3>1, <3>2
  <2> QED BY <2>2 DEF Marked
<1>3. ASSUME NEW p \in Procs, CommitKev(p)
      PROVE  Marked' /\ \A c \in Cves : catalog[c].exploited => catalog'[c].exploited
  <2>1. ASSUME NEW c \in Cves
        PROVE  "exploited" \in DOMAIN catalog'[c] /\ (catalog[c].exploited => catalog'[c].exploited)
    <3> DEFINE b == catalog[c].exploited \/ c \in txn[p].found
    <3>1. catalog'[c] = [catalog[c] EXCEPT !.exploited = b]
      BY <1>3 DEF CommitKev
    <3>2. DOMAIN catalog'[c] = DOMAIN catalog[c] /\ catalog'[c].exploited = b
      <4> HIDE DEF b
      <4> QED BY <3>1 DEF Marked
    <3> QED BY <3>2 DEF Marked
  <2> QED BY <2>1 DEF Marked
<1> QED BY <1>1, <1>2, <1>3 DEF Next, Process, Arrive, Observe, Watch, RunByHand, Start, Fails,
       Crash, Die, UpsertNvd, ReadKev, LockAudit, ReadAssets, ReadCatalog, ReadExisting, Upsert, CommitMatches,
       BreakDeadlock, vars

\* Nothing takes the mark of known exploitation back, whichever page is
\* imported later and whatever runs at the same time.
THEOREM MarkIsKept == Spec => KevIsKept
<1> DEFINE Step == \A c \in Cves : catalog[c].exploited => catalog'[c].exploited
<1>1. Init => Marked
  BY DEF Init, Marked
<1>2. Marked /\ [Next]_vars => Marked' /\ [Step]_vars
  BY CatalogStep
<1>3. [][Step]_vars => KevIsKept
  BY PTL DEF KevIsKept
<1> HIDE DEF Step
<1> QED BY <1>1, <1>2, <1>3, PTL DEF Spec

-----------------------------------------------------------------------------
(* The matches are true to what a correlation that is alone has read; the    *)
(* assets it is through with are judged by that.                             *)

\* The rows of an asset are the ones that the firmware and the catalog of b give.
Judged(rows, b, a) ==
  \A c \in Cves :
    /\ <<a, c>> \in DOMAIN rows /\ rows[<<a, c>>].status # "rejected"
         <=> Match(b.firmware[a], b.catalog[c]) # "none"
    /\ Match(b.firmware[a], b.catalog[c]) # "none"
         => rows[<<a, c>>].exploitable = b.catalog[c].exploited

RowsOfPairs(rows) ==
  DOMAIN rows \subseteq Pairs /\ \A x \in DOMAIN rows : "status" \in DOMAIN rows[x]

WorkTyped ==
  /\ RowsOfPairs(matches)
  /\ \A p \in Procs : Correlating(p) =>
       /\ txn[p].todo \in Seq(Assets) /\ RowsOfPairs(txn[p].writes)
       /\ txn[p].phase = "upsert" => txn[p].todo # <<>>

AloneIsJudged ==
  \A p \in Procs : Correlating(p) /\ txn[p].alone =>
    /\ \A q \in Procs \ {p} : ~Correlating(q)
    /\ \A a \in Assets : a \notin Range(txn[p].todo) => Judged(Visible(p), txn[p], a)

BasisIsJudged == \A b \in basis : \A a \in Assets : Judged(matches, b, a)

Truthful == WorkTyped /\ AloneIsJudged /\ BasisIsJudged

\* What a judged asset's matches and its risk are.
LEMMA JudgedIsAsRead ==
  ASSUME WorkTyped, BasisIsJudged
  PROVE  RiskIsAsRead
<1> SUFFICES ASSUME NEW b \in basis, NEW a \in Assets
             PROVE  /\ {c \in Cves : <<a, c>> \in DOMAIN matches /\ matches[<<a, c>>].status # "rejected"} = Matched(b, a)
                    /\ AssetRisk(a) = Risk({Cvss[c] : c \in Matched(b, a)}, \E c \in Matched(b, a) : b.catalog[c].exploited)
  BY DEF RiskIsAsRead
<1> DEFINE rows == {x \in DOMAIN matches : x[1] = a /\ matches[x].status # "rejected"}
<1>1. Judged(matches, b, a)
  BY DEF BasisIsJudged
<1>2. {c \in Cves : <<a, c>> \in DOMAIN matches /\ matches[<<a, c>>].status # "rejected"} = Matched(b, a)
  BY <1>1 DEF Judged, Matched
<1>3. \A x \in rows : x[2] \in Matched(b, a) /\ x = <<a, x[2]>>
  <2>1. ASSUME NEW x \in rows PROVE x[2] \in Cves /\ x = <<a, x[2]>>
    BY DEF WorkTyped, RowsOfPairs, Pairs
  <2> QED BY <1>2, <2>1
<1>4. \A c \in Matched(b, a) : <<a, c>> \in rows
  <2>1. ASSUME NEW c \in Matched(b, a) PROVE <<a, c>> \in rows
    <3>1. <<a, c>> \in DOMAIN matches /\ matches[<<a, c>>].status # "rejected"
      BY <1>2
    <3>2. <<a, c>>[1] = a
      OBVIOUS
    <3> QED BY <3>1, <3>2
  <2> QED BY <2>1
<1>5. {Cvss[x[2]] : x \in rows} = {Cvss[c] : c \in Matched(b, a)}
  <2>1. {Cvss[x[2]] : x \in rows} \subseteq {Cvss[c] : c \in Matched(b, a)}
    BY <1>3
  <2>2. ASSUME NEW c \in Matched(b, a) PROVE Cvss[c] \in {Cvss[x[2]] : x \in rows}
    <3>1. <<a, c>> \in rows /\ <<a, c>>[2] = c
      BY <1>4
    <3> HIDE DEF rows
    <3> QED BY <3>1
  <2> QED BY <2>1, <2>2
<1>6. (\E x \in rows : matches[x].exploitable) = (\E c \in Matched(b, a) : b.catalog[c].exploited)
  <2>1. \A c \in Matched(b, a) : c \in Cves /\ matches[<<a, c>>].exploitable = b.catalog[c].exploited
    BY <1>1 DEF Judged, Matched
  <2>2. ASSUME NEW x \in rows, matches[x].exploitable PROVE \E c \in Matched(b, a) : b.catalog[c].exploited
    <3>1. x[2] \in Matched(b, a) /\ matches[x].exploitable = b.catalog[x[2]].exploited
      BY <1>3, <2>1
    <3> QED BY <2>2, <3>1
  <2>3. ASSUME NEW c \in Matched(b, a), b.catalog[c].exploited PROVE \E x \in rows : matches[x].exploitable
    <3> HIDE DEF rows
    <3> QED BY <1>4, <2>1, <2>3
  <2> QED BY <2>2, <2>3
<1>7. AssetRisk(a) = Risk({Cvss[x[2]] : x \in rows}, \E x \in rows : matches[x].exploitable)
  BY DEF AssetRisk
<1> HIDE DEF rows
<1> QED BY <1>2, <1>5, <1>6, <1>7

LEMMA InitiallyTruthful == Init => Truthful
<1> SUFFICES ASSUME Init PROVE Truthful
  OBVIOUS
<1>1. \A p \in Procs : ~Correlating(p)
  BY DEF Init, Idle, Correlating
<1>2. DOMAIN matches = {} /\ basis = {}
  BY DEF Init
<1> QED BY <1>1, <1>2 DEF Truthful, WorkTyped, RowsOfPairs, AloneIsJudged, BasisIsJudged

-----------------------------------------------------------------------------
\* Steps that change no match, and none that starts a correlation.
Kept(t, u) ==
  /\ t.todo = u.todo /\ t.writes = u.writes /\ t.firmware = u.firmware /\ t.catalog = u.catalog
  /\ t.alone => u.alone
  /\ t.phase = "upsert" => t.todo # <<>>

LEMMA QuietStep ==
  ASSUME Truthful, UNCHANGED <<matches, basis>>,
         \A p \in Procs : Correlating(p)' => Correlating(p) /\ Kept(txn'[p], txn[p])
  PROVE  Truthful'
<1>1. WorkTyped'
  BY DEF Truthful, WorkTyped, RowsOfPairs, Kept
<1>2. AloneIsJudged'
  <2> SUFFICES ASSUME NEW p \in Procs, Correlating(p)', txn'[p].alone
               PROVE  /\ \A q \in Procs \ {p} : ~Correlating(q)'
                      /\ \A a \in Assets : a \notin Range(txn'[p].todo)
                                             => Judged(Visible(p)', txn'[p], a)
    BY DEF AloneIsJudged
  <2>1. Correlating(p) /\ Kept(txn'[p], txn[p]) /\ txn[p].alone
    BY DEF Kept
  <2>2. Visible(p)' = Visible(p)
    BY <2>1 DEF Visible, Kept
  <2>3. ASSUME NEW a \in Assets, Judged(Visible(p), txn[p], a)
        PROVE  Judged(Visible(p)', txn'[p], a)
    BY <2>1, <2>2, <2>3 DEF Judged, Kept
  <2> QED BY <2>1, <2>3 DEF Kept, Truthful, AloneIsJudged
<1>3. BasisIsJudged'
  BY DEF Truthful, BasisIsJudged, Judged
<1> QED BY <1>1, <1>2, <1>3 DEF Truthful

\* The transaction of a process that is in no correlation afterwards.
LEMMA SetIsQuiet ==
  ASSUME IInv, Truthful, UNCHANGED <<matches, basis>>, NEW p \in Procs,
         NEW t, t.phase \notin {"asset", "upsert"}, Set(p, t)
  PROVE  Truthful'
<1>1. txn' = [q \in Procs |-> IF q = p THEN t ELSE txn[q]]
  BY DEF Set, IInv, Typed
<1>2. ASSUME NEW q \in Procs, Correlating(q)'
      PROVE  Correlating(q) /\ Kept(txn'[q], txn[q])
  <2>1. q # p /\ txn'[q] = txn[q] /\ Correlating(q)
    BY <1>1, <1>2 DEF Correlating
  <2> QED BY <2>1 DEF Kept, Truthful, WorkTyped
<1> QED BY <1>2, QuietStep

\* What an overlap tells a correlation.
LEMMA OverlappedIsKept ==
  ASSUME NEW r, Fields \subseteq DOMAIN r, r.phase = "upsert" => r.todo # <<>>
  PROVE  LET t == [r EXCEPT !.alone = FALSE]
         IN  t.phase = r.phase /\ Kept(t, r) /\ ~t.alone
<1> DEFINE no == FALSE
           t == [r EXCEPT !.alone = no]
<1>1. no = FALSE
  OBVIOUS
<1> HIDE DEF no
<1>2. /\ t.todo = r.todo /\ t.writes = r.writes /\ t.firmware = r.firmware
      /\ t.catalog = r.catalog /\ t.phase = r.phase /\ t.alone = no
  BY DEF Fields
<1>3. t = [r EXCEPT !.alone = FALSE]
  BY <1>1
<1> HIDE DEF t
<1>4. Kept(t, r) /\ ~t.alone
  BY <1>1, <1>2 DEF Kept
<1> QED BY <1>2, <1>3, <1>4

-----------------------------------------------------------------------------
(* The actions *)

LEMMA EnvironmentIsTruthful ==
  ASSUME IInv, Truthful,
         \/ \E files \in Transfers : Arrive(files)
         \/ \E a \in Assets, version \in Versions : Observe(a, version)
  PROVE  Truthful'
<1>1. UNCHANGED <<txn, matches, basis>>
  BY DEF Arrive, Observe
<1>2. \A q \in Procs : Correlating(q)' => Correlating(q) /\ Kept(txn'[q], txn[q])
  BY <1>1 DEF Kept, Correlating, Truthful, WorkTyped
<1> QED BY <1>1, <1>2, QuietStep

LEMMA StartIsTruthful ==
  ASSUME IInv, Truthful,
         Watch \/ \E p \in Operators, files \in Jobs, correlate \in BOOLEAN : RunByHand(p, files, correlate)
  PROVE  Truthful'
<1>1. PICK p \in Procs : \E files, correlate :
        /\ Set(p, [phase |-> "nvd", files |-> files, correlate |-> correlate])
        /\ UNCHANGED <<matches, basis>>
  <2>1. CASE Watch
    BY <2>1, Zenon DEF Watch, Start, Procs
  <2>2. CASE \E p \in Operators, files \in Jobs, correlate \in BOOLEAN : RunByHand(p, files, correlate)
    BY <2>2 DEF RunByHand, Start, Procs
  <2> QED BY <2>1, <2>2
<1>2. PICK t : t.phase = "nvd" /\ Set(p, t)
  <2>1. \A files, correlate : [phase |-> "nvd", files |-> files, correlate |-> correlate].phase = "nvd"
    OBVIOUS
  <2> QED BY <1>1, <2>1
<1> QED BY <1>1, <1>2, SetIsQuiet

LEMMA EndIsTruthful ==
  ASSUME IInv, Truthful,
         \E p \in Procs : Fails(p) \/ Crash(p) \/ \E q \in Procs : BreakDeadlock(p, q)
  PROVE  Truthful'
<1>1. \A p \in Procs : Set(p, Idle) /\ UNCHANGED <<matches, basis>> => Truthful'
  BY IdleShape, SetIsQuiet
<1> QED BY <1>1 DEF Fails, Crash, BreakDeadlock, Die

LEMMA FeedIsTruthful ==
  ASSUME IInv, Truthful, NEW p \in Procs,
         UpsertNvd(p) \/ CommitNvd(p) \/ ReadKev(p) \/ LockAudit(p) \/ CommitKev(p) \/ ReadAssets(p)
  PROVE  Truthful'
<1>1. "phase" \in DOMAIN txn[p]
  BY DEF IInv, Typed
<1>2. \A phase : LET t == [txn[p] EXCEPT !.phase = phase] IN t.phase = phase
  BY <1>1
<1>3. \A t : /\ Set(p, t) /\ t.phase \notin {"asset", "upsert"}
             /\ UNCHANGED <<matches, basis>>
             => Truthful'
  BY SetIsQuiet
<1>4. CASE UpsertNvd(p)
  <2>1. \A g, c, n : LET t == [phase |-> "imported", files |-> g, correlate |-> c, page |-> n]
                     IN  t.phase = "imported"
    OBVIOUS
  <2> QED BY <1>2, <1>3, <1>4, <2>1 DEF UpsertNvd
<1>5. CASE CommitNvd(p)
  <2>1. \A g, c : LET t == [phase |-> "kev", files |-> g, correlate |-> c] IN t.phase = "kev"
    OBVIOUS
  <2> QED BY <1>3, <1>5, <2>1 DEF CommitNvd
<1>6. CASE ReadKev(p)
  <2>1. \A g, c, f : LET t == [phase |-> "found", files |-> g, correlate |-> c, found |-> f]
                     IN  t.phase = "found"
    OBVIOUS
  <2> QED BY <1>2, <1>3, <1>6, <2>1 DEF ReadKev
<1>7. CASE LockAudit(p)
  BY <1>2, <1>3, <1>7 DEF LockAudit
<1>8. CASE CommitKev(p)
  BY <1>2, <1>3, <1>8 DEF CommitKev
<1>9. CASE ReadAssets(p)
  <2>1. \A g, f : LET t == [phase |-> "catalog", files |-> g, firmware |-> f] IN t.phase = "catalog"
    OBVIOUS
  <2> QED BY <1>3, <1>9, <2>1, IdleShape DEF ReadAssets, Finish
<1> QED BY <1>4, <1>5, <1>6, <1>7, <1>8, <1>9

\* A correlation works through all assets there are.
LEMMA AllAssets ==
  ASSUME NEW s \in SetToSeqs(Assets)
  PROVE  s \in Seq(Assets) /\ Range(s) = Assets
<1> DEFINE n == Cardinality(Assets)
<1>1. n \in Nat /\ IsFiniteSet(Assets)
  BY FeedAssumption, FS_CardinalityType
<1>2. s \in [1..n -> Assets] /\ IsInjective(s)
  BY DEF SetToSeqs, IsInjective
<1>3. s \in Injection(1..n, Assets)
  BY <1>2 DEF Injection
<1>4. Cardinality(1..n) = n
  BY <1>1, FS_Interval
<1> HIDE DEF n
<1>5. s \in Surjection(1..n, Assets)
  BY <1>1, <1>3, <1>4, FS_Injection DEF n
<1>6. Range(s) = Assets
  BY <1>2, <1>5 DEF Surjection, Range
<1>7. s \in Seq(Assets)
  BY <1>1, <1>2
<1> QED BY <1>6, <1>7

LEMMA HeadAndTail ==
  ASSUME NEW s \in Seq(Assets), s # <<>>
  PROVE  /\ Head(s) \in Assets /\ Tail(s) \in Seq(Assets)
         /\ Range(s) \subseteq {Head(s)} \cup Range(Tail(s))
<1>1. Head(s) \in Assets /\ Tail(s) \in Seq(Assets)
  OBVIOUS
<1>2. ASSUME NEW i \in 1..Len(s), i # 1 PROVE s[i] \in Range(Tail(s))
  <2>1. i - 1 \in DOMAIN Tail(s) /\ Tail(s)[i - 1] = s[i]
    BY <1>2
  <2> QED BY <2>1 DEF Range
<1> QED BY <1>1, <1>2 DEF Range

LEMMA ReadExistingIsTruthful ==
  ASSUME IInv, Truthful, NEW p \in Procs, ReadExisting(p)
  PROVE  Truthful'
<1> DEFINE e == Existing(p, Head(txn[p].todo))
           t == [txn[p] EXCEPT !.phase = "upsert", !.existing = e]
<1>1. Correlating(p) /\ Fields \subseteq DOMAIN txn[p] /\ txn[p].todo # <<>>
  BY DEF ReadExisting, Correlating, IInv, Typed
<1>2. Set(p, t) /\ UNCHANGED <<matches, basis>>
  BY DEF ReadExisting
<1> HIDE DEF e
<1>3. Kept(t, txn[p])
  <2>1. /\ t.todo = txn[p].todo /\ t.writes = txn[p].writes /\ t.firmware = txn[p].firmware
        /\ t.catalog = txn[p].catalog /\ t.alone = txn[p].alone
    BY <1>1 DEF Fields
  <2> HIDE DEF t
  <2> QED BY <1>1, <2>1 DEF Kept
<1> HIDE DEF t
<1>4. \A q \in Procs : txn'[q] = IF q = p THEN t ELSE txn[q]
  BY <1>2 DEF Set, IInv, Typed
<1>5. ASSUME NEW q \in Procs, Correlating(q)'
      PROVE  Correlating(q) /\ Kept(txn'[q], txn[q])
  <2>1. CASE q = p
    BY <1>1, <1>3, <1>4, <2>1
  <2>2. CASE q # p
    <3>1. txn'[q] = txn[q] /\ Correlating(q)
      BY <1>4, <1>5, <2>2 DEF Correlating
    <3> QED BY <3>1 DEF Kept, Truthful, WorkTyped
  <2> QED BY <2>1, <2>2
<1> QED BY <1>2, <1>5, QuietStep

\* A correlation begins with all assets to do.
LEMMA ReadCatalogIsTruthful ==
  ASSUME IInv, Truthful, NEW p \in Procs, ReadCatalog(p)
  PROVE  Truthful'
<1>1. ~Correlating(p) /\ UNCHANGED <<matches, basis>>
  BY DEF ReadCatalog, Correlating
<1> DEFINE quiet == \A q \in Procs : ~Correlating(q)
           begun(order) ==
             [phase |-> "asset", files |-> txn[p].files, todo |-> order,
              firmware |-> txn[p].firmware, catalog |-> catalog, existing |-> {},
              writes |-> <<>>, new |-> {}, alone |-> quiet]
<1>2. PICK s \in SetToSeqs(Assets) : txn' = Overlapped([txn EXCEPT ![p] = begun(s)])
  BY Zenon DEF ReadCatalog
<1> DEFINE t == begun(s)
           u == [txn EXCEPT ![p] = t]
           d(q) == [u[q] EXCEPT !.alone = FALSE]
<1>3. txn' = Overlapped(u)
  BY <1>2
<1>4. t.phase = "asset" /\ t.todo = s /\ DOMAIN t.writes = {} /\ (t.alone <=> quiet)
  <2>1. quiet \in BOOLEAN
    OBVIOUS
  <2> HIDE DEF quiet
  <2> QED BY <2>1
<1> HIDE DEF t
<1>5. u[p] = t /\ \A q \in Procs \ {p} : u[q] = txn[q]
  BY DEF IInv, Typed
<1>6. \A q \in Procs : txn'[q] = IF Correlating(q) THEN d(q) ELSE u[q]
  BY <1>3 DEF Overlapped
<1>7. \A q \in Procs : Correlating(q) => q # p /\ Kept(d(q), txn[q]) /\ ~d(q).alone
  <2> SUFFICES ASSUME NEW q \in Procs, Correlating(q)
               PROVE  q # p /\ Kept(d(q), txn[q]) /\ ~d(q).alone
    OBVIOUS
  <2>1. /\ q # p /\ u[q] = txn[q] /\ Fields \subseteq DOMAIN txn[q]
        /\ txn[q].phase = "upsert" => txn[q].todo # <<>>
    BY <1>1, <1>5 DEF IInv, Typed, Truthful, WorkTyped
  <2> QED BY <2>1, OverlappedIsKept
<1> HIDE DEF u, d, quiet
<1>8. txn'[p] = t
  BY <1>1, <1>5, <1>6
<1>9. \A q \in Procs \ {p} : Correlating(q)' =>
        Correlating(q) /\ Kept(txn'[q], txn[q]) /\ ~txn'[q].alone
  <2> SUFFICES ASSUME NEW q \in Procs \ {p}, Correlating(q)'
               PROVE  Correlating(q) /\ Kept(txn'[q], txn[q]) /\ ~txn'[q].alone
    OBVIOUS
  <2>1. Correlating(q)
    BY <1>5, <1>6 DEF Correlating
  <2> QED BY <1>6, <1>7, <2>1
<1>10. s \in Seq(Assets) /\ Range(s) = Assets
  BY AllAssets
<1>11. WorkTyped'
  <2> SUFFICES ASSUME NEW q \in Procs, Correlating(q)'
               PROVE  /\ txn'[q].todo \in Seq(Assets) /\ RowsOfPairs(txn'[q].writes)
                      /\ txn'[q].phase = "upsert" => txn'[q].todo # <<>>
    BY <1>1 DEF WorkTyped, Truthful, RowsOfPairs
  <2>1. CASE q = p
    BY <1>4, <1>8, <1>10, <2>1 DEF RowsOfPairs
  <2>2. CASE q # p
    BY <1>9, <2>2 DEF Kept, Truthful, WorkTyped
  <2> QED BY <2>1, <2>2
<1>12. AloneIsJudged'
  <2> SUFFICES ASSUME NEW q \in Procs, Correlating(q)', txn'[q].alone
               PROVE  /\ \A o \in Procs \ {q} : ~Correlating(o)'
                      /\ \A a \in Assets : a \notin Range(txn'[q].todo)
                                             => Judged(Visible(q)', txn'[q], a)
    BY DEF AloneIsJudged
  <2>1. q = p
    BY <1>9
  <2>2. \A o \in Procs : ~Correlating(o)
    BY <1>4, <1>8, <2>1 DEF quiet
  <2> QED BY <1>4, <1>8, <1>9, <1>10, <2>1, <2>2
<1>13. BasisIsJudged'
  BY <1>1 DEF Truthful, BasisIsJudged, Judged
<1> QED BY <1>11, <1>12, <1>13 DEF Truthful

\* The rows that a correlation of an asset writes over the old ones.
Rewrites(rows, old, b, a, matched, stale) ==
  /\ matched = Matched(b, a)
  /\ stale = {c \in Cves : <<a, c>> \in DOMAIN old /\ old[<<a, c>>].status # "rejected"} \ matched
  /\ DOMAIN rows = {a} \X (matched \cup stale)
  /\ \A c \in matched : /\ rows[<<a, c>>].status = Match(b.firmware[a], b.catalog[c])
                        /\ rows[<<a, c>>].exploitable = b.catalog[c].exploited
  /\ \A c \in stale : rows[<<a, c>>].status = "rejected"

\* They make its asset judged, and leave what is judged of the others alone.
LEMMA UpsertJudges ==
  ASSUME NEW rows, NEW old, NEW b, NEW a, NEW matched, NEW stale,
         Rewrites(rows, old, b, a, matched, stale)
  PROVE  /\ Judged(Over(rows, old), b, a)
         /\ \A e \in Assets \ {a} : Judged(old, b, e) => Judged(Over(rows, old), b, e)
<1> USE DEF Rewrites, Matched
<1> DEFINE seen == Over(rows, old)
<1>1. /\ DOMAIN seen = DOMAIN rows \cup DOMAIN old
      /\ \A x \in DOMAIN seen : seen[x] = IF x \in DOMAIN rows THEN rows[x] ELSE old[x]
  BY DEF Over
<1> HIDE DEF seen
<1>2. ASSUME NEW c \in Cves
      PROVE  /\ <<a, c>> \in DOMAIN seen /\ seen[<<a, c>>].status # "rejected" <=> c \in matched
             /\ c \in matched => seen[<<a, c>>].exploitable = b.catalog[c].exploited
  <2>1. CASE c \in matched
    <3>1. <<a, c>> \in DOMAIN rows
      BY <2>1
    <3>2. seen[<<a, c>>] = rows[<<a, c>>] /\ <<a, c>> \in DOMAIN seen
      BY <1>1, <3>1
    <3>3. Match(b.firmware[a], b.catalog[c]) # "rejected"
      BY DEF Match
    <3> QED BY <2>1, <3>2, <3>3
  <2>2. CASE c \in stale
    <3>1. <<a, c>> \in DOMAIN rows
      BY <2>2
    <3>2. seen[<<a, c>>] = rows[<<a, c>>] /\ c \notin matched
      BY <1>1, <2>2, <3>1
    <3> QED BY <2>2, <3>2
  <2>3. CASE c \notin matched \cup stale
    <3>1. <<a, c>> \notin DOMAIN rows
      BY <2>3
    <3>2. <<a, c>> \in DOMAIN seen => <<a, c>> \in DOMAIN old /\ seen[<<a, c>>] = old[<<a, c>>]
      BY <1>1, <3>1
    <3> QED BY <2>3, <3>2
  <2> QED BY <2>1, <2>2, <2>3
<1>3. ASSUME NEW e \in Assets \ {a}, NEW c
      PROVE  /\ <<e, c>> \in DOMAIN seen <=> <<e, c>> \in DOMAIN old
             /\ <<e, c>> \in DOMAIN seen => seen[<<e, c>>] = old[<<e, c>>]
  <2>1. <<e, c>> \notin DOMAIN rows
    OBVIOUS
  <2> QED BY <1>1, <2>1
<1>4. Judged(seen, b, a)
  BY <1>2 DEF Judged
<1>5. ASSUME NEW e \in Assets \ {a}, Judged(old, b, e) PROVE Judged(seen, b, e)
  BY <1>3, <1>5 DEF Judged
<1> QED BY <1>4, <1>5 DEF seen

LEMMA VisibleRowsTyped ==
  ASSUME WorkTyped, NEW p \in Procs, Correlating(p)
  PROVE  RowsOfPairs(Visible(p))
BY DEF WorkTyped, RowsOfPairs, Visible, Over

LEMMA UpsertIsTruthful ==
  ASSUME IInv, Truthful, NEW p \in Procs, Upsert(p)
  PROVE  Truthful'
<1> DEFINE u == txn[p]
           a == Head(u.todo)
           matched == Matched(u, a)
           stale == Stale(p, a, matched)
           rows == Rows(p, a, matched)
           new == u.new \cup {a} \X (matched \ u.existing)
           t == [u EXCEPT !.phase = "asset", !.todo = Tail(@), !.writes = Over(rows, @), !.new = new]
           old == Visible(p)
<1>1. /\ u.phase = "upsert" /\ Correlating(p) /\ Fields \subseteq DOMAIN u
      /\ u.todo \in Seq(Assets) /\ u.todo # <<>>
  BY DEF Upsert, Correlating, IInv, Typed, Truthful, WorkTyped
<1>2. a \in Assets /\ Tail(u.todo) \in Seq(Assets) /\ Range(u.todo) \subseteq {a} \cup Range(Tail(u.todo))
  BY <1>1, HeadAndTail
<1>3. Set(p, t) /\ UNCHANGED <<matches, basis>>
  BY DEF Upsert
<1>4. DOMAIN rows = {a} \X (matched \cup stale)
  BY DEF Rows
<1>5. stale = {c \in Cves : <<a, c>> \in DOMAIN old /\ old[<<a, c>>].status # "rejected"} \ matched
  BY DEF Stale
<1>6. RowsOfPairs(old) /\ RowsOfPairs(u.writes)
  BY <1>1, VisibleRowsTyped DEF Truthful, WorkTyped
<1> DEFINE status(c) == Match(u.firmware[a], u.catalog[c])
<1>7. \A c \in matched : rows[<<a, c>>] = [status |-> status(c), exploitable |-> u.catalog[c].exploited]
  <2> SUFFICES ASSUME NEW c \in matched
               PROVE  rows[<<a, c>>] = [status |-> status(c), exploitable |-> u.catalog[c].exploited]
    OBVIOUS
  <2> HIDE DEF matched, a
  <2>1. <<a, c>> \in {a} \X (matched \cup Stale(p, a, matched)) /\ <<a, c>>[2] = c
    OBVIOUS
  <2> QED BY <2>1 DEF Rows
<1>8. \A c \in stale : /\ "status" \in DOMAIN rows[<<a, c>>]
                       /\ rows[<<a, c>>].status = "rejected"
  <2> SUFFICES ASSUME NEW c \in stale
               PROVE  "status" \in DOMAIN rows[<<a, c>>] /\ rows[<<a, c>>].status = "rejected"
    OBVIOUS
  <2>1. c \notin matched /\ <<a, c>> \in DOMAIN old /\ "status" \in DOMAIN old[<<a, c>>]
    BY <1>5, <1>6 DEF RowsOfPairs
  <2> HIDE DEF matched, a
  <2>2. <<a, c>> \in {a} \X (matched \cup Stale(p, a, matched)) /\ <<a, c>>[2] = c
    OBVIOUS
  <2>3. rows[<<a, c>>] = [old[<<a, c>>] EXCEPT !.status = "rejected"]
    BY <2>1, <2>2 DEF Rows
  <2> HIDE DEF rows, old
  <2> QED BY <2>1, <2>3
<1>9. \A c \in matched : /\ rows[<<a, c>>].status = status(c)
                         /\ rows[<<a, c>>].exploitable = u.catalog[c].exploited
                         /\ "status" \in DOMAIN rows[<<a, c>>]
  <2> HIDE DEF rows, matched, status
  <2> SUFFICES ASSUME NEW c \in matched
               PROVE  /\ rows[<<a, c>>].status = status(c)
                      /\ rows[<<a, c>>].exploitable = u.catalog[c].exploited
                      /\ "status" \in DOMAIN rows[<<a, c>>]
    OBVIOUS
  <2>1. rows[<<a, c>>] = [status |-> status(c), exploitable |-> u.catalog[c].exploited]
    BY <1>7
  <2> QED BY <2>1
<1>10. matched \subseteq Cves /\ stale \subseteq Cves
  BY <1>5 DEF Matched
<1>11. matched = Matched(u, a)
  OBVIOUS
<1>12. \A c \in matched : rows[<<a, c>>].status = Match(u.firmware[a], u.catalog[c])
  BY <1>9
<1> HIDE DEF rows, matched, stale, new, status
<1>13. /\ t.phase = "asset" /\ t.todo = Tail(u.todo) /\ t.writes = Over(rows, u.writes)
       /\ t.firmware = u.firmware /\ t.catalog = u.catalog /\ t.alone = u.alone
  BY <1>1 DEF Fields
<1>14. RowsOfPairs(t.writes)
  <2>1. RowsOfPairs(rows)
    <3> SUFFICES ASSUME NEW x \in DOMAIN rows PROVE x \in Pairs /\ "status" \in DOMAIN rows[x]
      BY DEF RowsOfPairs
    <3>1. PICK c \in matched \cup stale : x = <<a, c>>
      BY <1>4
    <3> QED BY <1>2, <1>8, <1>9, <1>10, <3>1 DEF Pairs
  <2> QED BY <1>6, <1>13, <2>1 DEF RowsOfPairs, Over
<1> HIDE DEF t
<1>15. \A q \in Procs : txn'[q] = IF q = p THEN t ELSE txn[q]
  BY <1>3 DEF Set, IInv, Typed
<1>16. \A q \in Procs : Correlating(q)' <=> Correlating(q)
  BY <1>1, <1>13, <1>15 DEF Correlating
<1>17. Visible(p)' = Over(rows, old)
  <2>1. Visible(p)' = Over(t.writes, matches)
    BY <1>3, <1>15 DEF Visible
  <2>2. Over(Over(rows, u.writes), matches) = Over(rows, Over(u.writes, matches))
    BY DEF Over
  <2>3. old = Over(u.writes, matches)
    BY DEF Visible
  <2> QED BY <1>13, <2>1, <2>2, <2>3
<1>18. WorkTyped'
  <2> SUFFICES ASSUME NEW q \in Procs, Correlating(q)'
               PROVE  /\ txn'[q].todo \in Seq(Assets) /\ RowsOfPairs(txn'[q].writes)
                      /\ txn'[q].phase = "upsert" => txn'[q].todo # <<>>
    BY <1>3 DEF WorkTyped, Truthful, RowsOfPairs
  <2>1. CASE q = p
    BY <1>2, <1>13, <1>14, <1>15, <2>1
  <2>2. CASE q # p
    BY <1>15, <1>16, <2>2 DEF Truthful, WorkTyped
  <2> QED BY <2>1, <2>2
<1>19. AloneIsJudged'
  <2> SUFFICES ASSUME NEW q \in Procs, Correlating(q)', txn'[q].alone
               PROVE  /\ \A o \in Procs \ {q} : ~Correlating(o)'
                      /\ \A b \in Assets : b \notin Range(txn'[q].todo)
                                             => Judged(Visible(q)', txn'[q], b)
    BY DEF AloneIsJudged
  <2>1. q = p /\ u.alone
    <3>1. CASE q # p
      BY <1>1, <1>15, <1>16, <3>1 DEF Truthful, AloneIsJudged
    <3>2. CASE q = p
      BY <1>13, <1>15, <3>2
    <3> QED BY <3>1, <3>2
  <2>2. /\ \A o \in Procs \ {p} : ~Correlating(o)
        /\ \A b \in Assets : b \notin Range(u.todo) => Judged(old, u, b)
    BY <1>1, <2>1 DEF Truthful, AloneIsJudged
  <2> DEFINE seen == Over(rows, old)
  <2> HIDE DEF old, a, u
  <2>3. Judged(seen, u, a) /\ \A b \in Assets \ {a} : Judged(old, u, b) => Judged(seen, u, b)
    <3>1. \A c \in matched : /\ rows[<<a, c>>].status = Match(u.firmware[a], u.catalog[c])
                             /\ rows[<<a, c>>].exploitable = u.catalog[c].exploited
      BY <1>9, <1>12
    <3>2. \A c \in stale : rows[<<a, c>>].status = "rejected"
      BY <1>8
    <3>3. Rewrites(rows, old, u, a, matched, stale)
      BY <1>4, <1>5, <1>11, <3>1, <3>2 DEF Rewrites
    <3> QED BY <3>3, UpsertJudges
  <2>4. ASSUME NEW b \in Assets, b \notin Range(t.todo) PROVE Judged(seen, t, b)
    <3>1. Judged(seen, u, b)
      BY <1>2, <1>13, <2>2, <2>3, <2>4
    <3> QED BY <1>13, <3>1 DEF Judged
  <2>5. Visible(p)' = seen /\ txn'[p] = t
    BY <1>15, <1>17
  <2> HIDE DEF seen
  <2> QED BY <1>16, <2>1, <2>2, <2>4, <2>5
<1>20. BasisIsJudged'
  BY <1>3 DEF Truthful, BasisIsJudged, Judged
<1> QED BY <1>18, <1>19, <1>20 DEF Truthful

\* A correlation that ends alone has judged all assets.
LEMMA CommitMatchesIsTruthful ==
  ASSUME IInv, Truthful, NEW p \in Procs, CommitMatches(p)
  PROVE  Truthful'
<1>1. /\ Correlating(p) /\ txn' = [q \in Procs |-> IF q = p THEN Idle ELSE txn[q]]
      /\ txn[p].todo = <<>> /\ matches' = Visible(p)
  BY DEF CommitMatches, Correlating, Finish, Set, IInv, Typed
<1>2. \A q \in Procs : Correlating(q)' => q # p /\ Correlating(q) /\ txn'[q] = txn[q]
  BY <1>1, IdleShape DEF Correlating
<1>3. WorkTyped'
  <2>1. RowsOfPairs(matches')
    BY <1>1, VisibleRowsTyped DEF Truthful
  <2> QED BY <1>2, <2>1 DEF WorkTyped, Truthful, RowsOfPairs
<1>4. AloneIsJudged'
  BY <1>1, <1>2 DEF Truthful, AloneIsJudged
<1>5. BasisIsJudged'
  <2> SUFFICES ASSUME NEW b \in basis', NEW a \in Assets PROVE Judged(matches', b, a)
    BY DEF BasisIsJudged
  <2>1. txn[p].alone /\ b.firmware = txn[p].firmware /\ b.catalog = txn[p].catalog
    BY DEF CommitMatches
  <2>2. a \notin Range(txn[p].todo)
    <3>1. Range(<<>>) = {}
      BY DEF Range
    <3> QED BY <1>1, <3>1
  <2>3. Judged(Visible(p), txn[p], a)
    BY <1>1, <2>1, <2>2 DEF Truthful, AloneIsJudged
  <2> QED BY <1>1, <2>1, <2>3 DEF Judged
<1> QED BY <1>3, <1>4, <1>5 DEF Truthful

-----------------------------------------------------------------------------
LEMMA StaysTruthful == IInv /\ Truthful /\ [Next]_vars => Truthful'
<1> SUFFICES ASSUME IInv, Truthful, [Next]_vars PROVE Truthful'
  OBVIOUS
<1>1. CASE UNCHANGED vars
  <2>1. \A q \in Procs : Correlating(q)' => Correlating(q) /\ Kept(txn'[q], txn[q])
    BY <1>1 DEF vars, Kept, Correlating, Truthful, WorkTyped
  <2> QED BY <1>1, <2>1, QuietStep DEF vars
<1>2. ASSUME NEW p \in Procs, Process(p) \/ Fails(p) \/ Crash(p)
      PROVE  Truthful'
  BY <1>2, FeedIsTruthful, ReadCatalogIsTruthful, ReadExistingIsTruthful,
     UpsertIsTruthful, CommitMatchesIsTruthful, EndIsTruthful DEF Process
<1> QED BY <1>1, <1>2, EnvironmentIsTruthful, StartIsTruthful DEF Next

\* After a correlation that no other overlapped, the matches and the risk of every
\* asset are the ones that the firmware and the catalog which it read give,
\* whatever was observed and imported meanwhile and since (correlate_assets).
THEOREM RiskStaysAsRead == Spec => []RiskIsAsRead
<1>1. Truthful => RiskIsAsRead
  BY JudgedIsAsRead DEF Truthful
<1> QED BY <1>1, Initially, Inductive, InitiallyTruthful, StaysTruthful, PTL DEF Spec

-----------------------------------------------------------------------------
(* Types.  What a process works on is a file of each kind or none, and the   *)
(* page it has imported is one of those that can be read.                    *)

Phases == {"idle", "nvd", "imported", "kev", "found", "flush", "select", "catalog", "asset",
           "upsert"}
Row == [listed : BOOLEAN, affects : SUBSET Versions, exploited : BOOLEAN]

Named(t) ==
  /\ "phase" \in DOMAIN t /\ t.phase \in Phases
  /\ t.phase # "idle" => "files" \in DOMAIN t /\ t.files \in Files
  /\ t.phase = "imported" => t.page \in DOMAIN Nvd

AllNamed == \A p \in Procs : Named(txn[p])

TablesTyped ==
  /\ directory \in Files /\ processed \in Files
  /\ firmware \in [Assets -> Versions \cup {Unknown}]
  /\ catalog \in [Cves -> Row]
  /\ auditLock \in Procs \cup {None}

LEMMA IdleIsNamed == Named(Idle)
BY DEF Named, Idle, Phases

LEMMA OverlappedIsNamed ==
  ASSUME NEW r, Named(r)
  PROVE  Named([r EXCEPT !.alone = FALSE])
<1> DEFINE no == FALSE
<1>1. ASSUME NEW b
      PROVE  Named([r EXCEPT !.alone = b])
  <2> DEFINE t == [r EXCEPT !.alone = b]
  <2>1. DOMAIN t = DOMAIN r /\ t.phase = r.phase /\ ("files" \in DOMAIN r => t.files = r.files)
                                   /\ t.page = r.page
    BY DEF Named
  <2> HIDE DEF t
  <2>2. Named(t)
    BY <2>1 DEF Named
  <2> QED BY <2>2 DEF t
<1>2. Named([r EXCEPT !.alone = no])
  <2> HIDE DEF no
  <2> QED BY <1>1
<1> QED BY <1>2

\* A process that goes on has the files it had.
LEMMA PhaseIsNamed ==
  ASSUME NEW r, Named(r), r.phase # "idle", NEW phase \in Phases \ {"idle"},
         phase # "imported"
  PROVE  Named([r EXCEPT !.phase = phase])
<1> DEFINE t == [r EXCEPT !.phase = phase]
<1>1. DOMAIN t = DOMAIN r /\ t.phase = phase /\ t.files = r.files
  BY DEF Named
<1> HIDE DEF t
<1>2. Named(t)
  BY <1>1 DEF Named
<1> QED BY <1>2 DEF t

LEMMA SetNamed ==
  ASSUME Typed, AllNamed, NEW p \in Procs, NEW t, Named(t), Set(p, t)
  PROVE  AllNamed'
<1>1. \A q \in Procs : txn'[q] = IF q = p THEN t ELSE txn[q]
  BY DEF Set, Typed
<1>2. \A q \in Procs : Named(txn'[q])
  BY <1>1 DEF AllNamed
<1> QED BY <1>2 DEF AllNamed, Named

LEMMA OverlappedNamed ==
  ASSUME NEW u, \A p \in Procs : Named(u[p]), txn' = Overlapped(u)
  PROVE  AllNamed'
<1>1. ASSUME NEW p \in Procs PROVE Named(txn'[p])
  <2>1. txn'[p] = IF Correlating(p) THEN [u[p] EXCEPT !.alone = FALSE] ELSE u[p]
    BY DEF Overlapped
  <2> QED BY <2>1, OverlappedIsNamed
<1> QED BY <1>1 DEF AllNamed, Named

\* The feeds: what is read, imported, looked up and applied.
LEMMA FeedNamed ==
  ASSUME Typed, AllNamed, NEW p \in Procs,
         UpsertNvd(p) \/ CommitNvd(p) \/ ReadKev(p) \/ LockAudit(p) \/ CommitKev(p)
  PROVE  AllNamed'
<1> DEFINE u == txn[p]
<1>1. Named(u)
  BY DEF AllNamed
<1>2. u.phase \in {"nvd", "imported", "kev", "found", "flush"}
  BY DEF UpsertNvd, CommitNvd, ReadKev, LockAudit, CommitKev
<1>3. ASSUME NEW phase \in Phases \ {"idle", "imported"}, Set(p, [u EXCEPT !.phase = phase])
      PROVE  AllNamed'
  <2>1. Named([u EXCEPT !.phase = phase])
    BY <1>1, <1>2, PhaseIsNamed
  <2> QED BY <1>3, <2>1, SetNamed
<1>4. ASSUME NEW t, Set(p, t), "phase" \in DOMAIN t, "files" \in DOMAIN t, t.files = u.files,
             t.phase \in Phases, t.phase = "imported" => t.page \in DOMAIN Nvd
      PROVE  AllNamed'
  <2>1. Named(t)
    BY <1>1, <1>2, <1>4 DEF Named
  <2> QED BY <1>4, <2>1, SetNamed
<1>5. CASE UpsertNvd(p)
  <2>1. CASE Set(p, [u EXCEPT !.phase = "kev"])
    BY <2>1, <1>3 DEF Phases
  <2>2. ASSUME NEW c, NEW n \in DOMAIN Nvd,
               Set(p, [phase |-> "imported", files |-> u.files, correlate |-> c, page |-> n])
        PROVE  AllNamed'
    BY <2>2, <1>4 DEF Phases
  <2> QED BY <1>5, <2>1, <2>2 DEF UpsertNvd
<1>6. CASE CommitNvd(p)
  <2>1. ASSUME NEW c, Set(p, [phase |-> "kev", files |-> u.files, correlate |-> c])
        PROVE  AllNamed'
    BY <2>1, <1>4 DEF Phases
  <2> QED BY <1>6, <2>1 DEF CommitNvd
<1>7. CASE ReadKev(p)
  <2>1. CASE Set(p, [u EXCEPT !.phase = "select"])
    BY <2>1, <1>3 DEF Phases
  <2>2. ASSUME NEW c, NEW f, Set(p, [phase |-> "found", files |-> u.files, correlate |-> c, found |-> f])
        PROVE  AllNamed'
    BY <2>2, <1>4 DEF Phases
  <2> QED BY <1>7, <2>1, <2>2 DEF ReadKev
<1>8. CASE LockAudit(p)
  BY <1>8, <1>3 DEF LockAudit, Phases
<1>9. CASE CommitKev(p)
  BY <1>9, <1>3 DEF CommitKev, Phases
<1> QED BY <1>5, <1>6, <1>7, <1>8, <1>9

\* Correlation.
LEMMA CorrelationNamed ==
  ASSUME Typed, AllNamed, NEW p \in Procs,
         ReadAssets(p) \/ ReadCatalog(p) \/ ReadExisting(p) \/ Upsert(p) \/ CommitMatches(p)
  PROVE  AllNamed'
<1> DEFINE u == txn[p]
<1>1. Named(u)
  BY DEF AllNamed
<1>2. u.files \in Files /\ u.phase \in {"select", "catalog", "asset", "upsert"}
  BY <1>1 DEF ReadAssets, ReadCatalog, ReadExisting, Upsert, CommitMatches, Named
<1>3. ASSUME Set(p, Idle) PROVE AllNamed'
  BY <1>3, IdleIsNamed, SetNamed
<1>4. ASSUME NEW t, Set(p, t), "phase" \in DOMAIN t, "files" \in DOMAIN t, t.files = u.files,
             t.phase \in {"catalog", "asset", "upsert"}
      PROVE  AllNamed'
  <2>1. Named(t)
    BY <1>2, <1>4 DEF Named, Phases
  <2> QED BY <1>4, <2>1, SetNamed
<1>5. CASE ReadAssets(p)
  <2>1. ASSUME NEW f, Set(p, [phase |-> "catalog", files |-> u.files, firmware |-> f])
        PROVE  AllNamed'
    BY <2>1, <1>4
  <2> QED BY <1>3, <1>5, <2>1 DEF ReadAssets, Finish
<1>6. CASE ReadCatalog(p)
  <2> DEFINE quiet == \A q \in Procs : ~Correlating(q)
             begun(order) ==
               [phase |-> "asset", files |-> u.files, todo |-> order,
                firmware |-> u.firmware, catalog |-> catalog, existing |-> {},
                writes |-> <<>>, new |-> {}, alone |-> quiet]
  <2>1. PICK order \in SetToSeqs(Assets) : txn' = Overlapped([txn EXCEPT ![p] = begun(order)])
    BY <1>6, Zenon DEF ReadCatalog
  <2> DEFINE t == begun(order)
             v == [txn EXCEPT ![p] = t]
  <2>2. Named(t)
    <3> HIDE DEF quiet
    <3> QED BY <1>2 DEF Named, Phases
  <2>3. txn' = Overlapped(v)
    BY <2>1
  <2> HIDE DEF t
  <2>4. \A q \in Procs : v[q] = IF q = p THEN t ELSE txn[q]
    BY DEF Typed
  <2>5. \A q \in Procs : Named(v[q])
    BY <2>2, <2>4 DEF AllNamed
  <2> HIDE DEF v
  <2> QED BY <2>3, <2>5, OverlappedNamed
<1>7. CASE ReadExisting(p)
  <2> DEFINE e == Existing(p, Head(u.todo))
             t == [u EXCEPT !.phase = "upsert", !.existing = e]
  <2>1. Set(p, t)
    BY <1>7 DEF ReadExisting
  <2>2. /\ "phase" \in DOMAIN u /\ "files" \in DOMAIN u
    BY <1>1, <1>2 DEF Named
  <2> HIDE DEF e
  <2>3. "phase" \in DOMAIN t /\ "files" \in DOMAIN t /\ t.files = u.files /\ t.phase = "upsert"
    BY <2>2
  <2> HIDE DEF t
  <2> QED BY <1>4, <2>1, <2>3
<1>8. CASE Upsert(p)
  <2>1. PICK todo, writes, new :
          Set(p, [u EXCEPT !.phase = "asset", !.todo = todo, !.writes = writes, !.new = new])
    BY <1>8 DEF Upsert
  <2> DEFINE t == [u EXCEPT !.phase = "asset", !.todo = todo, !.writes = writes, !.new = new]
  <2>2. /\ "phase" \in DOMAIN u /\ "files" \in DOMAIN u
    BY <1>1, <1>2 DEF Named
  <2>3. "phase" \in DOMAIN t /\ "files" \in DOMAIN t /\ t.files = u.files /\ t.phase = "asset"
    BY <2>2
  <2>4. Set(p, t)
    BY <2>1
  <2> HIDE DEF t
  <2> QED BY <1>4, <2>3, <2>4
<1>9. CASE CommitMatches(p)
  BY <1>3, <1>9 DEF CommitMatches, Finish
<1> QED BY <1>5, <1>6, <1>7, <1>8, <1>9

LEMMA NamedStep ==
  ASSUME Typed, AllNamed, directory \in Files, [Next]_vars
  PROVE  AllNamed'
<1>1. CASE UNCHANGED txn
  BY <1>1 DEF AllNamed, Named
<1>2. ASSUME NEW files \in Transfers, Arrive(files) PROVE UNCHANGED txn
  BY <1>2 DEF Arrive
<1>3. ASSUME NEW a, NEW version, Observe(a, version) PROVE UNCHANGED txn
  BY <1>3 DEF Observe
<1>4. ASSUME NEW p \in Procs, NEW files \in Files, NEW correlate, Start(p, files, correlate)
      PROVE  AllNamed'
  <2> DEFINE t == [phase |-> "nvd", files |-> files, correlate |-> correlate]
  <2>1. Named(t)
    BY DEF Named, Phases
  <2>2. Set(p, t)
    BY <1>4 DEF Start
  <2> HIDE DEF t
  <2> QED BY <2>1, <2>2, SetNamed
<1>5. ASSUME Watch PROVE AllNamed'
  <2> DEFINE b == TRUE
  <2>1. Start(Watcher, directory, b)
    BY <1>5 DEF Watch
  <2> HIDE DEF b
  <2> QED BY <1>4, <2>1 DEF Procs
<1>6. ASSUME NEW p \in Operators, NEW files \in Jobs, NEW correlate, RunByHand(p, files, correlate)
      PROVE  AllNamed'
  BY <1>4, <1>6, FeedAssumption DEF RunByHand, Procs
<1>7. ASSUME NEW p \in Procs, Set(p, Idle) PROVE AllNamed'
  BY <1>7, IdleIsNamed, SetNamed
<1>8. ASSUME NEW p \in Procs, Fails(p) \/ Crash(p) \/ \E q \in Procs : BreakDeadlock(p, q)
      PROVE  AllNamed'
  BY <1>7, <1>8 DEF Fails, Crash, Die, BreakDeadlock
<1>9. ASSUME NEW p \in Procs, Process(p) PROVE AllNamed'
  BY <1>8, <1>9, FeedNamed, CorrelationNamed DEF Process
<1>10. CASE UNCHANGED vars
  BY <1>1, <1>10 DEF vars
<1> QED BY <1>1, <1>2, <1>3, <1>5, <1>6, <1>8, <1>9, <1>10 DEF Next

\* An import leaves rows of the catalog, and so does the overlay.
LEMMA CatalogTyped ==
  ASSUME TablesTyped, AllNamed, [Next]_vars
  PROVE  catalog' \in [Cves -> Row]
<1>1. CASE UNCHANGED catalog
  BY <1>1 DEF TablesTyped
<1>2. ASSUME NEW p \in Procs, CommitNvd(p) PROVE catalog' \in [Cves -> Row]
  <2> DEFINE page == Page(p)
  <2>1. \A c \in DOMAIN page : page[c] \subseteq Versions
    <3>1. txn[p].page \in DOMAIN Nvd
      BY <1>2 DEF CommitNvd, AllNamed, Named
    <3> QED BY <3>1, FeedAssumption DEF Page
  <2>2. catalog' = Imported(page)
    BY <1>2 DEF CommitNvd
  <2> HIDE DEF page
  <2>3. ASSUME NEW c \in Cves, c \in DOMAIN page
        PROVE  [catalog[c] EXCEPT !.listed = TRUE, !.affects = page[c]] \in Row
    <3>1. catalog[c] \in Row /\ page[c] \in SUBSET Versions
      BY <2>1, <2>3 DEF TablesTyped
    <3>2. \A b \in BOOLEAN, s \in SUBSET Versions, r \in Row :
            [r EXCEPT !.listed = b, !.affects = s] \in Row
      BY DEF Row
    <3> DEFINE yes == TRUE
    <3>3. yes \in BOOLEAN
      OBVIOUS
    <3>4. [catalog[c] EXCEPT !.listed = yes, !.affects = page[c]] \in Row
      <4> HIDE DEF yes
      <4> QED BY <3>1, <3>2, <3>3
    <3> QED BY <3>4
  <2> QED BY <2>2, <2>3 DEF Imported, TablesTyped
<1>3. ASSUME NEW p \in Procs, CommitKev(p) PROVE catalog' \in [Cves -> Row]
  <2>1. \A b \in BOOLEAN, r \in Row : [r EXCEPT !.exploited = b] \in Row
    BY DEF Row
  <2>2. ASSUME NEW c \in Cves
        PROVE  [catalog[c] EXCEPT !.exploited = @ \/ c \in txn[p].found] \in Row
    <3> DEFINE b == catalog[c].exploited \/ c \in txn[p].found
    <3>1. catalog[c] \in Row /\ b \in BOOLEAN
      BY DEF TablesTyped
    <3>2. [catalog[c] EXCEPT !.exploited = b] \in Row
      <4> HIDE DEF b
      <4> QED BY <2>1, <3>1
    <3> QED BY <3>2
  <2> QED BY <1>3, <2>2 DEF CommitKev
<1> QED BY <1>1, <1>2, <1>3 DEF Next, Process, Arrive, Observe, Watch, RunByHand, Start, Fails,
       Crash, Die, UpsertNvd, ReadKev, LockAudit, ReadAssets, ReadCatalog, ReadExisting, Upsert, CommitMatches,
       BreakDeadlock, vars

\* What the watcher is through with is what it has read.
LEMMA FinishTyped ==
  ASSUME TablesTyped, AllNamed, NEW p \in Procs, txn[p].phase # "idle", Finish(p)
  PROVE  processed' \in Files
BY DEF Finish, TablesTyped, AllNamed, Named

LEMMA TablesStep ==
  ASSUME TablesTyped, AllNamed, [Next]_vars
  PROVE  TablesTyped'
<1> DEFINE Rest == /\ directory' \in Files /\ processed' \in Files
                   /\ firmware' \in [Assets -> Versions \cup {Unknown}]
                   /\ auditLock' \in Procs \cup {None}
<1>1. ASSUME UNCHANGED <<directory, processed, firmware, auditLock>> PROVE Rest
  BY <1>1 DEF TablesTyped
<1>2. ASSUME NEW files \in Transfers, Arrive(files) PROVE Rest
  BY <1>2, FeedAssumption DEF Arrive, TablesTyped
<1>3. ASSUME NEW a \in Assets, NEW version \in Versions, Observe(a, version) PROVE Rest
  BY <1>3 DEF Observe, TablesTyped
<1>4. ASSUME Watch \/ \E p \in Operators, files \in Jobs, correlate \in BOOLEAN : RunByHand(p, files, correlate)
      PROVE  UNCHANGED <<directory, processed, firmware, auditLock>>
  BY <1>4 DEF Watch, RunByHand, Start
<1>5. ASSUME NEW p \in Procs, Die(p) PROVE Rest
  <2>1. NoFiles \in Files
    BY DEF NoFiles, Files
  <2> QED BY <1>5, <2>1 DEF Die, TablesTyped
<1>6. ASSUME NEW p \in Procs, Fails(p) PROVE Rest
  BY <1>1, <1>5, <1>6 DEF Fails
<1>7. ASSUME NEW p \in Procs, ReadAssets(p) \/ CommitMatches(p) PROVE Rest
  <2>1. UNCHANGED processed \/ (txn[p].phase # "idle" /\ Finish(p))
    BY <1>7 DEF ReadAssets, CommitMatches
  <2>2. UNCHANGED <<directory, firmware, auditLock>>
    BY <1>7 DEF ReadAssets, CommitMatches
  <2> QED BY <2>1, <2>2, FinishTyped DEF TablesTyped
<1>8. ASSUME NEW p \in Procs, UpsertNvd(p) \/ CommitNvd(p) \/ ReadKev(p) \/ LockAudit(p) \/ CommitKev(p)
                              \/ ReadCatalog(p) \/ ReadExisting(p) \/ Upsert(p)
      PROVE  auditLock' \in {auditLock, p, None} /\ UNCHANGED <<directory, processed, firmware>>
  BY <1>8 DEF UpsertNvd, CommitNvd, ReadKev, LockAudit, CommitKev, ReadCatalog, ReadExisting, Upsert
<1>9. ASSUME NEW p \in Procs, Process(p) \/ Fails(p) \/ Crash(p) PROVE Rest
  <2>1. CASE \E q \in Procs : Die(q)
    BY <1>5, <2>1
  <2>2. CASE Process(p) /\ ~\E q \in Procs : Die(q)
    BY <1>7, <1>8, <2>2 DEF Process, BreakDeadlock, TablesTyped
  <2> QED BY <1>1, <1>6, <1>9, <2>1, <2>2 DEF Crash
<1>10. ASSUME UNCHANGED vars PROVE Rest
  BY <1>1, <1>10 DEF vars
<1> HIDE DEF Rest
<1>11. Rest
  BY <1>1, <1>2, <1>3, <1>4, <1>9, <1>10 DEF Next
<1> QED BY <1>11, CatalogTyped DEF Rest, TablesTyped

LEMMA TablesKept == Spec => [](AllNamed /\ TablesTyped)
<1>1. Init => AllNamed /\ TablesTyped
  <2> SUFFICES ASSUME Init PROVE AllNamed /\ TablesTyped
    OBVIOUS
  <2>1. AllNamed
    BY IdleIsNamed DEF Init, AllNamed
  <2>2. NoFiles \in Files
    BY DEF NoFiles, Files
  <2>3. \A c \in Cves : [listed |-> FALSE, affects |-> {}, exploited |-> FALSE] \in Row
    BY DEF Row
  <2> QED BY <2>1, <2>2, <2>3 DEF Init, TablesTyped
<1>2. IInv /\ AllNamed /\ TablesTyped /\ [Next]_vars => AllNamed' /\ TablesTyped'
  BY NamedStep, TablesStep DEF IInv, TablesTyped
<1> QED BY <1>1, <1>2, Initially, Inductive, PTL DEF Spec

\* The catalog, the matches, the alerts and every process keep their types, and
\* the watcher remembers only files that there can be.
THEOREM TypeCorrect == Spec => []TypeOK
<1>1. IInv /\ Truthful /\ AllNamed /\ TablesTyped => TypeOK
  BY DEF IInv, Typed, Truthful, WorkTyped, RowsOfPairs, Pairs, AllNamed, Named, Phases,
     TablesTyped, Row, TypeOK
<1> QED BY <1>1, Initially, Inductive, InitiallyTruthful, StaysTruthful, TablesKept, PTL DEF Spec
=============================================================================
