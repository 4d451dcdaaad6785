-------------------------- MODULE VulnerabilityFeeds -------------------------
(***************************************************************************)
(* Offline vulnerability feeds (cve/): the feed worker watches a directory  *)
(* and, when its newest files change, imports the NVD page, applies the KEV *)
(* catalog and correlates all assets with the catalog, each in a            *)
(* transaction of its own; an operator may run the same by hand.  The score *)
(* of an asset is computed from its matches when it is looked at (risk.py). *)
(*                                                                          *)
(* An import has its rows when it waits for the audit lock, the KEV overlay *)
(* has the audit lock when it waits for its rows, and statements that lock  *)
(* several rows, here one step, lock them one by one and in no fixed order: *)
(* PostgreSQL aborts one of two that wait for each other, which ends its    *)
(* process.                                                                 *)
(***************************************************************************)
EXTENDS Integers, Sequences, FiniteSetsExt, SequencesExt, Functions

CONSTANTS Assets, Cves,
          Nvd,         \* NVD file -> the CVEs in it -> firmware versions affected
          Kev,         \* KEV file -> the CVEs in it
          Broken,      \* a file that cannot be read
          Cvss,        \* CVE -> its score
          Watcher, Operators,
          Unknown,     \* no firmware version observed
          None,
          Versions,
          Transfers,   \* bound on the files put into the directory
          Jobs,        \* bound on the files an operator names
          MaxTransfers, MaxUpdates, MaxRuns, MaxFaults  \* bounds on how often

Files == [nvd : DOMAIN Nvd \cup {Broken, None}, kev : DOMAIN Kev \cup {Broken, None}]

ASSUME FeedAssumption ==
  /\ \A n \in DOMAIN Nvd : DOMAIN Nvd[n] \subseteq Cves /\ \A c \in DOMAIN Nvd[n] : Nvd[n][c] \subseteq Versions
  /\ \A k \in DOMAIN Kev : Kev[k] \subseteq Cves
  /\ Transfers \subseteq Files /\ Jobs \subseteq Files
  /\ IsFiniteSet(Assets)
  /\ Cvss \in [Cves -> 0..10] /\ Watcher \notin Operators /\ Unknown \notin Versions

VARIABLES directory,   \* the newest file of each kind
          firmware,    \* of the assets with vendor and model
          catalog,     \* vulnerabilities
          matches,     \* cve_matches
          alerts,      \* <<asset, CVE>> -> alerts queued
          auditLock,
          processed,   \* files the watcher is through with
          txn,         \* what each process is doing
          basis,       \* history: what the last correlation had read, if no other overlapped it
          overlapped,  \* history: correlations have overlapped
          count        \* of what is bounded

vars == <<directory, firmware, catalog, matches, alerts, auditLock, processed, txn,
          basis, overlapped, count>>

Procs == {Watcher} \cup Operators
Idle == [phase |-> "idle"]
NoFiles == [nvd |-> None, kev |-> None]
Bounds == [files |-> MaxTransfers, updates |-> MaxUpdates, runs |-> MaxRuns, faults |-> MaxFaults]
Count(what) == count[what] < Bounds[what] /\ count' = [count EXCEPT ![what] = @ + 1]

-----------------------------------------------------------------------------
\* match_asset.
Match(version, v) ==
  IF ~v.listed \/ v.affects = {} THEN "none"
  ELSE IF version = Unknown THEN "candidate"
  ELSE IF version \in v.affects THEN "confirmed" ELSE "none"

\* calculate_risk: the part of the score that comes from known vulnerabilities.
Risk(scores, exploited) ==
  LET highest == 10 * Max(scores \cup {0}) IN
  IF exploited /\ highest < 90 THEN 90 ELSE highest

\* calculate_asset_risks.
AssetRisk(a) ==
  LET rows == {p \in DOMAIN matches : p[1] = a /\ matches[p].status # "rejected"}
  IN  Risk({Cvss[p[2]] : p \in rows}, \E p \in rows : matches[p].exploitable)

\* Mutant: the overlay of an earlier KEV file is reset by an import.
ImportedAsNew(page) ==
  [c \in Cves |-> IF c \in DOMAIN page
                  THEN [listed |-> TRUE, affects |-> page[c], exploited |-> FALSE] ELSE catalog[c]]

\* import_nvd_document: the KEV overlay of a CVE that is there is left alone.
Imported(page) ==
  [c \in Cves |-> IF c \in DOMAIN page
                  THEN [catalog[c] EXCEPT !.listed = TRUE, !.affects = page[c]] ELSE catalog[c]]

-----------------------------------------------------------------------------
Init ==
  /\ directory = NoFiles /\ processed = NoFiles
  /\ firmware = [a \in Assets |-> Unknown]
  /\ catalog = [c \in Cves |-> [listed |-> FALSE, affects |-> {}, exploited |-> FALSE]]
  /\ matches = <<>> /\ alerts = [p \in Assets \X Cves |-> 0] /\ auditLock = None
  /\ txn = [p \in Procs |-> Idle]
  /\ basis = {} /\ overlapped = FALSE
  /\ count = [what \in DOMAIN Bounds |-> 0]

Set(p, t) == txn' = [txn EXCEPT ![p] = t]
Correlating(p) == txn[p].phase \in {"asset", "upsert"}

Arrive(files) ==
  /\ Count("files")
  /\ files # directory
  /\ directory' = files
  /\ UNCHANGED <<firmware, catalog, matches, alerts, auditLock, processed, txn, basis, overlapped>>

\* Ingestion observes another version.
Observe(a, version) ==
  /\ Count("updates") /\ firmware[a] # version
  /\ firmware' = [firmware EXCEPT ![a] = version]
  /\ UNCHANGED <<directory, catalog, matches, alerts, auditLock, processed, txn, basis, overlapped>>

Start(p, files, correlate) ==
  /\ txn[p] = Idle
  /\ Set(p, [phase |-> "nvd", files |-> files, correlate |-> correlate])
  /\ UNCHANGED <<directory, firmware, catalog, matches, alerts, auditLock, basis, overlapped>>


\* _watch: the digests differ from the ones of the last success.  The files are
\* opened again when it is their turn.
Watch ==
  /\ directory # processed /\ directory # NoFiles
  /\ Start(Watcher, directory, TRUE)
  /\ UNCHANGED <<processed, count>>

RunByHand(p, files, correlate) ==
  /\ Count("runs")
  /\ Start(p, files, correlate)
  /\ UNCHANGED processed

\* A watcher that dies starts again without a memory.
Die(p) ==
  /\ Set(p, Idle)
  /\ auditLock' = IF auditLock = p THEN None ELSE auditLock
  /\ processed' = IF p = Watcher THEN NoFiles ELSE processed
  /\ UNCHANGED <<directory, firmware, catalog, matches, alerts, basis, overlapped>>

Crash(p) == txn[p] # Idle /\ Count("faults") /\ Die(p)

\* A file may have been replaced under its name since the watcher took its digest.
Loaded(p, kind) ==
  {txn[p].files[kind]} \cup
    IF p = Watcher /\ txn[p].files[kind] # None THEN {directory[kind]} \ {None} ELSE {}

\* A file cannot be opened or is not what it should be: _record_failure, and the
\* watcher will try again, or an error that nothing catches, which ends it.
Fails(p) ==
  /\ txn[p].phase \in {"nvd", "kev"}
  /\ \/ Broken \in Loaded(p, txn[p].phase) /\ UNCHANGED count
     \/ Loaded(p, txn[p].phase) # {None} /\ Count("faults")
  /\ \/ Set(p, Idle) /\ UNCHANGED <<directory, firmware, catalog, matches, alerts, auditLock,
                                    processed, basis, overlapped>>
     \/ Die(p)

-----------------------------------------------------------------------------
(* _process *)

Page(p) == Nvd[txn[p].page]
RowsOf(p) == IF txn[p].phase = "imported" THEN DOMAIN Page(p) ELSE {}
RowsFree(p, cves) == \A q \in Procs \ {p} : cves \cap RowsOf(q) = {}

UpsertNvd(p) ==
  /\ txn[p].phase = "nvd"
  /\ \/ txn[p].files.nvd = None /\ Set(p, [txn[p] EXCEPT !.phase = "kev"])
     \/ \E n \in Loaded(p, "nvd") \cap DOMAIN Nvd :
          /\ RowsFree(p, DOMAIN Nvd[n])
          /\ Set(p, [phase |-> "imported", files |-> txn[p].files, correlate |-> txn[p].correlate,
                      page |-> n])
  /\ UNCHANGED <<directory, firmware, catalog, matches, alerts, auditLock, processed,
                 basis, overlapped, count>>

CommitNvd(p) ==
  /\ txn[p].phase = "imported" /\ auditLock = None
  /\ catalog' = Imported(Page(p))
  /\ Set(p, [phase |-> "kev", files |-> txn[p].files, correlate |-> txn[p].correlate])
  /\ UNCHANGED <<directory, firmware, matches, alerts, auditLock, processed,
                 basis, overlapped, count>>

\* apply_cisa_kev_document looks up its CVEs, then takes the audit lock.
ReadKev(p) ==
  /\ txn[p].phase = "kev"
  /\ \/ txn[p].files.kev = None /\ Set(p, [txn[p] EXCEPT !.phase = "select"])
     \/ \E k \in Loaded(p, "kev") \cap DOMAIN Kev :
          Set(p, [phase |-> "found", files |-> txn[p].files, correlate |-> txn[p].correlate,
                  found |-> {c \in Kev[k] : catalog[c].listed}])
  /\ UNCHANGED <<directory, firmware, catalog, matches, alerts, auditLock, processed,
                 basis, overlapped, count>>

LockAudit(p) ==
  /\ txn[p].phase = "found" /\ auditLock = None
  /\ auditLock' = p
  /\ Set(p, [txn[p] EXCEPT !.phase = "flush"])
  /\ UNCHANGED <<directory, firmware, catalog, matches, alerts, processed,
                 basis, overlapped, count>>

CommitKev(p) ==
  /\ txn[p].phase = "flush" /\ RowsFree(p, txn[p].found)
  /\ catalog' = [c \in Cves |-> [catalog[c] EXCEPT !.exploited = @ \/ c \in txn[p].found]]
  /\ auditLock' = None
  /\ Set(p, [txn[p] EXCEPT !.phase = "select"])
  /\ UNCHANGED <<directory, firmware, matches, alerts, processed, basis, overlapped, count>>

Finish(p) ==
  /\ Set(p, Idle)
  /\ processed' = IF p = Watcher THEN txn[p].files ELSE processed

\* correlate_assets reads the assets, in any order, and then the catalog.
ReadAssets(p) ==
  /\ txn[p].phase = "select"
  /\ IF txn[p].correlate
     THEN /\ Set(p, [phase |-> "catalog", files |-> txn[p].files, firmware |-> firmware])
          /\ UNCHANGED processed
     ELSE Finish(p)
  /\ UNCHANGED <<directory, firmware, catalog, matches, alerts, auditLock,
                 basis, overlapped, count>>

\* From here on a correlation may overlap with others.
Overlapped(t) == [p \in Procs |-> IF Correlating(p) THEN [t[p] EXCEPT !.alone = FALSE] ELSE t[p]]

ReadCatalog(p) ==
  /\ txn[p].phase = "catalog"
  /\ \E order \in SetToSeqs(Assets) :
       txn' = Overlapped([txn EXCEPT ![p] =
         [phase |-> "asset", files |-> txn[p].files, todo |-> order,
          firmware |-> txn[p].firmware, catalog |-> catalog, existing |-> {}, writes |-> <<>>,
          new |-> {}, alone |-> \A q \in Procs : ~Correlating(q)]])
  /\ overlapped' = (overlapped \/ \E q \in Procs : Correlating(q))
  /\ UNCHANGED <<directory, firmware, catalog, matches, alerts, auditLock, processed, basis, count>>

\* The rows written over the ones that are there.
Over(rows, written) ==
  [x \in DOMAIN rows \cup DOMAIN written |-> IF x \in DOMAIN rows THEN rows[x] ELSE written[x]]

Visible(p) == Over(txn[p].writes, matches)

\* Mutant: rejected matches do not count as existing.
ExistingUnlessRejected(p, a) ==
  {c \in Cves : <<a, c>> \in DOMAIN Visible(p) /\ Visible(p)[<<a, c>>].status # "rejected"}

Existing(p, a) == {c \in Cves : <<a, c>> \in DOMAIN Visible(p)}

ReadExisting(p) ==
  /\ txn[p].phase = "asset" /\ txn[p].todo # <<>>
  /\ Set(p, [txn[p] EXCEPT !.phase = "upsert", !.existing = Existing(p, Head(txn[p].todo))])
  /\ UNCHANGED <<directory, firmware, catalog, matches, alerts, auditLock, processed,
                 basis, overlapped, count>>

\* Mutant: nothing is rejected for an asset that nothing matches.
StaleUnlessNone(p, a, matched) ==
  IF matched = {} THEN {} ELSE
  {c \in Cves : <<a, c>> \in DOMAIN Visible(p) /\ Visible(p)[<<a, c>>].status # "rejected"} \ matched

Stale(p, a, matched) ==
  {c \in Cves : <<a, c>> \in DOMAIN Visible(p) /\ Visible(p)[<<a, c>>].status # "rejected"} \ matched

\* The matches of an asset are inserted or updated, the others rejected.
Rows(p, a, matched) ==
  [x \in {a} \X (matched \cup Stale(p, a, matched)) |->
     IF x[2] \in matched
     THEN [status |-> Match(txn[p].firmware[a], txn[p].catalog[x[2]]),
           exploitable |-> txn[p].catalog[x[2]].exploited]
     ELSE [Visible(p)[x] EXCEPT !.status = "rejected"]]

Matched(t, a) == {c \in Cves : Match(t.firmware[a], t.catalog[c]) # "none"}

\* What a correlation has written and what it is about to write.
Written(p) == IF Correlating(p) THEN DOMAIN txn[p].writes ELSE {}
Writing(p) ==
  LET a == Head(txn[p].todo) IN
  IF txn[p].phase = "upsert" THEN DOMAIN Rows(p, a, Matched(txn[p], a)) ELSE {}

\* Rows that another correlation has written are waited for.
Upsert(p) ==
  LET t == txn[p]
      a == Head(t.todo)
      matched == Matched(t, a)
  IN  /\ t.phase = "upsert"
      /\ \A q \in Procs \ {p} : Written(q) \cap Writing(p) = {}
      /\ Set(p, [t EXCEPT !.phase = "asset", !.todo = Tail(@),
                          !.writes = Over(Rows(p, a, matched), @),
                          !.new = @ \cup {a} \X (matched \ t.existing)])
      /\ UNCHANGED <<directory, firmware, catalog, matches, alerts, auditLock, processed,
                     basis, overlapped, count>>

CommitMatches(p) ==
  /\ txn[p].phase = "asset" /\ txn[p].todo = <<>>
  /\ matches' = Visible(p)
  /\ alerts' = [x \in Assets \X Cves |-> alerts[x] + IF x \in txn[p].new THEN 1 ELSE 0]
  /\ basis' = IF txn[p].alone THEN {[firmware |-> txn[p].firmware, catalog |-> txn[p].catalog]}
              ELSE {}
  /\ Finish(p)
  /\ UNCHANGED <<directory, firmware, catalog, auditLock, overlapped, count>>

\* The rows of the catalog that a process is about to lock.
Locking(p) ==
  IF txn[p].phase = "nvd"
  THEN UNION {DOMAIN Nvd[n] : n \in Loaded(p, "nvd") \cap DOMAIN Nvd}
  ELSE IF txn[p].phase = "flush" THEN txn[p].found ELSE {}

\* p has the audit lock and q rows, or both take rows of one statement in
\* different order, or those of several assets.
Deadlocked(p, q) ==
  \/ txn[p].phase = "flush" /\ RowsOf(q) \cap txn[p].found # {}
  \/ Cardinality(Locking(p) \cap Locking(q)) > 1
  \/ Cardinality(Writing(p) \cap Writing(q)) > 1
  \/ Writing(p) \cap Written(q) # {} /\ Writing(q) \cap Written(p) # {}

\* deadlock_timeout.
BreakDeadlock(p, q) ==
  /\ p # q /\ Deadlocked(p, q)
  /\ Die(p) \/ Die(q)
  /\ UNCHANGED count

-----------------------------------------------------------------------------
Process(p) ==
  \/ UpsertNvd(p) \/ CommitNvd(p) \/ ReadKev(p) \/ LockAudit(p) \/ CommitKev(p)
  \/ ReadAssets(p) \/ ReadCatalog(p) \/ ReadExisting(p) \/ Upsert(p) \/ CommitMatches(p)
  \/ \E q \in Procs : BreakDeadlock(p, q)

Next ==
  \/ \E files \in Transfers : Arrive(files)
  \/ \E a \in Assets, version \in Versions : Observe(a, version)
  \/ Watch
  \/ \E p \in Operators, files \in Jobs, correlate \in BOOLEAN : RunByHand(p, files, correlate)
  \/ \E p \in Procs : Process(p) \/ Fails(p) \/ Crash(p)

Spec == Init /\ [][Next]_vars

\* The watcher polls, a process that has begun goes on, and PostgreSQL grants
\* locks in turn.
FairSpec ==
  /\ Spec
  /\ WF_vars(Watch)
  /\ \A p \in Procs :
       /\ WF_vars(Process(p) \/ Fails(p))
       /\ SF_vars(UpsertNvd(p) \/ CommitNvd(p) \/ LockAudit(p) \/ CommitKev(p) \/ Upsert(p))

-----------------------------------------------------------------------------
TypeOK ==
  /\ directory \in Files /\ processed \in Files
  /\ firmware \in [Assets -> Versions \cup {Unknown}]
  /\ catalog \in [Cves -> [listed : BOOLEAN, affects : SUBSET Versions, exploited : BOOLEAN]]
  /\ DOMAIN matches \subseteq Assets \X Cves
  /\ alerts \in [Assets \X Cves -> Nat] /\ auditLock \in Procs \cup {None}
  /\ \A p \in Procs : txn[p].phase \in {"idle", "nvd", "imported", "kev", "found", "flush",
                                        "select", "catalog", "asset", "upsert"}

\* A CVE that is known to be exploited stays so, whichever NVD page is imported
\* later and whatever runs at the same time (docs/vulnerability-feeds.md).
KevIsKept == [][\A c \in Cves : catalog[c].exploited => catalog'[c].exploited]_vars

\* A match is alerted when its row is made and never again, though it may be
\* rejected and come back; only correlations that overlap may both find it new.
MatchesAlertedOnce ==
  \A x \in Assets \X Cves :
    /\ alerts[x] > 0 <=> x \in DOMAIN matches
    /\ ~overlapped => alerts[x] <= 1

\* After a correlation that no other overlapped, an asset's matches and its risk are
\* the ones that the firmware and the catalog which it read give, whatever was
\* observed and imported while it ran and after it: never old for one CVE and new
\* for another.  So they are of now while nothing has changed, and a change waits
\* for the next correlation.
RiskIsAsRead ==
  \A b \in basis : \A a \in Assets :
    LET matched == Matched(b, a) IN
    /\ {c \in Cves : <<a, c>> \in DOMAIN matches /\ matches[<<a, c>>].status # "rejected"} = matched
    /\ AssetRisk(a) = Risk({Cvss[c] : c \in matched}, \E c \in matched : b.catalog[c].exploited)

=============================================================================
