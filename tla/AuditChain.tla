----------------------------- MODULE AuditChain -----------------------------
(***************************************************************************)
(* The hash-chained audit log (src/backend/app/audit.py) under concurrent  *)
(* database transactions.                                                  *)
(*                                                                         *)
(* A session is one SQLAlchemy session of an API replica or of a worker.   *)
(* Inside one transaction it may call append_audit_log several times; each *)
(* call takes the transaction-level advisory lock, reads the newest row it *)
(* can see, computes the new row's hash over its body and that row's hash, *)
(* and flushes the insert.  The lock is released by COMMIT or ROLLBACK.    *)
(* A request that fails, and a process that dies, rolls its transaction    *)
(* back.                                                                   *)
(*                                                                         *)
(* SHA-256 is taken to be collision free, so a digest is represented by    *)
(* what it commits to: unfolding previous_hash, the bodies of the chain up *)
(* to and including the row.  The digest of no row at all is <<>>.         *)
(***************************************************************************)
EXTENDS Naturals, Sequences, FiniteSets

CONSTANTS Sessions,  \* database sessions that write or verify the log
          Bodies,    \* the hashed fields of a row other than previous_hash
          MaxId      \* bound on the ids drawn from audit_log_id_seq

ASSUME MaxIdAssumption == MaxId \in Nat

VARIABLES table,     \* the committed rows of audit_log
          nextId,    \* the next value of the BIGSERIAL sequence
          lock,      \* the sessions holding pg_advisory_xact_lock(684726193)
          phase,     \* where each session is in its transaction
          rows,      \* rows flushed by the open transaction of each session
          head,      \* previous_hash as the session last read it
          report     \* what the last verification by a session found

vars == <<table, nextId, lock, phase, rows, head, report>>

Digest == Seq(Bodies)
NoDigest == <<>>

Row == [id : Nat, body : Bodies, previous_hash : Digest, entry_hash : Digest]

Report == [valid : BOOLEAN, first_invalid_id : Nat,
           verified_entries : Nat, verified_head_hash : Digest]
NoReport == [valid |-> TRUE, first_invalid_id |-> 0,
             verified_entries |-> 0, verified_head_hash |-> NoDigest]

Phases == {"idle", "open", "waiting", "granted", "read", "flushed"}

-----------------------------------------------------------------------------
\* calculate_audit_hash
Hash(body, previous) == Append(previous, body)

\* READ COMMITTED: a statement sees the committed rows and its own.
Visible(s) == table \cup rows[s]

\* The newest of a set of rows, ORDER BY id DESC LIMIT 1.
Newest(S) == CHOOSE r \in S : \A q \in S : q.id <= r.id

HeadHash(S) == IF S = {} THEN NoDigest ELSE Newest(S).entry_hash

\* The hash of the row before r in id order; the loop of verify_audit_chain
\* carries it from one entry to the next.
CarriedHash(S, r) == HeadHash({q \in S : q.id < r.id})

Mismatches(S) ==
  {r \in S : \/ r.previous_hash # CarriedHash(S, r)
             \/ r.entry_hash # Hash(r.body, r.previous_hash)}

\* verify_audit_chain over the rows of one SELECT, and the report the route
\* makes of it.
Verdict(S) ==
  LET bad == Mismatches(S)
  IN  [valid |-> bad = {},
       first_invalid_id |-> IF bad = {} THEN 0
                            ELSE (CHOOSE r \in bad : \A q \in bad : r.id <= q.id).id,
       verified_entries |-> Cardinality(S),
       verified_head_hash |-> HeadHash(S)]

-----------------------------------------------------------------------------
Init ==
  /\ table = {}
  /\ nextId = 1
  /\ lock = {}
  /\ phase = [s \in Sessions |-> "idle"]
  /\ rows = [s \in Sessions |-> {}]
  /\ head = [s \in Sessions |-> NoDigest]
  /\ report = [s \in Sessions |-> NoReport]

\* A request, a worker pass or a CLI import starts its transaction.
Begin(s) ==
  /\ phase[s] = "idle"
  /\ phase' = [phase EXCEPT ![s] = "open"]
  /\ UNCHANGED <<table, nextId, lock, rows, head, report>>

\* GET /admin/audit/verify reads the whole table before it appends its own
\* record of having done so.
Verify(s) ==
  /\ phase[s] = "open"
  /\ report' = [report EXCEPT ![s] = Verdict(Visible(s))]
  /\ UNCHANGED <<table, nextId, lock, phase, rows, head>>

\* Sessions inside append_audit_log: each may still draw one id.
Appending == {s \in Sessions : phase[s] \in {"waiting", "granted", "read"}}

\* append_audit_log is entered: the session asks for the advisory lock.
RequestLock(s) ==
  /\ phase[s] \in {"open", "flushed"}
  /\ nextId + Cardinality(Appending) <= MaxId
  /\ phase' = [phase EXCEPT ![s] = "waiting"]
  /\ UNCHANGED <<table, nextId, lock, rows, head, report>>

\* Mutant: the advisory lock does not exclude others.
LockUnchecked(s) ==
  /\ phase[s] = "waiting"
  /\ lock' = lock \cup {s}
  /\ phase' = [phase EXCEPT ![s] = "granted"]
  /\ UNCHANGED <<table, nextId, rows, head, report>>

\* The lock is granted when no other transaction holds it; a transaction
\* that holds it already gets it again at once.
GrantLock(s) ==
  /\ phase[s] = "waiting"
  /\ lock \subseteq {s}
  /\ lock' = lock \cup {s}
  /\ phase' = [phase EXCEPT ![s] = "granted"]
  /\ UNCHANGED <<table, nextId, rows, head, report>>

\* Mutant: the head is read without the transaction's own rows.
ReadHeadCommittedOnly(s) ==
  /\ phase[s] = "granted"
  /\ head' = [head EXCEPT ![s] = HeadHash(table)]
  /\ phase' = [phase EXCEPT ![s] = "read"]
  /\ UNCHANGED <<table, nextId, lock, rows, report>>

\* SELECT ... ORDER BY id DESC LIMIT 1.
ReadHead(s) ==
  /\ phase[s] = "granted"
  /\ head' = [head EXCEPT ![s] = HeadHash(Visible(s))]
  /\ phase' = [phase EXCEPT ![s] = "read"]
  /\ UNCHANGED <<table, nextId, lock, rows, report>>

\* Mutant: append_audit_log commits what it has inserted.
FlushAndCommit(s, body) ==
  /\ phase[s] = "read"
  /\ table' = table \cup {[id |-> nextId, body |-> body, previous_hash |-> head[s],
                           entry_hash |-> Hash(body, head[s])]}
  /\ nextId' = nextId + 1
  /\ lock' = lock \ {s}
  /\ phase' = [phase EXCEPT ![s] = "flushed"]
  /\ UNCHANGED <<rows, head, report>>

\* session.add(entry); session.flush().
Flush(s, body) ==
  /\ phase[s] = "read"
  /\ rows' = [rows EXCEPT ![s] = @ \cup
                {[id |-> nextId, body |-> body, previous_hash |-> head[s],
                  entry_hash |-> Hash(body, head[s])]}]
  /\ nextId' = nextId + 1
  /\ phase' = [phase EXCEPT ![s] = "flushed"]
  /\ UNCHANGED <<table, lock, head, report>>

\* Mutant: a session-level lock outlives the commit.
CommitKeepsLock(s) ==
  /\ phase[s] \in {"open", "flushed"}
  /\ table' = table \cup rows[s]
  /\ rows' = [rows EXCEPT ![s] = {}]
  /\ phase' = [phase EXCEPT ![s] = "idle"]
  /\ UNCHANGED <<nextId, lock, head, report>>

\* session.commit(): the rows become visible, then the lock is free.
Commit(s) ==
  /\ phase[s] \in {"open", "flushed"}
  /\ table' = table \cup rows[s]
  /\ rows' = [rows EXCEPT ![s] = {}]
  /\ lock' = lock \ {s}
  /\ phase' = [phase EXCEPT ![s] = "idle"]
  /\ UNCHANGED <<nextId, head, report>>

\* An HTTPException after the first append, a database error, a lost
\* connection or the death of the process: ids already drawn stay drawn.
Rollback(s) ==
  /\ phase[s] # "idle"
  /\ rows' = [rows EXCEPT ![s] = {}]
  /\ lock' = lock \ {s}
  /\ phase' = [phase EXCEPT ![s] = "idle"]
  /\ UNCHANGED <<table, nextId, head, report>>

Next ==
  \E s \in Sessions :
    \/ Begin(s)
    \/ Verify(s)
    \/ RequestLock(s)
    \/ GrantLock(s)
    \/ ReadHead(s)
    \/ \E body \in Bodies : Flush(s, body)
    \/ Commit(s)
    \/ Rollback(s)

Spec == Init /\ [][Next]_vars

\* A session inside append_audit_log keeps executing statements, a flushed
\* transaction is committed, and PostgreSQL queues the waiters of an advisory
\* lock, so none of them is passed over for ever.
Fairness ==
  \A s \in Sessions :
    /\ SF_vars(GrantLock(s))
    /\ WF_vars(ReadHead(s))
    /\ WF_vars(\E body \in Bodies : Flush(s, body))
    /\ WF_vars(Commit(s))

FairSpec == Spec /\ Fairness

-----------------------------------------------------------------------------
\* Every variable has its type; the advisory lock has at most one holder.
TypeOK ==
  /\ table \subseteq Row
  /\ nextId \in Nat
  /\ lock \in {{}} \cup {{s} : s \in Sessions}
  /\ phase \in [Sessions -> Phases]
  /\ rows \in [Sessions -> SUBSET Row]
  /\ head \in [Sessions -> Digest]
  /\ report \in [Sessions -> Report]

\* audit.py:65 "Serializes writers so the hash chain cannot fork under
\* concurrent ingestion": no two rows, committed or flushed by whatever
\* transactions are open, have the same predecessor.
NoFork ==
  LET all == table \cup UNION {rows[s] : s \in Sessions}
  IN  \A r, q \in all : r.previous_hash = q.previous_hash => r = q

\* GET /admin/audit/verify answers "valid" whenever it is called and whatever
\* is being written meanwhile: concurrency and rollbacks raise no false alarm.
VerifyNeverRejects == \A s \in Sessions : report[s].valid

\* Rows enter the committed table behind every row already there, and never
\* leave it: commit order is id order, though ids are drawn before commit.
AppendOnly ==
  [][/\ table \subseteq table'
     /\ \A r \in table' \ table : \A q \in table : q.id < r.id]_vars

\* The rows S in the order of their ids, each as its contents and its hash.
Rank(S, r) == Cardinality({q \in S : q.id <= r.id})
At(S, i) == CHOOSE r \in S : Rank(S, r) = i
Entry(r) == [body |-> r.body, seal |-> r.entry_hash]
InOrder(S) == [i \in 1..Cardinality(S) |-> Entry(At(S, i))]

Trail == INSTANCE AuditTrail
  WITH Writers <- Sessions, history <- InOrder(table),
       pending <- [s \in Sessions |-> InOrder(rows[s])]

\* The transactions that append to the log could have run one after the other:
\* their records are committed together or not at all, and each hash covers all
\* records before its own, those of its own transaction included.
ImplementsTrail == Trail!Spec

\* A session that asks for the audit lock is not kept waiting for ever.
LockIsGranted ==
  \A s \in Sessions : phase[s] = "waiting" ~> phase[s] # "waiting"
=============================================================================
