------------------------- MODULE AuditChain_proofs -------------------------
(***************************************************************************)
(* Machine-checked proofs about AuditChain, for every set of sessions, of  *)
(* record contents and every bound on the ids.                             *)
(***************************************************************************)
EXTENDS AuditChain, FiniteSetTheorems, SequenceTheorems, TLAPS

HasNewest(S) == \E r \in S : \A q \in S : q.id <= r.id

\* A set of rows that one verification would accept, and in which each row
\* commits to a longer history than the rows before it.
Chained(S) ==
  /\ S # {} => HasNewest(S)
  /\ Mismatches(S) = {}
  /\ \A r, q \in S : r.id < q.id => Len(r.entry_hash) < Len(q.entry_hash)
  /\ \A r, q \in S : r.id = q.id => r = q

\* Whoever is past the lock, or has flushed rows, is the holder.
LockDiscipline ==
  \A s \in Sessions :
    (phase[s] \in {"granted", "read", "flushed"} \/ rows[s] # {}) => lock = {s}

\* Ids are drawn from the sequence, and every transaction sees finitely many
\* rows that form a chain.
VisibleChained ==
  /\ IsFiniteSet(table)
  /\ Chained(table)
  /\ \A r \in table : r.id < nextId
  /\ \A s \in Sessions :
       /\ IsFiniteSet(rows[s])
       /\ Chained(Visible(s))
       /\ \A r \in rows[s] : r.id < nextId

\* The head a session has read is still the head when it inserts.
HeadIsFresh ==
  \A s \in Sessions : phase[s] = "read" => head[s] = HeadHash(Visible(s))

\* What is flushed but not committed is behind what is committed.
UncommittedLast ==
  \A s \in Sessions : \A r \in rows[s] : \A q \in table : q.id < r.id

IInv == /\ TypeOK
        /\ LockDiscipline
        /\ VisibleChained
        /\ HeadIsFresh
        /\ UncommittedLast
        /\ VerifyNeverRejects

-----------------------------------------------------------------------------
\* The newest row of a nonempty chain is one of its rows.
LEMMA NewestIsMember ==
  ASSUME NEW S, S # {}, HasNewest(S)
  PROVE  Newest(S) \in S /\ \A q \in S : q.id <= Newest(S).id
BY DEF HasNewest, Newest

\* The head of a chain is a digest.
LEMMA HeadHashType ==
  ASSUME NEW S \in SUBSET Row, S # {} => HasNewest(S)
  PROVE  HeadHash(S) \in Digest
BY NewestIsMember DEF HeadHash, Row, Digest, NoDigest

\* No row of a chain commits to more than its head does.
LEMMA HeadHashIsLongest ==
  ASSUME NEW S \in SUBSET Row, Chained(S), NEW r \in S
  PROVE  Len(r.entry_hash) <= Len(HeadHash(S))
<1> DEFINE n == Newest(S)
<1>1. n \in S /\ r.id <= n.id
  BY NewestIsMember DEF Chained
<1>2. HeadHash(S) = n.entry_hash
  BY DEF HeadHash
<1>3. n.id \in Nat /\ r.id \in Nat /\ n.entry_hash \in Digest /\ r.entry_hash \in Digest
  BY <1>1 DEF Row
<1>4. CASE r.id < n.id
  BY <1>1, <1>2, <1>3, <1>4 DEF Chained, Digest
<1>5. CASE r.id = n.id
  BY <1>1, <1>2, <1>3, <1>5 DEF Chained, Digest
<1> QED BY <1>1, <1>3, <1>4, <1>5

\* Appending a row with a fresh id whose previous_hash is the head of the
\* chain gives a chain: the step append_audit_log takes under its lock.
LEMMA AppendKeepsChain ==
  ASSUME NEW S \in SUBSET Row, Chained(S),
         NEW n \in Row, \A r \in S : r.id < n.id,
         n.previous_hash = HeadHash(S),
         n.entry_hash = Hash(n.body, n.previous_hash)
  PROVE  Chained(S \cup {n})
<1> DEFINE T == S \cup {n}
<1>1. \A r \in T : r.id \in Nat /\ r.entry_hash \in Digest
  BY DEF Row
<1>2. HasNewest(T)
  BY <1>1 DEF HasNewest
<1>3. Mismatches(T) = {}
  <2>1. CarriedHash(T, n) = HeadHash(S)
    <3>1. {q \in T : q.id < n.id} = S
      BY <1>1
    <3> QED BY <3>1 DEF CarriedHash
  <2>2. ASSUME NEW r \in S PROVE CarriedHash(T, r) = CarriedHash(S, r)
    <3>1. {q \in T : q.id < r.id} = {q \in S : q.id < r.id}
      BY <1>1
    <3> QED BY <3>1 DEF CarriedHash
  <2>3. \A r \in S : r.previous_hash = CarriedHash(S, r)
                     /\ r.entry_hash = Hash(r.body, r.previous_hash)
    BY DEF Chained, Mismatches
  <2> QED BY <2>1, <2>2, <2>3 DEF Mismatches
<1>4. \A r, q \in T : r.id < q.id => Len(r.entry_hash) < Len(q.entry_hash)
  <2>1. HeadHash(S) \in Digest
    BY HeadHashType DEF Chained
  <2>2. Len(n.entry_hash) = Len(HeadHash(S)) + 1
    BY <2>1 DEF Hash, Digest, Row
  <2>3. \A r \in S : Len(r.entry_hash) < Len(n.entry_hash)
    BY <1>1, <2>1, <2>2, HeadHashIsLongest DEF Digest
  <2> QED BY <1>1, <2>3 DEF Chained
<1>5. \A r, q \in T : r.id = q.id => r = q
  BY <1>1 DEF Chained
<1> QED BY <1>2, <1>3, <1>4, <1>5 DEF Chained

\* In a chain no two rows name the same predecessor.
LEMMA ChainDoesNotFork ==
  ASSUME NEW S \in SUBSET Row, Chained(S), NEW r \in S, NEW q \in S,
         r.previous_hash = q.previous_hash
  PROVE  r = q
<1>1. Len(r.entry_hash) = Len(q.entry_hash)
  <2>1. r.entry_hash = Append(r.previous_hash, r.body)
        /\ q.entry_hash = Append(q.previous_hash, q.body)
    BY DEF Chained, Mismatches, Hash
  <2>2. r.previous_hash \in Seq(Bodies) /\ r.body \in Bodies /\ q.body \in Bodies
    BY DEF Row, Digest
  <2> QED BY <2>1, <2>2
<1>2. r.id \in Nat /\ q.id \in Nat /\ Len(r.entry_hash) \in Nat
  BY DEF Row, Digest
<1> QED BY <1>1, <1>2 DEF Chained

-----------------------------------------------------------------------------
LEMMA InitEstablishesIInv == Init => IInv
<1> SUFFICES ASSUME Init PROVE IInv
  OBVIOUS
<1> USE DEF Init
<1>1. NoReport \in Report
  BY DEF NoReport, Report, Digest, NoDigest
<1>2. TypeOK
  BY <1>1 DEF TypeOK, Phases, Digest, NoDigest, Row
<1>3. LockDiscipline
  BY DEF LockDiscipline
<1>4. VisibleChained
  BY FS_EmptySet DEF VisibleChained, Visible, Chained, Mismatches
<1>5. HeadIsFresh /\ UncommittedLast /\ VerifyNeverRejects
  BY DEF HeadIsFresh, UncommittedLast, VerifyNeverRejects, NoReport
<1> QED BY <1>2, <1>3, <1>4, <1>5 DEF IInv

\* A step that changes neither the log, the sequence, what is flushed, the
\* heads read nor the reports keeps the parts of IInv about them.
LEMMA NextKeepsIInv == IInv /\ [Next]_vars => IInv'
<1> SUFFICES ASSUME IInv, [Next]_vars PROVE IInv'
  OBVIOUS
<1> USE DEF IInv
<1>1. ASSUME NEW s \in Sessions, Begin(s) PROVE IInv'
  <2>1. TypeOK'
    BY <1>1 DEF Begin, TypeOK, Phases
  <2>2. LockDiscipline'
    BY <1>1 DEF Begin, TypeOK, LockDiscipline
  <2>3. VisibleChained'
    BY <1>1 DEF Begin, VisibleChained, Visible
  <2>4. HeadIsFresh' /\ UncommittedLast' /\ VerifyNeverRejects'
    BY <1>1 DEF Begin, TypeOK, HeadIsFresh, UncommittedLast,
              VerifyNeverRejects, Visible
  <2> QED BY <2>1, <2>2, <2>3, <2>4
<1>2. ASSUME NEW s \in Sessions, Verify(s) PROVE IInv'
  <2> DEFINE S == Visible(s)
  <2>1. S \in SUBSET Row /\ IsFiniteSet(S) /\ Chained(S)
    BY FS_Union DEF TypeOK, VisibleChained, Visible
  <2>2. Verdict(S).valid
    BY <2>1 DEF Verdict, Chained
  <2>3. Verdict(S) \in Report
    <3>1. Cardinality(S) \in Nat
      BY <2>1, FS_CardinalityType
    <3>2. HeadHash(S) \in Digest
      BY <2>1, HeadHashType DEF Chained
    <3>3. Mismatches(S) = {}
      BY <2>1 DEF Chained
    <3> QED BY <3>1, <3>2, <3>3 DEF Verdict, Report
  <2>4. TypeOK'
    BY <1>2, <2>3 DEF Verify, TypeOK
  <2>5. LockDiscipline' /\ VisibleChained' /\ HeadIsFresh' /\ UncommittedLast'
    BY <1>2 DEF Verify, LockDiscipline, VisibleChained, HeadIsFresh,
                UncommittedLast, Visible
  <2>6. VerifyNeverRejects'
    BY <1>2, <2>2 DEF Verify, TypeOK, VerifyNeverRejects
  <2> QED BY <2>4, <2>5, <2>6
<1>3. ASSUME NEW s \in Sessions, RequestLock(s) PROVE IInv'
  <2>1. TypeOK'
    BY <1>3 DEF RequestLock, TypeOK, Phases
  <2>2. LockDiscipline'
    BY <1>3 DEF RequestLock, TypeOK, LockDiscipline
  <2>3. VisibleChained'
    BY <1>3 DEF RequestLock, VisibleChained, Visible
  <2>4. HeadIsFresh' /\ UncommittedLast' /\ VerifyNeverRejects'
    BY <1>3 DEF RequestLock, TypeOK, HeadIsFresh, UncommittedLast,
              VerifyNeverRejects, Visible
  <2> QED BY <2>1, <2>2, <2>3, <2>4
<1>4. ASSUME NEW s \in Sessions, GrantLock(s) PROVE IInv'
  <2>1. lock' = {s}
    BY <1>4 DEF GrantLock
  <2>2. TypeOK'
    BY <1>4, <2>1 DEF GrantLock, TypeOK, Phases
  <2>3. LockDiscipline'
    BY <1>4, <2>1 DEF GrantLock, TypeOK, LockDiscipline
  <2>4. VisibleChained'
    BY <1>4 DEF GrantLock, VisibleChained, Visible
  <2>5. HeadIsFresh' /\ UncommittedLast' /\ VerifyNeverRejects'
    BY <1>4 DEF GrantLock, TypeOK, HeadIsFresh, UncommittedLast,
              VerifyNeverRejects, Visible
  <2> QED BY <2>2, <2>3, <2>4, <2>5
<1>5. ASSUME NEW s \in Sessions, ReadHead(s) PROVE IInv'
  <2>1. HeadHash(Visible(s)) \in Digest
    BY HeadHashType DEF TypeOK, VisibleChained, Visible, Chained
  <2>2. TypeOK'
    BY <1>5, <2>1 DEF ReadHead, TypeOK, Phases
  <2>3. LockDiscipline'
    BY <1>5 DEF ReadHead, TypeOK, LockDiscipline
  <2>4. VisibleChained'
    BY <1>5 DEF ReadHead, VisibleChained, Visible
  <2>5. HeadIsFresh' /\ UncommittedLast' /\ VerifyNeverRejects'
    BY <1>5 DEF ReadHead, TypeOK, HeadIsFresh, UncommittedLast,
              VerifyNeverRejects, Visible
  <2> QED BY <2>2, <2>3, <2>4, <2>5
<1>6. ASSUME NEW s \in Sessions, NEW body \in Bodies, Flush(s, body) PROVE IInv'
  <2> DEFINE n == [id |-> nextId, body |-> body, previous_hash |-> head[s],
                   entry_hash |-> Hash(body, head[s])]
  <2>1. n \in Row
    BY DEF TypeOK, Row, Hash, Digest
  <2>2. rows' = [rows EXCEPT ![s] = @ \cup {n}] /\ table' = table
        /\ nextId' = nextId + 1 /\ lock' = lock /\ head' = head /\ report' = report
        /\ phase' = [phase EXCEPT ![s] = "flushed"]
    BY <1>6 DEF Flush
  <2>3. lock = {s} /\ phase[s] = "read" /\ head[s] = HeadHash(Visible(s))
    BY <1>6 DEF Flush, LockDiscipline, HeadIsFresh
  <2>4. \A t \in Sessions : t # s => phase[t] \notin {"granted", "read", "flushed"}
                                     /\ rows[t] = {}
    BY <2>3 DEF LockDiscipline
  <2>5. TypeOK'
    BY <2>1, <2>2 DEF TypeOK, Phases
  <2>6. LockDiscipline'
    BY <2>2, <2>3, <2>4 DEF TypeOK, LockDiscipline
  <2>7. VisibleChained'
    <3>1. Visible(s)' = Visible(s) \cup {n} /\ rows'[s] = rows[s] \cup {n}
      BY <2>2 DEF TypeOK, Visible
    <3>2. Visible(s) \in SUBSET Row /\ Chained(Visible(s))
          /\ \A r \in Visible(s) : r.id < nextId
      BY DEF TypeOK, VisibleChained, Visible
    <3>3. Chained(Visible(s) \cup {n})
      BY <2>1, <2>3, <3>2, AppendKeepsChain
    <3>4. IsFiniteSet(rows'[s])
      <4>1. IsFiniteSet(rows[s])
        BY DEF VisibleChained
      <4> HIDE DEF n
      <4>2. IsFiniteSet(rows[s] \cup {n})
        BY <4>1, FS_AddElement
      <4> QED BY <3>1, <4>2
    <3>5. \A r \in Visible(s) \cup {n} : r.id < nextId'
      BY <2>1, <2>2, <3>2 DEF TypeOK, Row
    <3>6. ASSUME NEW t \in Sessions, t # s
          PROVE  rows'[t] = {} /\ Visible(t)' = table
      BY <2>2, <2>4, <3>6 DEF TypeOK, Visible
    <3>7. IsFiniteSet(table') /\ Chained(table)' /\ \A r \in table' : r.id < nextId'
      <4>1. \A r \in table : r.id \in Nat /\ r.id < nextId
        BY DEF TypeOK, VisibleChained, Row
      <4>2. IsFiniteSet(table') /\ Chained(table)'
        BY <2>2 DEF VisibleChained
      <4> QED BY <2>2, <4>1, <4>2 DEF TypeOK
    <3>8. ASSUME NEW t \in Sessions
          PROVE  /\ IsFiniteSet(rows'[t])
                 /\ Chained(Visible(t)')
                 /\ \A r \in rows'[t] : r.id < nextId'
      <4>1. CASE t = s
        <5> HIDE DEF n
        <5>1. rows[s] \subseteq Visible(s)
          BY DEF Visible
        <5> QED BY <4>1, <5>1, <3>1, <3>3, <3>4, <3>5
      <4>2. CASE t # s
        <5>1. rows'[t] = {} /\ Visible(t)' = table /\ Chained(table)
          BY <4>2, <3>6 DEF VisibleChained
        <5> QED BY <5>1, FS_EmptySet
      <4> QED BY <4>1, <4>2
    <3> QED BY <3>7, <3>8 DEF VisibleChained
  <2>8. HeadIsFresh'
    BY <2>2, <2>4 DEF TypeOK, HeadIsFresh
  <2>9. VerifyNeverRejects'
    BY <2>2 DEF VerifyNeverRejects
  <2>10. UncommittedLast'
    BY <2>2 DEF TypeOK, VisibleChained, UncommittedLast
  <2> QED BY <2>5, <2>6, <2>7, <2>8, <2>9, <2>10
<1>7. ASSUME NEW s \in Sessions, Commit(s) PROVE IInv'
  <2>1. table' = Visible(s) /\ rows' = [rows EXCEPT ![s] = {}] /\ nextId' = nextId
        /\ lock' = lock \ {s} /\ phase' = [phase EXCEPT ![s] = "idle"]
        /\ head' = head /\ report' = report
    BY <1>7 DEF Commit, Visible
  <2>2. \A t \in Sessions : rows[s] # {} /\ t # s =>
          phase[t] \notin {"granted", "read", "flushed"} /\ rows[t] = {}
    BY DEF LockDiscipline
  <2>3. TypeOK'
    BY <2>1 DEF TypeOK, Phases, Visible
  <2>4. LockDiscipline'
    BY <2>1 DEF TypeOK, LockDiscipline
  <2>5. VisibleChained'
    <3>1. \A t \in Sessions : Visible(t)' = Visible(s) \/ Visible(t)' = Visible(t)
      BY <2>1, <2>2 DEF TypeOK, Visible
    <3>2. IsFiniteSet(Visible(s)) /\ Chained(Visible(s))
          /\ \A r \in Visible(s) : r.id < nextId
      BY FS_Union DEF VisibleChained, Visible
    <3>3. \A t \in Sessions : IsFiniteSet(rows'[t]) /\ \A r \in rows'[t] : r.id < nextId
      BY <2>1, FS_EmptySet DEF TypeOK, VisibleChained
    <3>4. \A t \in Sessions : Chained(Visible(t)')
      BY <3>1, <3>2 DEF VisibleChained
    <3> QED BY <2>1, <3>2, <3>3, <3>4 DEF VisibleChained
  <2>6. HeadIsFresh'
    <3> SUFFICES ASSUME NEW t \in Sessions, phase'[t] = "read"
                 PROVE  head'[t] = HeadHash(Visible(t)')
      BY DEF HeadIsFresh
    <3>1. t # s /\ phase[t] = "read"
      BY <2>1 DEF TypeOK
    <3>2. rows[s] = {} /\ Visible(t)' = Visible(t)
      BY <2>1, <2>2, <3>1 DEF TypeOK, Visible
    <3> QED BY <2>1, <3>1, <3>2 DEF HeadIsFresh
  <2>7. VerifyNeverRejects'
    BY <2>1 DEF VerifyNeverRejects
  <2>8. UncommittedLast'
    <3> SUFFICES ASSUME NEW t \in Sessions, NEW r \in rows'[t], NEW q \in table'
                 PROVE  q.id < r.id
      BY DEF UncommittedLast
    <3>1. t # s /\ r \in rows[t]
      BY <2>1 DEF TypeOK
    <3>2. rows[s] = {} /\ q \in table
      BY <2>1, <2>2, <3>1 DEF Visible
    <3> QED BY <3>1, <3>2 DEF UncommittedLast
  <2> QED BY <2>3, <2>4, <2>5, <2>6, <2>7, <2>8
<1>8. ASSUME NEW s \in Sessions, Rollback(s) PROVE IInv'
  <2>1. table' = table /\ rows' = [rows EXCEPT ![s] = {}] /\ nextId' = nextId
        /\ lock' = lock \ {s} /\ phase' = [phase EXCEPT ![s] = "idle"]
        /\ head' = head /\ report' = report
    BY <1>8 DEF Rollback
  <2>2. TypeOK'
    BY <2>1 DEF TypeOK, Phases
  <2>3. LockDiscipline'
    BY <2>1 DEF TypeOK, LockDiscipline
  <2>4. VisibleChained'
    <3>1. \A t \in Sessions : rows'[t] = {} \/ rows'[t] = rows[t]
      BY <2>1 DEF TypeOK
    <3>2. \A t \in Sessions : Visible(t)' = table \/ Visible(t)' = Visible(t)
      BY <2>1, <3>1 DEF Visible
    <3> QED BY <2>1, <3>1, <3>2, FS_EmptySet DEF VisibleChained
  <2>5. HeadIsFresh'
    BY <2>1 DEF TypeOK, HeadIsFresh, Visible
  <2>6. VerifyNeverRejects'
    BY <2>1 DEF VerifyNeverRejects
  <2>7. UncommittedLast'
    BY <2>1 DEF TypeOK, UncommittedLast
  <2> QED BY <2>2, <2>3, <2>4, <2>5, <2>6, <2>7
<1>9. CASE UNCHANGED vars
  BY <1>9 DEF vars, TypeOK, LockDiscipline, VisibleChained, HeadIsFresh,
              UncommittedLast, VerifyNeverRejects, Visible
<1> QED BY <1>1, <1>2, <1>3, <1>4, <1>5, <1>6, <1>7, <1>8, <1>9 DEF Next

\* IInv is an invariant: every transaction always sees a chain, and the head
\* it has read is current while it holds the lock.
LEMMA Invariant == Spec => []IInv
BY InitEstablishesIInv, NextKeepsIInv, PTL DEF Spec

\* Every variable keeps its type, and the advisory lock one holder.
THEOREM TypeCorrect == Spec => []TypeOK
<1>1. IInv => TypeOK
  BY DEF IInv
<1> QED BY <1>1, Invariant, PTL

\* The hash chain cannot fork under concurrent writers (audit.py:65).
THEOREM ChainNeverForks == Spec => []NoFork
<1>1. IInv => NoFork
  <2> SUFFICES ASSUME IInv,
                      NEW r \in table \cup UNION {rows[s] : s \in Sessions},
                      NEW q \in table \cup UNION {rows[s] : s \in Sessions},
                      r.previous_hash = q.previous_hash
               PROVE  r = q
    BY DEF NoFork
  <2> USE DEF IInv
  <2>1. CASE \A s \in Sessions : rows[s] = {}
    <3>1. r \in table /\ q \in table
      BY <2>1
    <3> QED BY <3>1, ChainDoesNotFork DEF TypeOK, VisibleChained
  <2>2. ASSUME NEW s \in Sessions, rows[s] # {} PROVE r = q
    <3>1. \A t \in Sessions : t # s => rows[t] = {}
      BY <2>2 DEF LockDiscipline
    <3>2. r \in Visible(s) /\ q \in Visible(s)
      BY <3>1 DEF Visible
    <3>3. Visible(s) \in SUBSET Row /\ Chained(Visible(s))
      BY DEF TypeOK, VisibleChained, Visible
    <3> QED BY <3>2, <3>3, ChainDoesNotFork
  <2> QED BY <2>1, <2>2
<1> QED BY <1>1, Invariant, PTL

\* The committed log only grows, and only behind its newest row: the ids of a
\* transaction's rows are above every id committed before it.
THEOREM LogIsAppendOnly == Spec => AppendOnly
<1>1. IInv /\ [Next]_vars =>
        [/\ table \subseteq table'
         /\ \A r \in table' \ table : \A q \in table : q.id < r.id]_vars
  <2> SUFFICES ASSUME IInv, [Next]_vars
               PROVE  /\ table \subseteq table'
                      /\ \A r \in table' \ table : \A q \in table : q.id < r.id
    OBVIOUS
  <2>1. table' = table \/ \E s \in Sessions : Commit(s)
    BY DEF Next, Begin, Verify, RequestLock, GrantLock, ReadHead, Flush, Rollback, vars
  <2>2. ASSUME NEW s \in Sessions, Commit(s)
        PROVE  table' = table \cup rows[s]
    BY <2>2 DEF Commit
  <2> QED BY <2>1, <2>2 DEF IInv, UncommittedLast
<1> QED BY <1>1, Invariant, PTL DEF Spec, AppendOnly

\* Concurrency and rollbacks never make GET /admin/audit/verify reject.
THEOREM VerificationAccepts == Spec => []VerifyNeverRejects
<1>1. IInv => VerifyNeverRejects
  BY DEF IInv
<1> QED BY <1>1, Invariant, PTL

-----------------------------------------------------------------------------
(* What the log tells, and the refinement *)

\* A later history begins with an earlier one.
Extends(later, earlier) ==
  Len(earlier) < Len(later) /\ \A i \in 1..Len(earlier) : later[i] = earlier[i]

Nested(S) == \A r, q \in S : r.id < q.id => Extends(q.entry_hash, r.entry_hash)

BodiesInOrder(S) == [i \in 1..Cardinality(S) |-> At(S, i).body]

\* A hash that commits to the contents of the rows, in order: the digest of a
\* chain is its history.
Recounts(S) == HeadHash(S) = BodiesInOrder(S)

Telling(S) == Nested(S) /\ Recounts(S)

HInv == IInv /\ Telling(table) /\ \A s \in Sessions : Telling(Visible(s))

LEMMA AppendKeepsNested ==
  ASSUME NEW S \in SUBSET Row, Chained(S), Nested(S),
         NEW n \in Row, \A r \in S : r.id < n.id,
         n.entry_hash = Hash(n.body, HeadHash(S))
  PROVE  Nested(S \cup {n})
<1>1. \A r \in S \cup {n} : r.id \in Nat /\ r.entry_hash \in Seq(Bodies)
  BY DEF Row, Digest
<1>2. ASSUME NEW r \in S PROVE Extends(n.entry_hash, r.entry_hash)
  <2> DEFINE m == Newest(S)
             h == m.entry_hash
             e == r.entry_hash
  <2>1. m \in S /\ r.id <= m.id
    BY NewestIsMember DEF Chained
  <2>2. h \in Seq(Bodies) /\ e \in Seq(Bodies) /\ n.body \in Bodies
    BY <1>1, <2>1 DEF Row
  <2>3. n.entry_hash = Append(h, n.body)
    BY DEF Hash, HeadHash
  <2>4. e = h \/ Extends(h, e)
    BY <1>1, <2>1 DEF Chained, Nested
  <2> HIDE DEF h, e
  <2>5. Len(e) <= Len(h) /\ \A i \in 1..Len(e) : h[i] = e[i]
    BY <2>2, <2>4 DEF Extends
  <2>6. Extends(n.entry_hash, e)
    BY <2>2, <2>3, <2>5 DEF Extends
  <2> QED BY <2>6 DEF e
<1> QED BY <1>1, <1>2 DEF Nested

\* One place more, with x in it, makes a sequence its Append with x.
LEMMA AppendShape ==
  ASSUME NEW c \in Nat, NEW X, NEW g \in [1..c -> X], NEW f \in [1..(c + 1) -> X],
         NEW x, f[c + 1] = x, \A i \in 1..c : f[i] = g[i]
  PROVE  f = Append(g, x)
<1> DEFINE h == Append(g, x)
<1>1. g \in Seq(X) /\ Len(g) = c /\ x \in X
  OBVIOUS
<1>2. h \in Seq(X) /\ Len(h) = c + 1 /\ h[c + 1] = x /\ \A i \in 1..c : h[i] = g[i]
  BY <1>1
<1> HIDE DEF h
<1>3. h = [i \in 1..(c + 1) |-> h[i]]
  <2>1. h \in [1..(c + 1) -> X]
    BY <1>2, LenProperties
  <2> QED BY <2>1
<1>4. \A i \in 1..(c + 1) : f[i] = h[i]
  <2>1. \A i \in 1..(c + 1) : i \in 1..c \/ i = c + 1
    OBVIOUS
  <2> QED BY <1>2, <2>1, Zenon
<1>5. f = h
  BY <1>3, <1>4, Zenon
<1> QED BY <1>5 DEF h

\* Rows with ids above those of other rows come behind them.
LEMMA PlacesJoined ==
  ASSUME NEW A \in SUBSET Row, NEW B \in SUBSET Row, IsFiniteSet(A), IsFiniteSet(B),
         \A a \in A, b \in B : a.id < b.id
  PROVE  /\ IsFiniteSet(A \cup B) /\ Cardinality(A) \in Nat /\ Cardinality(B) \in Nat
         /\ Cardinality(A \cup B) = Cardinality(A) + Cardinality(B)
         /\ \A i \in 1..Cardinality(A) : At(A \cup B, i) = At(A, i)
         /\ \A i \in 1..Cardinality(B) : At(A \cup B, Cardinality(A) + i) = At(B, i)
<1> DEFINE T == A \cup B
           a == Cardinality(A)
           b == Cardinality(B)
<1>1. \A r \in T : r.id \in Nat
  BY DEF Row
<1>2. A \cap B = {}
  <2>1. \A r \in A \cap B : r.id < r.id
    OBVIOUS
  <2> QED BY <1>1, <2>1
<1>3. IsFiniteSet(T) /\ a \in Nat /\ b \in Nat /\ Cardinality(T) = a + b
  <2>1. IsFiniteSet(T) /\ Cardinality(T) = a + b - Cardinality(A \cap B)
    BY FS_Union
  <2>2. Cardinality(A \cap B) = 0
    BY <1>2, FS_EmptySet
  <2> QED BY <2>1, <2>2, FS_CardinalityType
<1>4. ASSUME NEW r \in A
      PROVE  Rank(T, r) = Rank(A, r) /\ Rank(A, r) \in Nat /\ Rank(A, r) <= a
  <2> DEFINE below == {q \in A : q.id <= r.id}
  <2>1. {q \in T : q.id <= r.id} = below
    BY <1>1
  <2>2. below \subseteq A
    OBVIOUS
  <2>3. Cardinality(below) \in Nat /\ Cardinality(below) <= a
    BY <2>2, FS_Subset, FS_CardinalityType
  <2> QED BY <2>1, <2>3 DEF Rank
<1>5. ASSUME NEW r \in B
      PROVE  Rank(T, r) = a + Rank(B, r) /\ Rank(B, r) \in Nat \ {0}
  <2> DEFINE below == {q \in B : q.id <= r.id}
  <2>1. {q \in T : q.id <= r.id} = A \cup below
    BY <1>1
  <2>2. below \subseteq B /\ r \in below /\ A \cap below = {}
    BY <1>1, <1>2
  <2> HIDE DEF below
  <2>3. IsFiniteSet(below) /\ Cardinality(below) \in Nat
    BY <2>2, FS_Subset, FS_CardinalityType
  <2>4. Cardinality(below) # 0
    BY <2>2, <2>3, FS_EmptySet
  <2>5. Cardinality(A \cup below) = a + Cardinality(below) - Cardinality(A \cap below)
    BY <2>3, FS_Union
  <2>6. Cardinality(A \cap below) = 0
    BY <2>2, FS_EmptySet
  <2>7. Rank(B, r) = Cardinality(below) /\ Rank(T, r) = Cardinality(A \cup below)
    BY <2>1 DEF Rank, below
  <2> QED BY <1>3, <2>3, <2>4, <2>5, <2>6, <2>7
<1>6. \A U, V, i, j : {r \in U : Rank(U, r) = i} = {r \in V : Rank(V, r) = j} => At(U, i) = At(V, j)
  <2>1. \A U, i : At(U, i) = CHOOSE r : r \in {q \in U : Rank(U, q) = i}
    BY DEF At
  <2> QED BY <2>1
<1> HIDE DEF a, b, T
<1>7. ASSUME NEW i \in 1..a PROVE At(T, i) = At(A, i)
  <2>1. \A r \in B : Rank(T, r) # i
    BY <1>3, <1>5
  <2>2. \A r : r \in T /\ Rank(T, r) = i <=> r \in A /\ Rank(A, r) = i
    BY <1>4, <2>1 DEF T
  <2> QED BY <1>6, <2>2
<1>8. ASSUME NEW i \in 1..b PROVE At(T, a + i) = At(B, i)
  <2>1. \A r \in A : Rank(T, r) # a + i
    BY <1>3, <1>4
  <2>2. \A r \in B : Rank(T, r) = a + i <=> Rank(B, r) = i
    BY <1>3, <1>5
  <2>3. \A r : r \in T /\ Rank(T, r) = a + i <=> r \in B /\ Rank(B, r) = i
    BY <2>1, <2>2 DEF T
  <2> QED BY <1>6, <2>3
<1> QED BY <1>3, <1>7, <1>8 DEF a, b, T

\* A row with an id above all others has the last place.
LEMMA LastPlace ==
  ASSUME NEW S \in SUBSET Row, IsFiniteSet(S), NEW n \in Row, \A r \in S : r.id < n.id
  PROVE  /\ Cardinality(S) \in Nat /\ Cardinality(S \cup {n}) = Cardinality(S) + 1
         /\ At(S \cup {n}, Cardinality(S) + 1) = n
         /\ \A i \in 1..Cardinality(S) : At(S \cup {n}, i) = At(S, i)
<1>1. IsFiniteSet({n}) /\ Cardinality({n}) = 1 /\ {n} \in SUBSET Row
  BY FS_Singleton
<1>2. At({n}, 1) = n
  <2>1. {q \in {n} : q.id <= n.id} = {n}
    BY DEF Row
  <2>2. Rank({n}, n) = 1
    BY <1>1, <2>1 DEF Rank
  <2> QED BY <2>2 DEF At
<1> HIDE DEF Row
<1>3. 1 \in 1..Cardinality({n})
  BY <1>1
<1> QED BY <1>1, <1>2, <1>3, PlacesJoined

\* A row with an id above all others comes last.
LEMMA BodiesAppend ==
  ASSUME NEW S \in SUBSET Row, IsFiniteSet(S), NEW n \in Row, \A r \in S : r.id < n.id
  PROVE  BodiesInOrder(S \cup {n}) = Append(BodiesInOrder(S), n.body)
<1> DEFINE c == Cardinality(S)
           f == BodiesInOrder(S \cup {n})
           g == BodiesInOrder(S)
           X == {f[i] : i \in 1..(c + 1)}
<1>1. /\ c \in Nat /\ Cardinality(S \cup {n}) = c + 1
      /\ At(S \cup {n}, c + 1) = n /\ \A i \in 1..c : At(S \cup {n}, i) = At(S, i)
  BY LastPlace
<1>2. /\ f = [i \in 1..(c + 1) |-> At(S \cup {n}, i).body]
      /\ g = [i \in 1..c |-> At(S, i).body]
  BY <1>1 DEF BodiesInOrder
<1> HIDE DEF f, g, c
<1>4. f[c + 1] = n.body /\ \A i \in 1..c : f[i] = g[i]
  <2>1. c + 1 \in 1..(c + 1) /\ \A i \in 1..c : i \in 1..(c + 1)
    BY <1>1
  <2>2. f[c + 1] = At(S \cup {n}, c + 1).body
    BY <1>2, <2>1, Zenon
  <2>3. \A i \in 1..c : f[i] = At(S \cup {n}, i).body /\ g[i] = At(S, i).body
    BY <1>2, <2>1, Zenon
  <2>4. \A i \in 1..c : At(S \cup {n}, i) = At(S, i)
    BY <1>1, Zenon
  <2>5. \A i \in 1..c : f[i] = g[i]
    BY <2>3, <2>4, Zenon
  <2>6. At(S \cup {n}, c + 1).body = n.body
    BY <1>1, Zenon
  <2> QED BY <2>2, <2>5, <2>6, Zenon
<1>5. f \in [1..(c + 1) -> X] /\ g \in [1..c -> X] /\ c \in Nat
  <2>1. \A i \in 1..c : i \in 1..(c + 1)
    BY <1>1
  <2> QED BY <1>1, <1>2, <1>4, <2>1
<1> HIDE DEF X
<1>6. f = Append(g, n.body)
  BY <1>4, <1>5, AppendShape
<1> QED BY <1>6 DEF f, g

\* The row append_audit_log adds commits to one record more.
LEMMA AppendRecounts ==
  ASSUME NEW S \in SUBSET Row, IsFiniteSet(S), Recounts(S),
         NEW n \in Row, \A r \in S : r.id < n.id,
         n.entry_hash = Hash(n.body, HeadHash(S))
  PROVE  Recounts(S \cup {n})
<1>1. \A r \in S \cup {n} : r.id <= n.id /\ r.id \in Nat
  BY DEF Row
<1>2. Newest(S \cup {n}) = n
  BY <1>1 DEF Newest
<1>3. HeadHash(S \cup {n}) = n.entry_hash
  BY <1>2 DEF HeadHash
<1> QED BY <1>3, BodiesAppend DEF Recounts, Hash

LEMMA NestedInitially == Init => HInv
<1> SUFFICES ASSUME Init PROVE HInv
  OBVIOUS
<1>1. HeadHash({}) = BodiesInOrder({})
  BY FS_EmptySet DEF HeadHash, NoDigest, BodiesInOrder
<1>2. Telling({})
  BY <1>1 DEF Telling, Nested, Recounts
<1>3. table = {} /\ \A s \in Sessions : Visible(s) = {}
  BY DEF Init, Visible
<1> QED BY <1>2, <1>3, InitEstablishesIInv DEF HInv

LEMMA NextKeepsNested == HInv /\ [Next]_vars => HInv'
<1> SUFFICES ASSUME HInv, [Next]_vars PROVE HInv'
  OBVIOUS
<1>1. IInv'
  BY NextKeepsIInv DEF HInv
<1>2. IInv /\ Telling(table) /\ \A s \in Sessions : Telling(Visible(s))
  BY DEF HInv
<1>3. rows \in [Sessions -> SUBSET Row] /\ table \subseteq Row
  BY <1>2 DEF IInv, TypeOK
<1>4. ASSUME NEW s \in Sessions, NEW body \in Bodies, Flush(s, body) PROVE HInv'
  <2> DEFINE n == [id |-> nextId, body |-> body, previous_hash |-> head[s],
                   entry_hash |-> Hash(body, head[s])]
  <2>1. n \in Row
    BY <1>2 DEF IInv, TypeOK, Row, Hash, Digest
  <2>2. head[s] = HeadHash(Visible(s))
    BY <1>2, <1>4 DEF Flush, IInv, HeadIsFresh
  <2>3. /\ Visible(s) \in SUBSET Row /\ Chained(Visible(s)) /\ \A r \in Visible(s) : r.id < nextId
        /\ IsFiniteSet(Visible(s))
    BY <1>2, <1>3, FS_Union DEF IInv, VisibleChained, Visible
  <2>4. Telling(Visible(s) \cup {n})
    <3>1. n.id = nextId /\ n.entry_hash = Hash(n.body, HeadHash(Visible(s)))
      BY <2>2
    <3> HIDE DEF n
    <3>2. Nested(Visible(s) \cup {n})
      BY <1>2, <2>1, <2>3, <3>1, AppendKeepsNested DEF Telling
    <3>3. Recounts(Visible(s) \cup {n})
      BY <1>2, <2>1, <2>3, <3>1, AppendRecounts DEF Telling
    <3> QED BY <3>2, <3>3 DEF Telling
  <2>5. table' = table /\ rows' = [rows EXCEPT ![s] = @ \cup {n}]
    BY <1>4 DEF Flush
  <2> HIDE DEF n
  <2>6. Visible(s)' = Visible(s) \cup {n} /\ \A t \in Sessions \ {s} : Visible(t)' = Visible(t)
    BY <1>3, <2>5 DEF Visible
  <2>7. \A t \in Sessions : Telling(Visible(t)')
    BY <1>2, <2>4, <2>6
  <2>8. Telling(table')
    BY <1>2, <2>5
  <2> QED BY <1>1, <2>7, <2>8 DEF HInv
<1>5. ASSUME NEW s \in Sessions, Commit(s) PROVE HInv'
  <2>1. table' = Visible(s) /\ rows' = [rows EXCEPT ![s] = {}]
    BY <1>5 DEF Commit, Visible
  <2>2. \A t \in Sessions : Visible(t)' = Visible(s) \/ Visible(t)' = Visible(t)
    <3>1. \A t \in Sessions \ {s} : rows[t] = {} \/ rows[s] = {}
      BY <1>2 DEF IInv, LockDiscipline
    <3> QED BY <1>3, <2>1, <3>1 DEF Visible
  <2> QED BY <1>1, <1>2, <2>1, <2>2 DEF HInv
<1>6. CASE \/ \E s \in Sessions : \/ Begin(s) \/ Verify(s) \/ RequestLock(s) \/ GrantLock(s)
                                  \/ ReadHead(s) \/ Rollback(s)
           \/ UNCHANGED vars
  <2>1. table' = table /\ \A t \in Sessions : rows'[t] = rows[t] \/ rows'[t] = {}
    BY <1>3, <1>6 DEF Begin, Verify, RequestLock, GrantLock, ReadHead, Rollback, vars
  <2>2. \A t \in Sessions : Visible(t)' = Visible(t) \/ Visible(t)' = table
    BY <2>1 DEF Visible
  <2> QED BY <1>1, <1>2, <2>1, <2>2 DEF HInv
<1> QED BY <1>4, <1>5, <1>6 DEF Next

\* The newest hash, as GET /admin/audit/verify returns it, commits to all that
\* an earlier one did, and to at least one record more for each transaction
\* committed since.
HeadsOnlyGrow == [][Extends(HeadHash(table'), HeadHash(table))]_(HeadHash(table))

LEMMA HistoryStep ==
  HInv /\ [Next]_vars => [Extends(HeadHash(table'), HeadHash(table))]_(HeadHash(table))
<1> SUFFICES ASSUME HInv, [Next]_vars, table' # table
             PROVE  Extends(HeadHash(table'), HeadHash(table))
  OBVIOUS
<1>1. PICK s \in Sessions : Commit(s)
  BY DEF Next, Begin, Verify, RequestLock, GrantLock, ReadHead, Flush, Rollback, vars
<1> DEFINE V == Visible(s)
           n == Newest(V)
           new == n.entry_hash
           old == HeadHash(table)
<1>2. table' = V /\ rows[s] # {}
  BY <1>1 DEF Commit, Visible
<1>3. /\ V \in SUBSET Row /\ Chained(V) /\ Nested(V) /\ Chained(table) /\ table \subseteq V
      /\ \A r \in rows[s] : \A q \in table : q.id < r.id
  BY DEF HInv, Telling, IInv, TypeOK, VisibleChained, UncommittedLast, Visible
<1>4. V # {} /\ rows[s] \subseteq V
  BY <1>2 DEF Visible
<1>5. n \in V /\ \A q \in V : q.id <= n.id
  BY <1>3, <1>4, NewestIsMember DEF Chained
<1>6. HeadHash(table') = new
  BY <1>2, <1>4 DEF HeadHash
<1>7. Extends(new, old)
  <2>1. CASE table = {}
    <3>1. new = Append(n.previous_hash, n.body) /\ n.previous_hash \in Seq(Bodies) /\ n.body \in Bodies
      BY <1>3, <1>5 DEF Chained, Mismatches, Hash, Row, Digest
    <3>2. old = <<>> /\ Len(new) > 0
      BY <2>1, <3>1 DEF HeadHash, NoDigest
    <3> QED BY <3>2 DEF Extends
  <2>2. CASE table # {}
    <3> DEFINE m == Newest(table)
    <3>1. m \in table /\ old = m.entry_hash
      BY <1>3, <2>2, NewestIsMember DEF Chained, HeadHash
    <3>2. PICK r \in rows[s] : TRUE
      BY <1>2
    <3>3. m.id < r.id /\ r.id <= n.id /\ m.id \in Nat /\ r.id \in Nat /\ n.id \in Nat
      BY <1>3, <1>4, <1>5, <3>1, <3>2 DEF Row
    <3> QED BY <1>3, <1>5, <3>1, <3>3 DEF Nested
  <2> QED BY <2>1, <2>2
<1> QED BY <1>6, <1>7

\* A head that was verified once stays part of every later one: whoever keeps
\* the hash GET /admin/audit/verify returned can tell a log that was cut off.
THEOREM VerifiedHeadStays == Spec => HeadsOnlyGrow
BY HistoryStep, NestedInitially, NextKeepsNested, PTL DEF Spec, HeadsOnlyGrow

\* No rows make no history.
LEMMA InOrderEmpty == InOrder({}) = <<>>
BY FS_EmptySet DEF InOrder

\* The contents of rows in order are their bodies in order.
LEMMA ContentsInOrder ==
  ASSUME NEW S
  PROVE  Trail!Contents(InOrder(S)) = BodiesInOrder(S)
BY DEF Trail!Contents, InOrder, BodiesInOrder, Entry

\* The history of rows behind other rows is the one behind the other.
LEMMA InOrderJoined ==
  ASSUME NEW A \in SUBSET Row, NEW B \in SUBSET Row, IsFiniteSet(A), IsFiniteSet(B),
         \A a \in A, b \in B : a.id < b.id
  PROVE  InOrder(A \cup B) = InOrder(A) \o InOrder(B)
<1> DEFINE a == Cardinality(A)
           b == Cardinality(B)
           f == InOrder(A \cup B)
           g == InOrder(A)
           h == InOrder(B)
           X == {g[i] : i \in 1..a} \cup {h[i] : i \in 1..b}
           j == g \o h
<1>1. /\ a \in Nat /\ b \in Nat /\ Cardinality(A \cup B) = a + b
      /\ \A i \in 1..a : At(A \cup B, i) = At(A, i)
      /\ \A i \in 1..b : At(A \cup B, a + i) = At(B, i)
  BY PlacesJoined
<1>2. /\ f = [i \in 1..(a + b) |-> Entry(At(A \cup B, i))]
      /\ g = [i \in 1..a |-> Entry(At(A, i))]
      /\ h = [i \in 1..b |-> Entry(At(B, i))]
  BY <1>1 DEF InOrder
<1> HIDE DEF f, g, h, a, b
<1>3. g \in [1..a -> X] /\ h \in [1..b -> X]
  BY <1>2
<1> HIDE DEF X
<1>4. g \in Seq(X) /\ Len(g) = a /\ h \in Seq(X) /\ Len(h) = b
  BY <1>1, <1>3
<1>5. /\ j \in Seq(X) /\ Len(j) = a + b
      /\ \A i \in 1..a : j[i] = g[i]
      /\ \A i \in 1..b : j[a + i] = h[i]
  <2>1. /\ j \in Seq(X) /\ Len(j) = a + b
        /\ \A i \in 1..(a + b) : j[i] = IF i <= a THEN g[i] ELSE h[i - a]
    BY <1>4, ConcatProperties
  <2> HIDE DEF j
  <2>2. \A i \in 1..a : i \in 1..(a + b) /\ i <= a
    BY <1>1
  <2>3. \A i \in 1..b : a + i \in 1..(a + b) /\ ~(a + i <= a) /\ (a + i) - a = i
    BY <1>1
  <2> QED BY <2>1, <2>2, <2>3
<1>6. \A i \in 1..a : f[i] = j[i]
  <2>1. \A i \in 1..a : i \in 1..(a + b)
    BY <1>1
  <2>2. \A i \in 1..a : f[i] = Entry(At(A \cup B, i)) /\ g[i] = Entry(At(A, i))
    BY <1>2, <2>1, Zenon
  <2>3. \A i \in 1..a : At(A \cup B, i) = At(A, i) /\ j[i] = g[i]
    BY <1>1, <1>5, Zenon
  <2> QED BY <2>2, <2>3, Zenon
<1>7. \A i \in 1..b : f[a + i] = j[a + i]
  <2>1. \A i \in 1..b : a + i \in 1..(a + b)
    BY <1>1
  <2>2. \A i \in 1..b : f[a + i] = Entry(At(A \cup B, a + i)) /\ h[i] = Entry(At(B, i))
    BY <1>2, <2>1, Zenon
  <2>3. \A i \in 1..b : At(A \cup B, a + i) = At(B, i) /\ j[a + i] = h[i]
    BY <1>1, <1>5, Zenon
  <2> QED BY <2>2, <2>3, Zenon
<1>8. \A i \in 1..(a + b) : f[i] = j[i]
  <2>1. \A i \in 1..(a + b) : i \in 1..a \/ \E k \in 1..b : i = a + k
    <3> SUFFICES ASSUME NEW i \in 1..(a + b), i \notin 1..a PROVE \E k \in 1..b : i = a + k
      OBVIOUS
    <3>1. i - a \in 1..b /\ i = a + (i - a)
      BY <1>1
    <3> QED BY <3>1
  <2> QED BY <1>6, <1>7, <2>1, Zenon
<1> HIDE DEF j
<1>9. j = [i \in 1..(a + b) |-> j[i]]
  <2>1. j \in [1..(a + b) -> X]
    BY <1>5, LenProperties
  <2> QED BY <2>1
<1>10. f = [i \in 1..(a + b) |-> f[i]]
  BY <1>2
<1>11. f = j
  BY <1>8, <1>9, <1>10, Zenon
<1> QED BY <1>11 DEF f, g, h, j

\* The history of rows grows by the row that comes behind them.
LEMMA InOrderAppend ==
  ASSUME NEW S \in SUBSET Row, IsFiniteSet(S), NEW n \in Row, \A r \in S : r.id < n.id
  PROVE  InOrder(S \cup {n}) = Append(InOrder(S), [body |-> n.body, seal |-> n.entry_hash])
<1> DEFINE c == Cardinality(S)
           f == InOrder(S \cup {n})
           g == InOrder(S)
           x == Entry(n)
           X == {f[i] : i \in 1..(c + 1)}
<1>1. /\ c \in Nat /\ Cardinality(S \cup {n}) = c + 1
      /\ At(S \cup {n}, c + 1) = n /\ \A i \in 1..c : At(S \cup {n}, i) = At(S, i)
  BY LastPlace
<1>2. /\ f = [i \in 1..(c + 1) |-> Entry(At(S \cup {n}, i))]
      /\ g = [i \in 1..c |-> Entry(At(S, i))]
  BY <1>1 DEF InOrder
<1> HIDE DEF f, g, c, x
<1>4. f[c + 1] = x /\ \A i \in 1..c : f[i] = g[i]
  <2>1. c + 1 \in 1..(c + 1) /\ \A i \in 1..c : i \in 1..(c + 1)
    BY <1>1
  <2>2. f[c + 1] = Entry(At(S \cup {n}, c + 1))
    BY <1>2, <2>1, Zenon
  <2>3. \A i \in 1..c : f[i] = Entry(At(S \cup {n}, i)) /\ g[i] = Entry(At(S, i))
    BY <1>2, <2>1, Zenon
  <2> QED BY <1>1, <2>2, <2>3, Zenon DEF x
<1>5. f \in [1..(c + 1) -> X] /\ g \in [1..c -> X] /\ c \in Nat
  <2>1. \A i \in 1..c : i \in 1..(c + 1)
    BY <1>1
  <2> QED BY <1>1, <1>2, <1>4, <2>1
<1> HIDE DEF X
<1>6. f = Append(g, x)
  BY <1>4, <1>5, AppendShape
<1> QED BY <1>6 DEF f, g, x, Entry

\* What a transaction sees is what is committed, and its own records behind it.
LEMMA SeenInOrder ==
  ASSUME HInv, NEW s \in Sessions
  PROVE  /\ InOrder(Visible(s)) = InOrder(table) \o InOrder(rows[s])
         /\ HeadHash(Visible(s)) = Trail!Contents(InOrder(table) \o InOrder(rows[s]))
<1>1. /\ table \in SUBSET Row /\ rows[s] \in SUBSET Row
      /\ IsFiniteSet(table) /\ IsFiniteSet(rows[s])
      /\ \A a \in table, b \in rows[s] : a.id < b.id
  BY DEF HInv, IInv, TypeOK, VisibleChained, UncommittedLast
<1>2. InOrder(Visible(s)) = InOrder(table) \o InOrder(rows[s])
  BY <1>1, InOrderJoined DEF Visible
<1>3. HeadHash(Visible(s)) = BodiesInOrder(Visible(s))
  BY DEF HInv, Telling, Recounts
<1> QED BY <1>2, <1>3, ContentsInOrder

\* A flushed record is one that its transaction adds to the trail.
LEMMA FlushAdds ==
  ASSUME HInv, NEW s \in Sessions, NEW body \in Bodies, Flush(s, body)
  PROVE  Trail!Add(s, body)
<1> DEFINE n == [id |-> nextId, body |-> body, previous_hash |-> head[s],
                 entry_hash |-> Hash(body, head[s])]
           P == [t \in Sessions |-> InOrder(rows[t])]
<1>1. /\ rows \in [Sessions -> SUBSET Row] /\ n \in Row
      /\ IsFiniteSet(rows[s]) /\ \A r \in rows[s] : r.id < n.id
  BY DEF HInv, IInv, TypeOK, VisibleChained, Row, Hash, Digest
<1>2. n.body = body /\ n.entry_hash = Append(head[s], body)
  BY DEF Hash
<1>3. rows' = [rows EXCEPT ![s] = @ \cup {n}] /\ table' = table
  BY DEF Flush
<1>4. head[s] = Trail!Contents(InOrder(table) \o InOrder(rows[s]))
  BY SeenInOrder DEF Flush, HInv, IInv, HeadIsFresh
<1> HIDE DEF n
<1>5. InOrder(rows'[s]) = Append(InOrder(rows[s]), [body |-> body, seal |-> Append(head[s], body)])
  <2>1. rows'[s] = rows[s] \cup {n}
    BY <1>1, <1>3
  <2>2. rows[s] \in SUBSET Row
    BY <1>1
  <2> QED BY <1>1, <1>2, <2>1, <2>2, InOrderAppend
<1>6. \A t \in Sessions \ {s} : rows[t] = {} /\ rows'[t] = rows[t]
  BY <1>1, <1>3 DEF Flush, HInv, IInv, LockDiscipline
<1>7. \A t \in Sessions \ {s} : P[t] = <<>>
  BY <1>6, InOrderEmpty
<1>8. P' = [P EXCEPT ![s] = Append(@, Trail!Sealed(InOrder(table) \o @, body))]
  <2>1. P[s] = InOrder(rows[s])
    OBVIOUS
  <2>2. Trail!Sealed(InOrder(table) \o P[s], body) = [body |-> body, seal |-> Append(head[s], body)]
    BY <1>4, <2>1 DEF Trail!Sealed
  <2>3. P'[s] = Append(P[s], Trail!Sealed(InOrder(table) \o P[s], body))
    BY <1>5, <2>1, <2>2
  <2>4. \A t \in Sessions \ {s} : P'[t] = P[t]
    BY <1>6
  <2> HIDE DEF P
  <2>5. P = [t \in Sessions |-> P[t]] /\ P' = [t \in Sessions |-> P'[t]]
    BY DEF P
  <2> QED BY <2>3, <2>4, <2>5
<1>9. InOrder(table)' = InOrder(table)
  BY <1>3
<1> QED BY <1>7, <1>8, <1>9 DEF Trail!Add

\* A transaction's rows enter the history together.
LEMMA CommitCommits ==
  ASSUME HInv, NEW s \in Sessions, Commit(s)
  PROVE  Trail!Commit(s)
<1> DEFINE P == [t \in Sessions |-> InOrder(rows[t])]
<1>1. table' = Visible(s) /\ rows' = [rows EXCEPT ![s] = {}]
      /\ rows \in [Sessions -> SUBSET Row]
  BY DEF Commit, Visible, HInv, IInv, TypeOK
<1>2. InOrder(table)' = InOrder(table) \o P[s]
  BY <1>1, SeenInOrder
<1>3. rows'[s] = {} /\ \A t \in Sessions \ {s} : rows'[t] = rows[t]
  BY <1>1
<1>4. P' = [P EXCEPT ![s] = <<>>]
  BY <1>3, InOrderEmpty
<1> QED BY <1>2, <1>4 DEF Trail!Commit

\* Nothing of a transaction that is rolled back enters it.
LEMMA RollbackAborts ==
  ASSUME HInv, NEW s \in Sessions, Rollback(s)
  PROVE  Trail!Abort(s)
<1> DEFINE P == [t \in Sessions |-> InOrder(rows[t])]
<1>1. table' = table /\ rows' = [rows EXCEPT ![s] = {}]
      /\ rows \in [Sessions -> SUBSET Row]
  BY DEF Rollback, HInv, IInv, TypeOK
<1>2. rows'[s] = {} /\ \A t \in Sessions \ {s} : rows'[t] = rows[t]
  BY <1>1
<1>3. P' = [P EXCEPT ![s] = <<>>]
  BY <1>2, InOrderEmpty
<1> QED BY <1>1, <1>3 DEF Trail!Abort

LEMMA TrailStep == HInv /\ [Next]_vars => [Trail!Next]_(Trail!vars)
<1> SUFFICES ASSUME HInv, [Next]_vars PROVE [Trail!Next]_(Trail!vars)
  OBVIOUS
<1>1. ASSUME NEW s \in Sessions, NEW body \in Bodies, Flush(s, body) PROVE Trail!Next
  BY <1>1, FlushAdds DEF Trail!Next
<1>2. ASSUME NEW s \in Sessions, Commit(s) PROVE Trail!Next
  BY <1>2, CommitCommits DEF Trail!Next
<1>3. ASSUME NEW s \in Sessions, Rollback(s) PROVE Trail!Next
  BY <1>3, RollbackAborts DEF Trail!Next
<1>4. CASE \/ \E s \in Sessions : \/ Begin(s) \/ Verify(s) \/ RequestLock(s) \/ GrantLock(s)
                                  \/ ReadHead(s)
           \/ UNCHANGED vars
  <2>1. table' = table /\ rows' = rows
    BY <1>4 DEF Begin, Verify, RequestLock, GrantLock, ReadHead, vars
  <2>2. UNCHANGED Trail!vars
    BY <2>1 DEF Trail!vars
  <2> QED BY <2>2
<1> QED BY <1>1, <1>2, <1>3, <1>4 DEF Next

\* The log implements the trail its readers are promised: for any number of
\* sessions, transactions enter it as if they had run one after the other, each
\* whole or not at all, and each hash covers every record before its own.
THEOREM LogImplementsTrail == Spec => ImplementsTrail
<1>1. Init => Trail!Init
  BY InOrderEmpty DEF Init, Trail!Init
<1> QED BY <1>1, TrailStep, NestedInitially, NextKeepsNested, PTL
        DEF Spec, ImplementsTrail, Trail!Spec
=============================================================================
