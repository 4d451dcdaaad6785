-------------------------- MODULE UserAdmin_proofs --------------------------
(***************************************************************************)
(* Machine-checked proofs that first logins do not collide, that no update *)
(* of a user is lost, that an update which leaves no administrator had     *)
(* counted another one, and that all variables keep their types, for any   *)
(* workers, subjects and bounds.                                           *)
(***************************************************************************)
EXTENDS UserAdmin, FiniteSetTheorems, TLAPS

Loaded == {"check", "write"}

\* A transaction in each of its phases.  A subject that was found absent is
\* created under the lock of its login; what an update has loaded is the row as
\* it is; an update that removes an administrator has counted two.
WellFormed(t) ==
  /\ "phase" \in DOMAIN t
  /\ t.phase # "idle" => {"phase", "by", "lock"} \subseteq DOMAIN t
  /\ t.phase \in {"login", "lookup", "created"} => t.by \in Subjects
  /\ t.phase = "login" => t.lock = None
  /\ t.phase = "lookup" => t.lock = t.by \/ users[t.by] # Absent
  /\ t.phase = "created" => t.lock = t.by /\ users[t.by] = Absent
  /\ t.phase \in {"load", "check", "write"} =>
       t.target \in Subjects /\ t.update \in Update /\ users[t.target] # Absent
  /\ t.phase \in Loaded => t.user = users[t.target]
  /\ t.phase = "write" /\ t.user.role = "admin"
     /\ (t.update.role = "viewer" \/ t.update.is_active = FALSE) => Cardinality(t.counted) > 1

Typed ==
  /\ users \in [Subjects -> User \cup {Absent}]
  /\ txn = [p \in Procs |-> txn[p]]
  /\ \A p \in Procs : WellFormed(txn[p])

\* The advisory lock of a login has one holder.
LoginsExclude ==
  \A p, q \in Procs :
    Busy(p) /\ Busy(q) /\ txn[p].lock = txn[q].lock /\ txn[p].lock # None => p = q

\* The row of a user has one lock holder.
RowsExclude ==
  \A p, q \in Procs :
    txn[p].phase \in Loaded /\ txn[q].phase \in Loaded /\ txn[p].target = txn[q].target => p = q

IInv == Typed /\ LoginsExclude /\ RowsExclude /\ FirstLoginsDoNotCollide

-----------------------------------------------------------------------------
LEMMA UpdatedIsUser ==
  ASSUME NEW u \in User, NEW update \in Update
  PROVE  Updated(u, update) \in User
<1>1. /\ update.role \in {"viewer", "admin"} \/ update.role = None
      /\ update.is_active \in BOOLEAN \/ update.is_active = None
  BY DEF Update
<1>2. u.role \in {"viewer", "admin"} /\ u.is_active \in BOOLEAN
  BY DEF User
<1>3. (IF update.role = None THEN u.role ELSE update.role) \in {"viewer", "admin"}
  BY <1>1, <1>2
<1>4. (IF update.is_active = None THEN u.is_active ELSE update.is_active) \in BOOLEAN
  BY <1>1, <1>2
<1> QED BY <1>3, <1>4, Zenon DEF Updated, User

\* An update that makes an active administrator something else removes one.
LEMMA RemovalIsSeen ==
  ASSUME NEW p, txn[p].user \in User, txn[p].update \in Update,
         IsActiveAdmin(txn[p].user), ~IsActiveAdmin(Updated(txn[p].user, txn[p].update)),
         UsersAssumption
  PROVE  RemovesAdmin(p)
<1>1. Updated(txn[p].user, txn[p].update) # Absent
  BY UpdatedIsUser, UsersAssumption
<1> QED BY <1>1 DEF IsActiveAdmin, Updated, RemovesAdmin, Update, User

LEMMA IdleShape == "phase" \in DOMAIN Idle /\ Idle.phase = "idle" /\ WellFormed(Idle)
BY DEF Idle, WellFormed, Loaded

LEMMA Initially == Init => IInv
<1> SUFFICES ASSUME Init PROVE IInv
  OBVIOUS
<1>1. \A p \in Procs : txn[p] = Idle /\ ~Busy(p)
  BY IdleShape DEF Init, Busy
<1>2. Typed
  BY <1>1, IdleShape, UsersAssumption DEF Init, Typed
<1> QED BY <1>1, <1>2, IdleShape DEF Init, IInv, LoginsExclude, RowsExclude,
           FirstLoginsDoNotCollide, Loaded

\* Steps of one transaction that leave the table alone.
LEMMA StepKeeps ==
  ASSUME IInv, UNCHANGED users, FirstLoginsDoNotCollide', NEW p \in Procs, NEW t, Set(p, t), WellFormed(t),
         \/ t.phase = "idle" \/ t.lock = None \/ (Busy(p) /\ t.lock = txn[p].lock)
         \/ \A q \in Procs \ {p} : Busy(q) => txn[q].lock # t.lock,
         \/ t.phase \notin Loaded
         \/ txn[p].phase \in Loaded /\ t.target = txn[p].target
         \/ \A q \in Procs \ {p} : txn[q].phase \in Loaded => txn[q].target # t.target
  PROVE  IInv'
<1>1. /\ txn' = [q \in Procs |-> txn'[q]]
      /\ \A q \in Procs : txn'[q] = IF q = p THEN t ELSE txn[q]
  BY DEF Set, IInv, Typed
<1>2. \A q \in Procs : WellFormed(txn[q])' = WellFormed(IF q = p THEN t ELSE txn[q])
  BY <1>1 DEF WellFormed
<1>3. Typed'
  BY <1>1, <1>2 DEF IInv, Typed
<1>4. LoginsExclude'
  BY <1>1 DEF IInv, LoginsExclude, Busy
<1>5. RowsExclude'
  BY <1>1 DEF IInv, RowsExclude
<1> QED BY <1>3, <1>4, <1>5 DEF IInv

LEMMA SetKeeps ==
  ASSUME IInv, UNCHANGED <<users, uniqueErrors>>, NEW p \in Procs, NEW t, Set(p, t), WellFormed(t),
         \/ t.phase = "idle" \/ t.lock = None \/ (Busy(p) /\ t.lock = txn[p].lock)
         \/ \A q \in Procs \ {p} : Busy(q) => txn[q].lock # t.lock,
         \/ t.phase \notin Loaded
         \/ txn[p].phase \in Loaded /\ t.target = txn[p].target
         \/ \A q \in Procs \ {p} : txn[q].phase \in Loaded => txn[q].target # t.target
  PROVE  IInv'
<1>1. FirstLoginsDoNotCollide'
  BY DEF IInv, FirstLoginsDoNotCollide
<1> QED BY <1>1, StepKeeps

LEMMA EndKeeps ==
  ASSUME IInv, NEW p \in Procs, LoginForbidden(p) \/ Refuse(p) \/ End(p)
  PROVE  IInv'
<1>1. Set(p, Idle) /\ UNCHANGED <<users, uniqueErrors>>
  BY DEF LoginForbidden, Refuse, End
<1>2. WellFormed(Idle) /\ Idle.phase = "idle" /\ Idle.phase \notin Loaded
  BY IdleShape DEF Loaded
<1> HIDE DEF Idle
<1> QED BY <1>1, <1>2, SetKeeps

LEMMA LoginKeeps ==
  ASSUME IInv, NEW p \in Procs,
         \/ \E by \in Principals : Request(p, by)
         \/ LoginLock(p) \/ LoginAdmin(p) \/ LoginCreate(p)
  PROVE  IInv'
<1> DEFINE u == txn[p]
<1>1. WellFormed(u)
  BY DEF IInv, Typed
<1>2. ASSUME NEW by \in Principals, Request(p, by)
      PROVE  IInv'
  <2> DEFINE t == [phase |-> IF by = Bootstrap THEN "ready" ELSE "login", by |-> by, lock |-> None]
  <2>1. WellFormed(t) /\ t.lock = None /\ t.phase \notin Loaded
    BY DEF WellFormed, Principals, Loaded
  <2>2. Set(p, t) /\ UNCHANGED <<users, uniqueErrors>>
    BY <1>2 DEF Request
  <2> HIDE DEF t
  <2> QED BY <2>1, <2>2, SetKeeps
<1>3. CASE LoginLock(p)
  <2> DEFINE t == [u EXCEPT !.phase = "lookup", !.lock = u.by]
  <2>1. u.phase = "login" /\ \A q \in Procs \ {p} : Busy(q) => txn[q].lock # u.by
    BY <1>3 DEF LoginLock
  <2>2. t.phase = "lookup" /\ t.lock = u.by /\ t.by = u.by /\ DOMAIN t = DOMAIN u
    BY <1>1, <2>1 DEF WellFormed
  <2>3. Set(p, t) /\ UNCHANGED <<users, uniqueErrors>>
    BY <1>3 DEF LoginLock
  <2> HIDE DEF t
  <2>4. WellFormed(t) /\ t.phase \notin Loaded
    BY <1>1, <2>1, <2>2 DEF WellFormed, Loaded
  <2> QED BY <2>1, <2>2, <2>3, <2>4, SetKeeps
<1>4. ASSUME LoginAdmin(p) \/ LoginCreate(p) PROVE IInv'
  <2>1. PICK phase \in {"ready", "created"} :
          /\ Set(p, [u EXCEPT !.phase = phase])
          /\ phase = "created" => users[u.by] = Absent
    BY <1>4 DEF LoginAdmin, LoginCreate
  <2> DEFINE t == [u EXCEPT !.phase = phase]
  <2>2. u.phase = "lookup" /\ UNCHANGED <<users, uniqueErrors>>
    BY <1>4 DEF LoginAdmin, LoginCreate
  <2>3. t.phase = phase /\ t.lock = u.lock /\ t.by = u.by /\ DOMAIN t = DOMAIN u
    BY <1>1, <2>2 DEF WellFormed
  <2> HIDE DEF t
  <2>4. WellFormed(t) /\ t.phase \notin Loaded /\ Busy(p)
    BY <1>1, <2>1, <2>2, <2>3 DEF WellFormed, Loaded, Busy
  <2>5. Set(p, t)
    BY <2>1 DEF t
  <2> QED BY <2>2, <2>3, <2>4, <2>5, SetKeeps
<1> QED BY <1>2, <1>3, <1>4

LEMMA UpdateKeeps ==
  ASSUME IInv, NEW p \in Procs,
         \/ \E target \in Subjects, update \in Update : StartUpdate(p, target, update)
         \/ Load(p) \/ Allow(p)
  PROVE  IInv'
<1> DEFINE u == txn[p]
<1>1. WellFormed(u)
  BY DEF IInv, Typed
<1>2. ASSUME NEW target \in Subjects, NEW update \in Update, StartUpdate(p, target, update)
      PROVE  IInv'
  <2> DEFINE t == [phase |-> "load", by |-> u.by, lock |-> u.lock, target |-> target,
                   update |-> update]
  <2>1. u.phase = "ready" /\ users[target] # Absent
    BY <1>2 DEF StartUpdate
  <2>2. WellFormed(t) /\ t.phase \notin Loaded /\ t.lock = u.lock
    BY <2>1 DEF WellFormed, Loaded
  <2>3. Set(p, t) /\ UNCHANGED <<users, uniqueErrors>>
    BY <1>2 DEF StartUpdate
  <2> HIDE DEF t
  <2> QED BY <2>1, <2>2, <2>3, SetKeeps DEF Busy
<1>3. CASE Load(p)
  <2> DEFINE t == [phase |-> "check", by |-> u.by, lock |-> u.lock, target |-> u.target,
                   update |-> u.update, user |-> users[u.target]]
  <2>1. u.phase = "load" /\ \A q \in Procs \ {p} : txn[q].phase \in Loaded => txn[q].target # u.target
    BY <1>3 DEF Load, Loaded
  <2>2. WellFormed(t) /\ t.target = u.target /\ t.lock = u.lock
    BY <1>1, <2>1 DEF WellFormed, Loaded
  <2>3. Set(p, t) /\ UNCHANGED <<users, uniqueErrors>>
    BY <1>3 DEF Load
  <2> HIDE DEF t
  <2> QED BY <2>1, <2>2, <2>3, SetKeeps DEF Busy
<1>4. CASE Allow(p)
  <2> DEFINE t == [phase |-> "write", by |-> u.by, lock |-> u.lock, target |-> u.target,
                   update |-> u.update, user |-> u.user, counted |-> ActiveAdmins(users)]
  <2>1. u.phase = "check" /\ (RemovesAdmin(p) => Cardinality(ActiveAdmins(users)) > 1)
    BY <1>4 DEF Allow
  <2>2. /\ t.phase = "write" /\ t.target = u.target /\ t.lock = u.lock /\ t.update = u.update
        /\ t.user = u.user /\ t.counted = ActiveAdmins(users)
        /\ {"phase", "by", "lock"} \subseteq DOMAIN t
    OBVIOUS
  <2>3. Set(p, t) /\ UNCHANGED <<users, uniqueErrors>>
    BY <1>4 DEF Allow
  <2> HIDE DEF t
  <2>4. u.target \in Subjects /\ u.update \in Update /\ users[u.target] # Absent /\ u.user = users[u.target]
    BY <1>1, <2>1 DEF WellFormed, Loaded
  <2>5. t.user.role = "admin" /\ (t.update.role = "viewer" \/ t.update.is_active = FALSE)
          => Cardinality(t.counted) > 1
    BY <2>1, <2>2 DEF RemovesAdmin
  <2>6. WellFormed(t)
    BY <2>2, <2>4, <2>5 DEF WellFormed, Loaded
  <2> QED BY <2>1, <2>2, <2>3, <2>6, SetKeeps DEF Busy, Loaded
<1> QED BY <1>2, <1>3, <1>4

-----------------------------------------------------------------------------
(* The steps that change the table *)

\* What another transaction has found about a subject whose row is written is
\* not disturbed: it is neither creating that row nor updating it.
LEMMA TableKeeps ==
  ASSUME IInv, NEW s \in Subjects, NEW row \in User, users' = [users EXCEPT ![s] = row],
         NEW p \in Procs, NEW t, Set(p, t), WellFormed(t)',
         t.phase \notin Loaded, t.phase = "idle" \/ t.lock = None,
         \A q \in Procs \ {p} : /\ txn[q].phase = "created" => txn[q].by # s
                                /\ txn[q].phase \in Loaded => txn[q].target # s,
         FirstLoginsDoNotCollide'
  PROVE  IInv'
<1>1. /\ txn' = [q \in Procs |-> txn'[q]]
      /\ \A q \in Procs : txn'[q] = IF q = p THEN t ELSE txn[q]
  BY DEF Set, IInv, Typed
<1>2. users' \in [Subjects -> User \cup {Absent}]
  BY DEF IInv, Typed
<1>3. ASSUME NEW q \in Procs PROVE WellFormed(txn[q])'
  <2>1. CASE q = p
    BY <1>1, <2>1 DEF WellFormed
  <2>2. CASE q # p
    <3>1. WellFormed(txn[q])
      BY DEF IInv, Typed
    <3>2. txn'[q] = txn[q]
      BY <1>1, <2>2
    <3>3. /\ users'[s] # Absent
          /\ \A r \in Subjects : users[r] # Absent => users'[r] # Absent
          /\ \A r \in Subjects \ {s} : users'[r] = users[r]
      BY UsersAssumption DEF IInv, Typed
    <3> QED BY <2>2, <3>1, <3>2, <3>3 DEF WellFormed, Loaded
  <2> QED BY <2>1, <2>2
<1>4. Typed'
  BY <1>1, <1>2, <1>3 DEF Typed
<1>5. LoginsExclude'
  BY <1>1 DEF IInv, LoginsExclude, Busy
<1>6. RowsExclude'
  BY <1>1 DEF IInv, RowsExclude
<1> QED BY <1>4, <1>5, <1>6 DEF IInv

\* A login commits a row that no other transaction has found anything about:
\* it holds the lock, and the row was absent.
LEMMA LoginCommitKeeps ==
  ASSUME IInv, NEW p \in Procs, LoginCommit(p)
  PROVE  IInv'
<1> DEFINE u == txn[p]
           s == u.by
<1>1. u.phase = "created" /\ WellFormed(u)
  BY DEF LoginCommit, IInv, Typed
<1>2. s \in Subjects /\ u.lock = s /\ users[s] = Absent /\ s # None
  BY <1>1, UsersAssumption DEF WellFormed
<1>3. "subject" \notin Taken(s)
  BY <1>2 DEF Taken
<1>4. FirstLoginsDoNotCollide'
  BY <1>3 DEF LoginCommit, IInv, FirstLoginsDoNotCollide
<1>5. CASE Taken(s) = {}
  <2>1. users' = [users EXCEPT ![s] = NewUser] /\ Set(p, [u EXCEPT !.phase = "lookup", !.lock = None])
    BY <1>5 DEF LoginCommit
  <2>2. NewUser \in User
    BY DEF NewUser, User
  <2>3. PICK t : t = [u EXCEPT !.phase = "lookup", !.lock = None]
    OBVIOUS
  <2>4. /\ t.phase = "lookup" /\ t.lock = None /\ t.by = s
        /\ {"phase", "by", "lock"} \subseteq DOMAIN t /\ Set(p, t)
    BY <1>1, <2>1, <2>3 DEF WellFormed
  <2>5. WellFormed(t)' /\ t.phase \notin Loaded
    <3>1. users'[t.by] # Absent
      BY <1>2, <2>1, <2>2, <2>4, UsersAssumption DEF IInv, Typed
    <3> QED BY <1>2, <2>4, <3>1 DEF WellFormed, Loaded
  <2>6. ASSUME NEW q \in Procs \ {p}
        PROVE  /\ txn[q].phase = "created" => txn[q].by # s
               /\ txn[q].phase \in Loaded => txn[q].target # s
    <3>1. WellFormed(txn[q])
      BY DEF IInv, Typed
    <3>2. txn[q].phase = "created" => txn[q].by # s
      BY <1>1, <1>2, <3>1 DEF IInv, LoginsExclude, Busy, WellFormed
    <3>3. txn[q].phase \in Loaded => txn[q].target # s
      BY <1>2, <3>1 DEF WellFormed, Loaded
    <3> QED BY <3>2, <3>3
  <2> QED BY <1>2, <1>4, <2>1, <2>2, <2>4, <2>5, <2>6, TableKeeps
<1>6. CASE Taken(s) # {}
  <2>1. Set(p, Idle) /\ UNCHANGED users
    BY <1>6 DEF LoginCommit
  <2>2. WellFormed(Idle) /\ Idle.phase = "idle" /\ Idle.phase \notin Loaded
    BY IdleShape DEF Loaded
  <2> HIDE DEF Idle
  <2> QED BY <1>4, <2>1, <2>2, StepKeeps
<1> QED BY <1>5, <1>6

\* An update writes the row it has loaded, which is still there.
LEMMA WriteShape ==
  ASSUME IInv, NEW p \in Procs, txn[p].phase = "write"
  PROVE  /\ txn[p].target \in Subjects /\ users[txn[p].target] # Absent
         /\ txn[p].user = users[txn[p].target] /\ txn[p].user \in User
         /\ txn[p].update \in Update
         /\ RemovesAdmin(p) => Cardinality(txn[p].counted) > 1
<1>1. WellFormed(txn[p])
  BY DEF IInv, Typed
<1> QED BY <1>1 DEF WellFormed, Loaded, RemovesAdmin, IInv, Typed

LEMMA CommitUpdateKeeps ==
  ASSUME IInv, NEW p \in Procs, CommitUpdate(p)
  PROVE  IInv'
<1> DEFINE s == txn[p].target
           row == Updated(txn[p].user, txn[p].update)
<1>1. txn[p].phase = "write" /\ users' = [users EXCEPT ![s] = row] /\ Set(p, Idle)
  BY DEF CommitUpdate
<1>2. s \in Subjects /\ users[s] # Absent /\ row \in User
  BY <1>1, WriteShape, UpdatedIsUser
<1>3. ASSUME NEW q \in Procs \ {p}
      PROVE  /\ txn[q].phase = "created" => txn[q].by # s
             /\ txn[q].phase \in Loaded => txn[q].target # s
  <2>1. WellFormed(txn[q])
    BY DEF IInv, Typed
  <2> QED BY <1>1, <1>2, <2>1 DEF IInv, RowsExclude, WellFormed, Loaded
<1>4. FirstLoginsDoNotCollide'
  BY DEF CommitUpdate, IInv, FirstLoginsDoNotCollide
<1>5. WellFormed(Idle)' /\ Idle.phase = "idle" /\ Idle.phase \notin Loaded
  BY IdleShape DEF Loaded, WellFormed
<1> HIDE DEF Idle, row, s
<1> QED BY <1>1, <1>2, <1>3, <1>4, <1>5, TableKeeps

LEMMA Inductive == IInv /\ [Next]_vars => IInv'
<1> SUFFICES ASSUME IInv, [Next]_vars PROVE IInv'
  OBVIOUS
<1>1. CASE UNCHANGED vars
  BY <1>1 DEF vars, IInv, Typed, WellFormed, LoginsExclude, RowsExclude, Busy,
     FirstLoginsDoNotCollide
<1> QED BY <1>1, EndKeeps, LoginKeeps, UpdateKeeps, LoginCommitKeeps, CommitUpdateKeeps DEF Next

LEMMA Invariant == Spec => []IInv
BY Initially, Inductive, PTL DEF Spec

-----------------------------------------------------------------------------
\* What the types need besides the invariant: the parts of a transaction that
\* nothing above asks about, the errors and the bound.
Shaped ==
  /\ txn \in [Procs -> Transaction]
  /\ uniqueErrors \subseteq Subjects \X {"subject", "email"}
  /\ requests \in 0..MaxRequests

\* The transactions of a login, of an update that is to read its row, and of
\* one that has read it, each as a record of its own.
LEMMA TransactionShape ==
  ASSUME NEW t \in Transaction
  PROVE  /\ t.phase \in {"login", "lookup", "created", "ready"} =>
              t \in [phase : {"login", "lookup", "created", "ready"}, by : Principals,
                     lock : Subjects \cup {None}]
         /\ t.phase = "load" =>
              t \in [phase : {"load"}, by : Principals, lock : Subjects \cup {None},
                     target : Subjects, update : Update]
         /\ t.phase = "check" =>
              t \in [phase : {"check"}, by : Principals, lock : Subjects \cup {None},
                     target : Subjects, update : Update, user : User]
BY DEF Transaction, Idle

\* A transaction of the right shape leaves every transaction of the right shape.
LEMMA SetShaped ==
  ASSUME Shaped, NEW p \in Procs, NEW t \in Transaction, Set(p, t)
  PROVE  txn' \in [Procs -> Transaction]
BY DEF Shaped, Set

LEMMA LoginShaped ==
  ASSUME Shaped, IInv, NEW p \in Procs,
         \/ LoginLock(p) \/ LoginAdmin(p) \/ LoginCreate(p) \/ LoginCommit(p)
  PROVE  Shaped'
<1> DEFINE u == txn[p]
           Login == [phase : {"login", "lookup", "created", "ready"}, by : Principals,
                     lock : Subjects \cup {None}]
<1>1. u \in Login
  <2>1. u.phase \in {"login", "lookup", "created"}
    BY DEF LoginLock, LoginAdmin, LoginCreate, LoginCommit
  <2> QED BY <2>1, TransactionShape DEF Shaped
<1>2. u.by \in Subjects
  BY DEF LoginLock, LoginAdmin, LoginCreate, LoginCommit, IInv, Typed, WellFormed
<1>3. Login \subseteq Transaction /\ Idle \in Transaction
  BY DEF Transaction
<1>4. \A phase \in {"lookup", "created", "ready"}, s \in Subjects \cup {None} :
        /\ [u EXCEPT !.phase = phase, !.lock = s] \in Login
        /\ [u EXCEPT !.phase = phase] \in Login
  BY <1>1
<1>5. \E t \in Transaction : Set(p, t)
  BY <1>2, <1>3, <1>4 DEF LoginLock, LoginAdmin, LoginCreate, LoginCommit
<1>6. uniqueErrors' \subseteq Subjects \X {"subject", "email"} /\ UNCHANGED requests
  BY <1>2 DEF LoginLock, LoginAdmin, LoginCreate, LoginCommit, Shaped, Taken
<1> QED BY <1>5, <1>6, SetShaped DEF Shaped

LEMMA UpdateShaped ==
  ASSUME Shaped, IInv, NEW p \in Procs,
         \/ \E target \in Subjects, update \in Update : StartUpdate(p, target, update)
         \/ Load(p) \/ Allow(p)
  PROVE  Shaped'
<1> DEFINE u == txn[p]
<1>1. u \in Transaction /\ WellFormed(u)
  BY DEF Shaped, IInv, Typed
<1>2. UNCHANGED <<uniqueErrors, requests>>
  BY DEF StartUpdate, Load, Allow
<1>3. ASSUME NEW target \in Subjects, NEW update \in Update, StartUpdate(p, target, update)
      PROVE  \E t \in Transaction : Set(p, t)
  <2>1. u.by \in Principals /\ u.lock \in Subjects \cup {None}
    BY <1>1, <1>3, TransactionShape DEF StartUpdate
  <2>2. [phase |-> "load", by |-> u.by, lock |-> u.lock, target |-> target, update |-> update]
          \in Transaction
    BY <2>1 DEF Transaction
  <2> QED BY <1>3, <2>2 DEF StartUpdate
<1>4. ASSUME Load(p) PROVE \E t \in Transaction : Set(p, t)
  <2>1. u.by \in Principals /\ u.lock \in Subjects \cup {None} /\ u.target \in Subjects /\ u.update \in Update
    BY <1>1, <1>4, TransactionShape DEF Load
  <2>2. users[u.target] \in User
    BY <1>1, <1>4, <2>1 DEF Load, WellFormed, IInv, Typed
  <2>3. [phase |-> "check", by |-> u.by, lock |-> u.lock, target |-> u.target, update |-> u.update,
         user |-> users[u.target]] \in Transaction
    BY <2>1, <2>2 DEF Transaction
  <2> QED BY <1>4, <2>3 DEF Load
<1>5. ASSUME Allow(p) PROVE \E t \in Transaction : Set(p, t)
  <2>1. /\ u.by \in Principals /\ u.lock \in Subjects \cup {None} /\ u.target \in Subjects
        /\ u.update \in Update /\ u.user \in User
    BY <1>1, <1>5, TransactionShape DEF Allow
  <2>2. [phase |-> "write", by |-> u.by, lock |-> u.lock, target |-> u.target, update |-> u.update,
         user |-> u.user, counted |-> ActiveAdmins(users)] \in Transaction
    BY <2>1 DEF Transaction, ActiveAdmins
  <2> QED BY <1>5, <2>2 DEF Allow
<1> QED BY <1>2, <1>3, <1>4, <1>5, SetShaped DEF Shaped

LEMMA RequestShaped ==
  ASSUME Shaped, NEW p \in Procs,
         \/ \E by \in Principals : Request(p, by)
         \/ LoginForbidden(p) \/ Refuse(p) \/ CommitUpdate(p) \/ End(p)
  PROVE  Shaped'
<1>1. ASSUME NEW by \in Principals, Request(p, by) PROVE Shaped'
  <2>1. [phase |-> IF by = Bootstrap THEN "ready" ELSE "login", by |-> by, lock |-> None]
          \in Transaction
    BY DEF Transaction
  <2>2. txn' \in [Procs -> Transaction]
    BY <1>1, <2>1, SetShaped DEF Request
  <2>3. requests' \in 0..MaxRequests /\ UNCHANGED uniqueErrors
    BY <1>1, UsersAssumption DEF Request, Shaped
  <2> QED BY <2>2, <2>3 DEF Shaped
<1>2. ASSUME LoginForbidden(p) \/ Refuse(p) \/ CommitUpdate(p) \/ End(p) PROVE Shaped'
  <2>1. Set(p, Idle) /\ UNCHANGED <<uniqueErrors, requests>> /\ Idle \in Transaction
    BY <1>2 DEF LoginForbidden, Refuse, CommitUpdate, End, Transaction
  <2> QED BY <2>1, SetShaped DEF Shaped
<1> QED BY <1>1, <1>2

LEMMA ShapeIsKept == Spec => [](IInv /\ Shaped)
<1>1. Init => Shaped
  BY UsersAssumption DEF Init, Shaped, Transaction
<1>2. IInv /\ Shaped /\ [Next]_vars => Shaped'
  <2> SUFFICES ASSUME IInv, Shaped, [Next]_vars PROVE Shaped'
    OBVIOUS
  <2>1. CASE UNCHANGED vars
    BY <2>1 DEF vars, Shaped
  <2> QED BY <2>1, LoginShaped, UpdateShaped, RequestShaped DEF Next
<1> QED BY <1>1, <1>2, Invariant, PTL DEF Spec

\* Users, transactions, errors and requests keep their types in every step, and
\* the row of a user is locked by one update.
THEOREM TypeCorrect == Spec => []TypeOK
<1>1. IInv /\ Shaped => TypeOK
  BY DEF IInv, Typed, RowsExclude, Loaded, Shaped, TypeOK
<1> QED BY <1>1, ShapeIsKept, PTL

-----------------------------------------------------------------------------
\* No login is refused because another one has just created the same subject.
THEOREM LoginsDoNotCollide == Spec => []FirstLoginsDoNotCollide
<1>1. IInv => FirstLoginsDoNotCollide
  BY DEF IInv
<1> QED BY <1>1, Invariant, PTL

\* What an update has loaded of a user is still the committed row when it is
\* written over it.
THEOREM NoUpdateIsLost == Spec => []UpdatesNotLost
<1>1. IInv => UpdatesNotLost
  BY DEF IInv, Typed, WellFormed, UpdatesNotLost, Loaded
<1> QED BY <1>1, Invariant, PTL

\* A set of more than one element has one besides any given one.
LEMMA AnotherOne ==
  ASSUME NEW S, NEW x, Cardinality(S) > 1
  PROVE  S \ {x} # {}
<1> SUFFICES ASSUME S \ {x} = {} PROVE FALSE
  OBVIOUS
<1>1. S = {} \/ S = {x}
  OBVIOUS
<1>2. Cardinality({}) = 0 /\ Cardinality({x}) = 1
  BY FS_EmptySet, FS_Singleton
<1> QED BY <1>1, <1>2

\* An active administrator is missed only when a committed update removed it.
LEMMA LastAdminStep ==
  ASSUME IInv, [Next]_vars, ActiveAdmins(users) # {}, ActiveAdmins(users') = {}
  PROVE  \E p \in Procs : /\ txn[p].phase = "write" /\ txn'[p] = Idle
                          /\ txn[p].counted \ {txn[p].target} # {}
<1>1. PICK s \in Subjects : IsActiveAdmin(users[s]) /\ ~IsActiveAdmin(users'[s])
  BY DEF ActiveAdmins
<1>2. PICK p \in Procs : LoginCommit(p) \/ CommitUpdate(p)
  BY <1>1 DEF Next, vars, Request, LoginLock, LoginAdmin, LoginForbidden, LoginCreate, StartUpdate,
     Load, Refuse, Allow, End
<1>3. ~LoginCommit(p)
  <2> SUFFICES ASSUME LoginCommit(p) PROVE FALSE
    OBVIOUS
  <2>1. txn[p].by \in Subjects /\ users[txn[p].by] = Absent
    BY DEF LoginCommit, IInv, Typed, WellFormed
  <2>2. s # txn[p].by
    BY <1>1, <2>1 DEF IsActiveAdmin
  <2>3. users'[s] = users[s]
    BY <2>1, <2>2 DEF LoginCommit, IInv, Typed
  <2> QED BY <1>1, <2>3
<1>4. /\ txn[p].phase = "write" /\ Set(p, Idle)
      /\ users' = [users EXCEPT ![txn[p].target] = Updated(txn[p].user, txn[p].update)]
  BY <1>2, <1>3 DEF CommitUpdate
<1>5. s = txn[p].target
  BY <1>1, <1>4 DEF IInv, Typed
<1>6. IsActiveAdmin(txn[p].user) /\ ~IsActiveAdmin(Updated(txn[p].user, txn[p].update))
  BY <1>1, <1>4, <1>5, WriteShape DEF IInv, Typed
<1>7. RemovesAdmin(p)
  BY <1>4, <1>6, WriteShape, RemovalIsSeen, UsersAssumption
<1>8. txn[p].counted \ {txn[p].target} # {}
  BY <1>4, <1>7, WriteShape, AnotherOne
<1>9. txn'[p] = Idle
  BY <1>4 DEF Set, IInv, Typed
<1> QED BY <1>4, <1>8, <1>9

\* A step that leaves no active administrator is the commit of an update that
\* had counted another one.
THEOREM LastAdminLost == Spec => LastAdminLostToRaceOnly
<1> DEFINE Step == ActiveAdmins(users) # {} /\ ActiveAdmins(users') = {} =>
              \E p \in Procs : /\ txn[p].phase = "write" /\ txn'[p] = Idle
                               /\ txn[p].counted \ {txn[p].target} # {}
<1>1. IInv /\ [Next]_vars => [Step]_vars
  BY LastAdminStep
<1>2. [][Step]_vars => LastAdminLostToRaceOnly
  BY PTL DEF LastAdminLostToRaceOnly
<1> HIDE DEF Step
<1> QED BY <1>1, <1>2, Invariant, PTL DEF Spec
=============================================================================
