------------------------------ MODULE UserAdmin ------------------------------
(***************************************************************************)
(* Persisted users: the first OIDC login of a subject (auth.py,            *)
(* _oidc_principal) and the administrator's update_user (admin.py), run by *)
(* API workers at the same time.  Transactions are READ COMMITTED: a count *)
(* does not see what other transactions have not committed, and FOR UPDATE *)
(* locks the updated user's row only.                                      *)
(***************************************************************************)
EXTENDS Integers, FiniteSets

CONSTANTS Procs,         \* API workers
          Subjects,      \* OIDC subjects
          Email,         \* subject -> email claim of its token, or None
          Bootstrap,     \* the principal of the bootstrap administrator key
          InitialUsers,  \* subject -> row, Absent if it never logged in
          Absent,
          None,          \* no email; a property an update leaves out
          MaxRequests    \* bound on requests

User == [role : {"viewer", "admin"}, is_active : BOOLEAN]

ASSUME UsersAssumption ==
  /\ Bootstrap \notin Subjects /\ None \notin Subjects \cup {Bootstrap}
  /\ InitialUsers \in [Subjects -> User \cup {Absent}] /\ Absent \notin User
  /\ MaxRequests \in Nat

VARIABLES users,         \* subject -> committed row
          txn,           \* each worker's open transaction
          uniqueErrors,  \* logins answered 500 by a unique constraint
          requests       \* requests so far

vars == <<users, txn, uniqueErrors, requests>>

NewUser == [role |-> "viewer", is_active |-> TRUE]

\* A change asked for; at least one property is supplied.
Update == {u \in [role : {"viewer", "admin", None}, is_active : {TRUE, FALSE, None}] :
             u.role # None \/ u.is_active # None}

Principals == Subjects \cup {Bootstrap}
\* lock: the subject whose login's advisory lock the transaction holds, or None.
Idle == [phase |-> "idle"]
Transaction ==
  {Idle}
  \cup [phase : {"login", "lookup", "created", "ready"}, by : Principals,
        lock : Subjects \cup {None}]
  \cup [phase : {"load"}, by : Principals, lock : Subjects \cup {None}, target : Subjects,
        update : Update]
  \cup [phase : {"check"}, by : Principals, lock : Subjects \cup {None},
        target : Subjects, update : Update, user : User]
  \cup [phase : {"write"}, by : Principals, lock : Subjects \cup {None},
        target : Subjects, update : Update, user : User, counted : SUBSET Subjects]

Busy(p) == txn[p].phase # "idle"

IsActiveAdmin(u) == u # Absent /\ u.role = "admin" /\ u.is_active
ActiveAdmins(table) == {s \in Subjects : IsActiveAdmin(table[s])}

-----------------------------------------------------------------------------
Init ==
  /\ users = InitialUsers
  /\ txn = [p \in Procs |-> Idle]
  /\ uniqueErrors = {}
  /\ requests = 0

Set(p, t) == txn' = [txn EXCEPT ![p] = t]

\* A request arrives: with a bearer token, or with the bootstrap key, which
\* names no persisted user.
Request(p, by) ==
  /\ ~Busy(p)
  /\ requests < MaxRequests
  /\ requests' = requests + 1
  /\ Set(p, [phase |-> IF by = Bootstrap THEN "ready" ELSE "login", by |-> by,
             lock |-> None])
  /\ UNCHANGED <<users, uniqueErrors>>

\* Mutant: a login takes no lock.
LockNotTaken(p) ==
  /\ txn[p].phase = "login"
  /\ Set(p, [txn[p] EXCEPT !.phase = "lookup"])
  /\ UNCHANGED <<users, uniqueErrors, requests>>

\* pg_advisory_xact_lock("oidc-user:subject"), held until a commit or the end
\* of the request.
LoginLock(p) ==
  /\ txn[p].phase = "login"
  /\ \A q \in Procs \ {p} : Busy(q) => txn[q].lock # txn[p].by
  /\ Set(p, [txn[p] EXCEPT !.phase = "lookup", !.lock = txn[p].by])
  /\ UNCHANGED <<users, uniqueErrors, requests>>

\* The subject is an active administrator: the level is decided here, once.
LoginAdmin(p) ==
  /\ txn[p].phase = "lookup"
  /\ IsActiveAdmin(users[txn[p].by])
  /\ Set(p, [txn[p] EXCEPT !.phase = "ready"])
  /\ UNCHANGED <<users, uniqueErrors, requests>>

\* 403 "user is disabled", or "admin access required".
LoginForbidden(p) ==
  /\ txn[p].phase = "lookup"
  /\ users[txn[p].by] # Absent
  /\ ~IsActiveAdmin(users[txn[p].by])
  /\ Set(p, Idle)
  /\ UNCHANGED <<users, uniqueErrors, requests>>

\* The subject is new: a viewer is flushed.
LoginCreate(p) ==
  /\ txn[p].phase = "lookup"
  /\ users[txn[p].by] = Absent
  /\ Set(p, [txn[p] EXCEPT !.phase = "created"])
  /\ UNCHANGED <<users, uniqueErrors, requests>>

\* users.subject and users.email are unique; the emails are those of the
\* tokens the rows were created from.
Taken(s) ==
  {c \in {"subject", "email"} :
     \/ c = "subject" /\ users[s] # Absent
     \/ c = "email" /\ Email[s] # None
        /\ \E q \in Subjects \ {s} : users[q] # Absent /\ Email[q] = Email[s]}

\* The commit of the new row gives the lock up, and the row is read again; or
\* a unique constraint ends the request.
LoginCommit(p) ==
  LET s == txn[p].by
  IN  /\ txn[p].phase = "created"
      /\ uniqueErrors' = uniqueErrors \cup ({s} \X Taken(s))
      /\ users' = IF Taken(s) = {} THEN [users EXCEPT ![s] = NewUser] ELSE users
      /\ Set(p, IF Taken(s) = {}
                THEN [txn[p] EXCEPT !.phase = "lookup", !.lock = None] ELSE Idle)
      /\ UNCHANGED requests

\* PATCH /admin/users/{id}.
StartUpdate(p, target, update) ==
  /\ txn[p].phase = "ready"
  /\ users[target] # Absent
  /\ Set(p, [phase |-> "load", by |-> txn[p].by, lock |-> txn[p].lock,
             target |-> target, update |-> update])
  /\ UNCHANGED <<users, uniqueErrors, requests>>

\* Mutant: the row is read without FOR UPDATE.
LoadNoWait(p) ==
  /\ txn[p].phase = "load"
  /\ Set(p, [phase |-> "check", by |-> txn[p].by, lock |-> txn[p].lock,
             target |-> txn[p].target, update |-> txn[p].update,
             user |-> users[txn[p].target]])
  /\ UNCHANGED <<users, uniqueErrors, requests>>

\* SELECT ... FOR UPDATE.
Load(p) ==
  /\ txn[p].phase = "load"
  /\ \A q \in Procs \ {p} :
       txn[q].phase \in {"check", "write"} => txn[q].target # txn[p].target
  /\ Set(p, [phase |-> "check", by |-> txn[p].by, lock |-> txn[p].lock,
             target |-> txn[p].target, update |-> txn[p].update,
             user |-> users[txn[p].target]])
  /\ UNCHANGED <<users, uniqueErrors, requests>>

\* Mutant: deactivation is not checked.
RemovesAdminIfDemoted(p) ==
  LET t == txn[p]
  IN  t.user.role = "admin" /\ t.update.role = "viewer"

RemovesAdmin(p) ==
  LET t == txn[p]
  IN  t.user.role = "admin" /\ (t.update.role = "viewer" \/ t.update.is_active = FALSE)

\* 409 "cannot remove or disable the last active administrator".
Refuse(p) ==
  /\ txn[p].phase = "check"
  /\ RemovesAdmin(p)
  /\ Cardinality(ActiveAdmins(users)) <= 1
  /\ Set(p, Idle)
  /\ UNCHANGED <<users, uniqueErrors, requests>>

\* counted: the administrators that the count found.
Allow(p) ==
  LET t == txn[p]
  IN  /\ t.phase = "check"
      /\ RemovesAdmin(p) => Cardinality(ActiveAdmins(users)) > 1
      /\ Set(p, [phase |-> "write", by |-> t.by, lock |-> t.lock, target |-> t.target,
                 update |-> t.update, user |-> t.user, counted |-> ActiveAdmins(users)])
  /\ UNCHANGED <<users, uniqueErrors, requests>>

Updated(u, update) ==
  [role |-> IF update.role = None THEN u.role ELSE update.role,
   is_active |-> IF update.is_active = None THEN u.is_active ELSE update.is_active]

CommitUpdate(p) ==
  LET t == txn[p]
  IN  /\ t.phase = "write"
      /\ users' = [users EXCEPT ![t.target] = Updated(t.user, t.update)]
      /\ Set(p, Idle)
      /\ UNCHANGED <<uniqueErrors, requests>>

\* The request turns out to be another one, finds no such user, or fails.
End(p) ==
  /\ Busy(p)
  /\ Set(p, Idle)
  /\ UNCHANGED <<users, uniqueErrors, requests>>

Next ==
  \E p \in Procs :
    \/ \E by \in Principals : Request(p, by)
    \/ LoginLock(p) \/ LoginAdmin(p) \/ LoginForbidden(p)
    \/ LoginCreate(p) \/ LoginCommit(p)
    \/ \E target \in Subjects, update \in Update : StartUpdate(p, target, update)
    \/ Load(p) \/ Refuse(p) \/ Allow(p) \/ CommitUpdate(p)
    \/ End(p)

Spec == Init /\ [][Next]_vars

-----------------------------------------------------------------------------
\* Every variable has its type; no user row has two lock holders.
TypeOK ==
  /\ users \in [Subjects -> User \cup {Absent}]
  /\ txn \in [Procs -> Transaction]
  /\ uniqueErrors \subseteq Subjects \X {"subject", "email"}
  /\ requests \in 0..MaxRequests
  /\ \A p, q \in Procs :
       /\ txn[p].phase \in {"check", "write"} /\ txn[q].phase \in {"check", "write"}
       /\ txn[p].target = txn[q].target
       => p = q

\* The console sends several requests at once when a user first signs in: one
\* of them creates the user, and none fails because another just has.
FirstLoginsDoNotCollide == \A s \in Subjects : <<s, "subject">> \notin uniqueErrors

\* docs/authentication.md:31: "OT-Sentinel prevents disabling or demoting the
\* last active persisted administrator".
LastAdminKept == [][ActiveAdmins(users) # {} => ActiveAdmins(users') # {}]_vars

\* However updates follow and overlap each other, one that leaves no active
\* administrator had counted another one, who was removed after the count.
LastAdminLostToRaceOnly ==
  [][ActiveAdmins(users) # {} /\ ActiveAdmins(users') = {} =>
       \E p \in Procs : /\ txn[p].phase = "write" /\ txn'[p] = Idle
                        /\ txn[p].counted \ {txn[p].target} # {}]_vars

\* An update is computed from the row it replaces: no concurrent change of the
\* same user is lost.
UpdatesNotLost ==
  \A p \in Procs : txn[p].phase \in {"check", "write"} =>
                     txn[p].user = users[txn[p].target]
=============================================================================
