----------------------------- MODULE AuditTrail -----------------------------
(***************************************************************************)
(* What the audit log promises to its readers: transactions that write it  *)
(* do so one after the other.  The records of a transaction enter the      *)
(* history together, when it commits, or none of them does; and each       *)
(* record is sealed over everything that is before it, of earlier          *)
(* transactions and of its own.  AuditChain, which models the sessions and *)
(* their locks, is checked to implement this.                              *)
(***************************************************************************)
EXTENDS Sequences

CONSTANTS Writers,  \* who has transactions
          Bodies    \* the contents of an audit record, its hashes left out

VARIABLES history,  \* the committed records, oldest first
          pending   \* of a writer: the records of its open transaction

vars == <<history, pending>>

Contents(records) == [i \in DOMAIN records |-> records[i].body]
Sealed(before, body) == [body |-> body, seal |-> Append(Contents(before), body)]

Init ==
  /\ history = <<>>
  /\ pending = [w \in Writers |-> <<>>]

\* A transaction adds a record while no other has any.
Add(w, body) ==
  /\ \A v \in Writers \ {w} : pending[v] = <<>>
  /\ pending' = [pending EXCEPT ![w] = Append(@, Sealed(history \o @, body))]
  /\ UNCHANGED history

Commit(w) ==
  /\ history' = history \o pending[w]
  /\ pending' = [pending EXCEPT ![w] = <<>>]

Abort(w) ==
  /\ pending' = [pending EXCEPT ![w] = <<>>]
  /\ UNCHANGED history

Next == \E w \in Writers : (\E body \in Bodies : Add(w, body)) \/ Commit(w) \/ Abort(w)

Spec == Init /\ [][Next]_vars
=============================================================================
