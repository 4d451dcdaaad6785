----------------------------- MODULE EventInbox -----------------------------
(***************************************************************************)
(* What ingestion promises to a sensor that retries: an identified event   *)
(* is stored at most once, and every answer about it names the same rows,  *)
(* whichever delivery the answer is given to.  Ingestion is checked to     *)
(* implement this.                                                         *)
(***************************************************************************)
CONSTANTS Ids,        \* sensor event ids
          NoResult    \* nothing is stored for an id

VARIABLES stored,     \* what is stored for each id
          answered    \* the answers given, as pairs <<id, result>>

vars == <<stored, answered>>

Init == /\ stored = [i \in Ids |-> NoResult]
        /\ answered = {}

\* The first delivery of an event to commit stores it as some rows, and is
\* answered with them.
Store(i) ==
  /\ stored[i] = NoResult /\ stored'[i] # NoResult
  /\ stored' = [stored EXCEPT ![i] = stored'[i]]
  /\ answered' = answered \cup {<<i, stored'[i]>>}

\* Any later delivery is answered with what is stored.
Replay(i) ==
  /\ stored[i] # NoResult
  /\ answered' = answered \cup {<<i, stored[i]>>}
  /\ UNCHANGED stored

Next == \E i \in Ids : Store(i) \/ Replay(i)

Spec == Init /\ [][Next]_vars
=============================================================================
