------------------------- MODULE DeliveryLifecycle -------------------------
(***************************************************************************)
(* What an outbox promises about each of its deliveries: it is attempted   *)
(* up to MaxAttempts times, ends as delivered or as failed, and an end is  *)
(* final.  Only the removal of the rule it belongs to removes it.  Where   *)
(* MayAbandon, a pending delivery may also be given up without an attempt. *)
(***************************************************************************)
EXTENDS Naturals

CONSTANTS Ids,          \* deliveries
          MaxAttempts,
          MayAbandon    \* TRUE or FALSE

VARIABLES state,        \* delivery -> where it is in its life
          attempts      \* delivery -> attempts made

vars == <<state, attempts>>

Init == /\ state = [d \in Ids |-> "unborn"]
        /\ attempts = [d \in Ids |-> 0]

Pending(d) == state[d] \in {"queued", "retrying"}

\* What may become of one delivery in a step: each line is one way.
Enqueued(d)  == state[d] = "unborn" /\ state'[d] = "queued" /\ attempts'[d] = 0
Delivered(d) == Pending(d) /\ state'[d] = "delivered" /\ attempts'[d] = attempts[d] + 1
                /\ attempts'[d] <= MaxAttempts
Postponed(d) == Pending(d) /\ state'[d] = "retrying" /\ attempts'[d] = attempts[d] + 1
                /\ attempts'[d] < MaxAttempts
Failed(d)    == Pending(d) /\ state'[d] = "failed" /\ attempts'[d] = attempts[d] + 1
                /\ attempts'[d] = MaxAttempts
Abandoned(d) == MayAbandon /\ Pending(d) /\ state'[d] = "failed" /\ attempts'[d] = attempts[d]
Removed(d)   == state[d] # "unborn" /\ state'[d] = "removed" /\ attempts'[d] = 0
Kept(d)      == state'[d] = state[d] /\ attempts'[d] = attempts[d]

\* A transaction settles any number of deliveries at once.
Next == /\ DOMAIN state' = Ids /\ DOMAIN attempts' = Ids
        /\ \A d \in Ids : \/ Enqueued(d)  \/ Delivered(d) \/ Postponed(d)
                          \/ Failed(d)    \/ Abandoned(d) \/ Removed(d) \/ Kept(d)

Spec == Init /\ [][Next]_vars
=============================================================================
