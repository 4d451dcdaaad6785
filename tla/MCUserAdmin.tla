---------------------------- MODULE MCUserAdmin ----------------------------
(* Model checking of UserAdmin on small instances.                          *)
EXTENDS UserAdmin, TLC

CONSTANTS u1, u2, u3

Admin == [role |-> "admin", is_active |-> TRUE]

\* Two administrators, promoted earlier, and a subject that has yet to log in.
TwoAdmins == (u1 :> Admin) @@ (u2 :> Admin) @@ (u3 :> Absent)
NoEmails == (u1 :> None) @@ (u2 :> None) @@ (u3 :> None)
=============================================================================
