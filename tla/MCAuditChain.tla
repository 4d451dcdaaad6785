---------------------------- MODULE MCAuditChain ----------------------------
(* Model checking of AuditChain on small instances.                        *)
EXTENDS AuditChain
=============================================================================
