---------------------------- MODULE MCSiemOutbox ----------------------------
(* Model checking of SiemOutbox on small instances.                         *)
EXTENDS SiemOutbox
=============================================================================
