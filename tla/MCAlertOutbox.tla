--------------------------- MODULE MCAlertOutbox ---------------------------
(* Model checking of AlertOutbox on small instances.                        *)
EXTENDS AlertOutbox
=============================================================================
