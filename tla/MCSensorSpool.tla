--------------------------- MODULE MCSensorSpool ---------------------------
(* Model checking of SensorSpool on small instances.                        *)
EXTENDS SensorSpool
=============================================================================
