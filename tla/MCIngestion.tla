---------------------------- MODULE MCIngestion ----------------------------
(* Model checking of Ingestion on small instances.                          *)
EXTENDS Ingestion, TLC

CONSTANTS w1, w2, e1, e2, e3, e4, i1, i2, i3, plc, rtu, m1

\* Two captures of one PLC that arrive in either order, a record of it from an
\* older sensor that sends no ids, and one of another asset.
MCEventId == (e1 :> i1) @@ (e2 :> i2) @@ (e3 :> NoId) @@ (e4 :> i3)
MCAddress == (e1 :> plc) @@ (e2 :> plc) @@ (e3 :> plc) @@ (e4 :> rtu)
MCObservedAt == (e1 :> 2) @@ (e2 :> 1) @@ (e3 :> 3) @@ (e4 :> 1)
MCProtocol == (e1 :> "modbus_tcp") @@ (e2 :> "s7comm") @@ (e3 :> "modbus_tcp")
              @@ (e4 :> "dnp3")
MCMac == (e1 :> NoMac) @@ (e2 :> m1) @@ (e3 :> m1) @@ (e4 :> m1)
=============================================================================
