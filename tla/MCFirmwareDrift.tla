-------------------------- MODULE MCFirmwareDrift --------------------------
(* Model checking of FirmwareDrift on small instances.                      *)
EXTENDS FirmwareDrift, TLC

CONSTANTS v1, v2, v1padded, blank

\* Two versions, one of them also with trailing blanks, and a blank text.
MCStrip == (v1 :> v1) @@ (v2 :> v2) @@ (v1padded :> v1) @@ (blank :> None)

Symmetry == Permutations(Procs)
=============================================================================
