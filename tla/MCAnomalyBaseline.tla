------------------------- MODULE MCAnomalyBaseline -------------------------
(* Model checking of AnomalyBaseline on small instances.                    *)
EXTENDS AnomalyBaseline, TLC

\* Edges, API workers and worker processes are interchangeable.
Symmetry == Permutations(Admins) \cup Permutations(Analyzers) \cup Permutations(Edges)
=============================================================================
