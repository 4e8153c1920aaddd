----------------------------- MODULE MCSessions -----------------------------
(* Small instances of Sessions for TLC. *)
EXTENDS Sessions, TLC

\* Sessions, browsers and workers are alike; not used with liveness.
Symmetry == Permutations(Workers) \cup Permutations(Jtis)
=============================================================================
