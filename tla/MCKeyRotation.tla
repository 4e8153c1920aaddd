--------------------------- MODULE MCKeyRotation ---------------------------
(* Key rotation with interchangeable keys, instances and consumers. *)
EXTENDS KeyRotation, TLC

\* Environments that set nothing, blank JWT_PUBLIC_KEYS, or name a key of
\* before the secret, as the current one or in the list.
MCLeftovers ==
  {[private |-> None, public |-> None, publics |-> {None}],
   [private |-> Blank, public |-> Blank, publics |-> {}]}
  \cup {[private |-> k, public |-> k, publics |-> {None}] : k \in Keys}
  \cup {[private |-> None, public |-> None, publics |-> {k}] : k \in Keys}

Symmetry == Permutations(Keys) \cup Permutations(Instances)
=============================================================================
