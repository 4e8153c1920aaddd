----------------------------- MODULE MCAccounts -----------------------------
(* Small instances of Accounts for TLC. *)
EXTENDS Accounts, TLC

\* Passwords, codes and tokens are only compared for equality, and workers
\* are alike: the invariants do not tell their permutations apart.
Symmetry == Permutations(Workers) \cup Permutations(Passwords)
              \cup Permutations(Codes) \cup Permutations(Tokens)
=============================================================================
