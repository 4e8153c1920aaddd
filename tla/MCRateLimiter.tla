--------------------------- MODULE MCRateLimiter ---------------------------
(* Addresses that may be written in a second way, and a text that is none; *)
(* addresses, with the ways to write them, and workers are interchangeable.*)
EXTENDS RateLimiter, TLC

CONSTANT Malformed

MCTexts == Addresses \cup {<<a>> : a \in Addresses} \cup {Malformed}

MCParseIP ==
  [t \in MCTexts |-> CASE t \in Addresses -> t [] t = Malformed -> None [] OTHER -> t[1]]

Symmetry == Permutations(Addresses) \cup Permutations(Workers)
=============================================================================
