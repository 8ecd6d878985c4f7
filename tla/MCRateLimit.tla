---------------------------- MODULE MCRateLimit ----------------------------
(* RateLimit on small sets.                                                 *)
EXTENDS RateLimit, TLC

Symmetry == Permutations(Keys) \cup Permutations(Requests)
            \cup Permutations(Randoms)

=============================================================================
