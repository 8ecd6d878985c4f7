------------------------------ MODULE MCServer ------------------------------
(* Server and its broker on small sets.                                     *)
EXTENDS Server, TLC

Symmetry == Permutations(Channels) \cup Permutations(Clients)
            \cup Permutations(Goroutines) \cup Permutations(Maps)
            \cup Permutations(Events)

=============================================================================
