----------------------------- MODULE MCPairing -----------------------------
(* Pairing on small sets.  The identifiers are interchangeable in every     *)
(* safety property, so safety runs use Symmetry.                            *)
EXTENDS Pairing, TLC

Symmetry == Permutations(Sessions) \cup Permutations(Accounts)
            \cup Permutations(Convs) \cup Permutations(Codes)
            \cup Permutations(Handlers)

=============================================================================
