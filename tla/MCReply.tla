------------------------------- MODULE MCReply -------------------------------
(* Reply on small sets.                                                     *)
EXTENDS Reply, TLC

Symmetry == Permutations(Accounts) \cup Permutations(Messages)
            \cup Permutations(Outbounds) \cup Permutations(Requests)

=============================================================================
