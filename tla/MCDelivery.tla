----------------------------- MODULE MCDelivery -----------------------------
(* Delivery on small sets.                                                  *)
EXTENDS Delivery, TLC

Symmetry == Permutations(Accounts) \cup Permutations(Convs)
            \cup Permutations(Messages) \cup Permutations(Webhooks)
            \cup Permutations(Conns)

=============================================================================
