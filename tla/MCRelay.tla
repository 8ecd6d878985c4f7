------------------------------ MODULE MCRelay ------------------------------
(* Relay on small sets; the run checks liveness and uses no symmetry.       *)
EXTENDS Relay

=============================================================================
