----------------------------- MODULE MCFrontEnd -----------------------------
(* An instance of FrontEnd for TLC. *)
EXTENDS FrontEnd, TLC

Symmetry == Permutations(Devices) \cup Permutations(Trusted) \cup Permutations(Requests)

=============================================================================
