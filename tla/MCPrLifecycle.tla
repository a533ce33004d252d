---------------------------- MODULE MCPrLifecycle ----------------------------
(* Symmetry sets for model-checking PrLifecycle. *)
EXTENDS PrLifecycle, TLC

Symmetry ==
  Permutations(PRs) \cup Permutations(Commits) \cup Permutations(Ports)
    \cup Permutations(Clients)
=============================================================================
