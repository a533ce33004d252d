--------------------------- MODULE MCServerSwitch ----------------------------
(* Symmetry sets for model-checking ServerSwitch. *)
EXTENDS ServerSwitch, TLC

Symmetry ==
  Permutations(Players) \cup Permutations(Sessions)
    \cup Permutations(Servers \ {Default})
=============================================================================
