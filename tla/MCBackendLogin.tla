--------------------------- MODULE MCBackendLogin ---------------------------
(* A threshold of each sign and one on each side of the sizes, and a       *)
(* packet on each side of a threshold.                                     *)
EXTENDS BackendLogin

MCRequests == {-1, 0, 1, 2, 4}
MCSizes == {1, 2, 3}
=============================================================================
