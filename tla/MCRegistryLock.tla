--------------------------- MODULE MCRegistryLock ---------------------------
(* Two players, one dynamic backend and sockets that hold one packet: a    *)
(* reply that waits, a write behind it and a lookup behind that.           *)
EXTENDS RegistryLock
=============================================================================
