-------------------------- MODULE MCPacketForwarder --------------------------
(* Bounds for model-checking PacketForwarder, and the invariant of its proofs. *)
EXTENDS PacketForwarderProtocol

\* The end of the configuration, a command, and one packet that comes after it; for
\* the backend, the end of the configuration and two packets in Play.
SafetyMaxSent == [client |-> 3, backend |-> 3]

\* The end of the configuration and one packet in Play.
EndsMaxSent == [client |-> 2, backend |-> 2]
=============================================================================
