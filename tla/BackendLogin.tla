---------------------------- MODULE BackendLogin ----------------------------
(***************************************************************************)
(* The login of a session to its backend (BackendConnector::connect) and   *)
(* the framing both sides use from then on.  A backend may ask for         *)
(* compression: its own packets after that request, and everything it      *)
(* reads, are framed for it.                                               *)
(*                                                                         *)
(* A packet is its kind, its size and the form of its frame.  The backend  *)
(* and the client are external; the backend may refuse, fall silent or     *)
(* leave at any moment.                                                    *)
(***************************************************************************)
EXTENDS Integers, Sequences

CONSTANTS
  Requests,  \* thresholds a backend may ask for; a negative one means no compression
  Sizes,     \* sizes of the packets after the login
  MaxData    \* bound: packets under way in each direction

ASSUME LoginAssumption ==
  /\ Requests \subseteq Int
  /\ Sizes \subseteq Nat
  /\ MaxData \in Nat \ {0}

VARIABLES
  stage,       \* where connect or, after it, the session is
  threshold,   \* compression_threshold, 0 for None: a NonZeroU32 cannot be 0
  decoder,     \* the threshold the decoder was given, 0 for none
  up,          \* frames under way to the backend
  down,        \* frames under way to the proxy
  backend,     \* where the backend is
  framing,     \* the threshold the backend frames with, negative without compression
  asked,       \* history: the threshold asked for, if any
  garbled      \* history: the sides that read a frame in another form than it has

vars == <<stage, threshold, decoder, up, down, backend, framing, asked, garbled>>

Stages == {"connect", "reads", "acks", "forwards", "failed"}

Kinds == {"hello", "ack", "compression", "finished", "other", "data", "eof"}

\* value: the threshold in a compression request, and the size of any other packet.
Frame == [kind : Kinds, value : Int, form : {"bare", "plain", "deflated"}]

TypeOK ==
  /\ stage \in Stages
  /\ threshold \in Nat
  /\ decoder \in Nat
  /\ up \in Seq(Frame)
  /\ down \in Seq(Frame)
  /\ backend \in {"listens", "login", "waits", "config", "refused", "gone"}
  /\ framing \in Int
  /\ asked \in Seq(Requests)
  /\ garbled \subseteq {"proxy", "backend"}

Init ==
  /\ stage = "connect"
  /\ threshold = 0
  /\ decoder = 0
  /\ up = <<>>
  /\ down = <<>>
  /\ backend = "listens"
  /\ framing = -1
  /\ asked = <<>>
  /\ garbled = {}

\* from_data: with compression a small packet is only marked and a larger one deflated.
Form(compressed, limit, size) ==
  IF ~compressed THEN "bare" ELSE IF size < limit THEN "plain" ELSE "deflated"

\* How the proxy and the backend frame a packet.
ProxyFrame(kind, size) ==
  [kind |-> kind, value |-> size, form |-> Form(threshold > 0, threshold, size)]
BackendFrame(kind, size) ==
  [kind |-> kind, value |-> size, form |-> Form(framing >= 0, framing, size)]

\* A side reads a frame: it needs to know whether frames are compressed, and accepts a
\* deflated one only from the threshold on.
Readable(compressed, limit, f) ==
  IF ~compressed THEN f.form = "bare"
  ELSE f.form = "plain" \/ (f.form = "deflated" /\ f.value >= limit)

-----------------------------------------------------------------------------
(* The backend *)

Tell(f) == down' = Append(down, f)

\* It asks for compression once, in a packet that is not compressed itself.
Compress(t) ==
  /\ backend = "login"
  /\ asked = <<>>
  /\ Tell([BackendFrame("compression", 0) EXCEPT !.value = t])
  /\ framing' = t
  /\ asked' = <<t>>
  /\ UNCHANGED <<stage, threshold, decoder, up, backend, garbled>>

\* The login is accepted, or answered with something else (a disconnect, encryption).
Decide(kind) ==
  /\ backend = "login"
  /\ \/ kind = "finished" /\ backend' = "waits"
     \/ kind = "other" /\ backend' = "refused"
  /\ \E size \in Sizes : Tell(BackendFrame(kind, size))
  /\ UNCHANGED <<stage, threshold, decoder, up, framing, asked, garbled>>

BackendSends ==
  /\ backend = "config"
  /\ Len(down) < MaxData
  /\ \E size \in Sizes : Tell(BackendFrame("data", size))
  /\ UNCHANGED <<stage, threshold, decoder, up, backend, framing, asked, garbled>>

\* The connection is closed: what is under way to the backend is lost.
Quit ==
  /\ backend' = "gone"
  /\ up' = <<>>
  /\ Tell(BackendFrame("eof", 0))

BackendLeaves ==
  /\ backend # "gone"
  /\ stage # "connect"
  /\ Quit
  /\ UNCHANGED <<stage, threshold, decoder, framing, asked, garbled>>

\* A frame it cannot read makes the backend close the connection.
BackendReads ==
  /\ up # <<>>
  /\ backend # "gone"
  /\ UNCHANGED <<stage, threshold, decoder, framing, asked>>
  /\ LET f == Head(up) IN
     IF Readable(framing >= 0, framing, f)
     THEN /\ up' = Tail(up)
          /\ backend' = CASE f.kind = "hello" -> "login" [] f.kind = "ack" -> "config"
                          [] OTHER -> backend
          /\ UNCHANGED <<down, garbled>>
     ELSE /\ garbled' = garbled \cup {"backend"}
          /\ Quit

-----------------------------------------------------------------------------
(* BackendConnector::connect *)

\* Handshake and hello, before anybody speaks of compression.
Connect ==
  /\ stage = "connect"
  /\ \/ stage' = "reads" /\ up' = Append(up, ProxyFrame("hello", 0))
     \/ stage' = "failed" /\ UNCHANGED up
  /\ UNCHANGED <<threshold, decoder, down, backend, framing, asked, garbled>>

\* The decoder takes the next frame, if it can read it.
Take(stages) ==
  /\ stage \in stages
  /\ down # <<>>
  /\ Head(down).kind # "eof"
  /\ Readable(decoder > 0, decoder, Head(down))
  /\ down' = Tail(down)

\* Mutation: the decoder is left as it is.
ReadCompressionEncoderOnly ==
  LET f == Head(down) IN
  /\ Take({"reads"})
  /\ f.kind = "compression"
  /\ threshold' = IF f.value > 0 THEN f.value ELSE threshold
  /\ UNCHANGED decoder
  /\ UNCHANGED <<stage, up, backend, framing, asked, garbled>>

\* Mutation: only a zero is looked for, and a negative threshold is cast.
ReadCompressionNotZero ==
  LET f == Head(down) IN
  /\ Take({"reads"})
  /\ f.kind = "compression"
  /\ threshold' = IF f.value # 0 THEN f.value ELSE threshold
  /\ decoder' = IF f.value # 0 THEN f.value ELSE decoder
  /\ UNCHANGED <<stage, up, backend, framing, asked, garbled>>

\* A threshold that is not positive changes nothing.
ReadCompression ==
  LET f == Head(down) IN
  /\ Take({"reads"})
  /\ f.kind = "compression"
  /\ threshold' = IF f.value > 0 THEN f.value ELSE threshold
  /\ decoder' = IF f.value > 0 THEN f.value ELSE decoder
  /\ UNCHANGED <<stage, up, backend, framing, asked, garbled>>

ReadFinished ==
  /\ Take({"reads"})
  /\ Head(down).kind = "finished"
  /\ stage' = "acks"
  /\ UNCHANGED <<threshold, decoder, up, backend, framing, asked, garbled>>

\* The session is over and the backend sees the connection close.
Fail ==
  /\ stage' = "failed"
  /\ backend' = "gone"
  /\ up' = <<>>
  /\ UNCHANGED <<threshold, decoder, framing, asked>>

\* Mutation: what the login does not know is skipped.
ReadOtherSkips ==
  /\ Take({"reads"})
  /\ Head(down).kind \notin {"compression", "finished"}
  /\ UNCHANGED <<stage, threshold, decoder, up, backend, framing, asked, garbled>>

ReadOther ==
  /\ Take({"reads"})
  /\ Head(down).kind \notin {"compression", "finished"}
  /\ Fail
  /\ UNCHANGED garbled

\* get_raw_packet fails: the backend has closed the connection.
ReadEof ==
  /\ stage \in {"reads", "forwards"}
  /\ down # <<>>
  /\ Head(down).kind = "eof"
  /\ down' = Tail(down)
  /\ Fail
  /\ UNCHANGED garbled

\* What comes out of a frame of another form is no packet the login knows.
ReadGarbled ==
  /\ stage = "reads"
  /\ down # <<>>
  /\ Head(down).kind # "eof"
  /\ ~Readable(decoder > 0, decoder, Head(down))
  /\ down' = Tail(down)
  /\ garbled' = garbled \cup {"proxy"}
  /\ Fail

\* Mutation: the acknowledgement is encoded like the packets before it.
AckBare ==
  /\ stage = "acks"
  /\ stage' = "forwards"
  /\ up' = IF backend = "gone" THEN up
           ELSE Append(up, [kind |-> "ack", value |-> 0, form |-> "bare"])
  /\ UNCHANGED <<threshold, decoder, down, backend, framing, asked, garbled>>

\* LoginAcknowledged, framed as the backend asked.  The write may fail when it is gone.
Ack ==
  /\ stage = "acks"
  /\ \/ /\ stage' = "forwards"
        /\ up' = IF backend = "gone" THEN up ELSE Append(up, ProxyFrame("ack", 0))
     \/ /\ backend = "gone"
        /\ stage' = "failed"
        /\ UNCHANGED up
  /\ UNCHANGED <<threshold, decoder, down, backend, framing, asked, garbled>>

-----------------------------------------------------------------------------
(* The session *)

\* forward_to_backend, for a packet of the client.
ForwardToBackend ==
  /\ stage = "forwards"
  /\ Len(up) < MaxData
  /\ backend # "gone"
  /\ \E size \in Sizes : up' = Append(up, ProxyFrame("data", size))
  /\ UNCHANGED <<stage, threshold, decoder, down, backend, framing, asked, garbled>>

\* The backend's reader task.
ReadBackend ==
  /\ Take({"forwards"})
  /\ UNCHANGED <<stage, threshold, decoder, up, backend, framing, asked, garbled>>

Reads == ReadCompression \/ ReadFinished \/ ReadOther \/ ReadEof \/ ReadGarbled \/ ReadBackend

Next ==
  \/ \E t \in Requests : Compress(t)
  \/ \E kind \in {"finished", "other"} : Decide(kind)
  \/ BackendSends \/ BackendLeaves \/ BackendReads
  \/ Connect \/ Ack \/ ForwardToBackend
  \/ Reads

\* connect goes on when it can.  Nothing is owed by the backend: its answer has no timeout.
Fairness == WF_vars(Connect) /\ WF_vars(Ack) /\ WF_vars(Reads)

Spec == Init /\ [][Next]_vars /\ Fairness

-----------------------------------------------------------------------------

\* In a session that forwards, each side can read whatever the other has under way to it,
\* although each has changed its framing at a moment of its own.
FramesAgree ==
  stage = "forwards" =>
    /\ \A i \in 1..Len(down) : down[i].kind # "eof" => Readable(decoder > 0, decoder, down[i])
    /\ \A i \in 1..Len(up) : Readable(framing >= 0, framing, up[i])

\* A login fails over framing only if the backend asked for a threshold of zero.
OnlyZeroGarbles == garbled # {} => asked = <<0>>

\* connect comes to an end when the backend has refused or left, and never waits for more
\* from one that is waiting for its acknowledgement.
LoginEnds ==
  /\ backend \in {"refused", "gone"} ~> stage \in {"forwards", "failed"}
  /\ backend = "waits" /\ stage # "connect" ~> stage \in {"forwards", "failed"}

\* backend_connector.rs:109 "Must use compression if backend requested it!".
CompressionAsRequested == garbled = {}

=============================================================================
