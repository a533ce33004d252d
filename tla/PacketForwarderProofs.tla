------------------------ MODULE PacketForwarderProofs ------------------------
(***************************************************************************)
(* What holds of a session for every capacity of its channels, sockets and *)
(* ring and every number of packets: its types, that a stream ends only    *)
(* when its side has gone, and that it implements Relay.                   *)
(***************************************************************************)
EXTENDS PacketForwarder, SequenceTheorems, TLAPS

-----------------------------------------------------------------------------
(* Sequences *)

\* The first element and the rest of a sequence that is not empty.
LEMMA HeadTail ==
  ASSUME NEW S, NEW q \in Seq(S), q # <<>>
  PROVE  /\ Head(q) \in S /\ Head(q) = q[1]
         /\ Tail(q) \in Seq(S) /\ Len(Tail(q)) = Len(q) - 1
         /\ Len(q) \in Nat \ {0}
  BY HeadTailProperties, EmptySeq

\* A sequence with one more element at its end.
LEMMA Appended ==
  ASSUME NEW S, NEW q \in Seq(S), NEW x \in S
  PROVE  Append(q, x) \in Seq(S) /\ Len(Append(q, x)) = Len(q) + 1 /\ Len(q) \in Nat
  BY LenProperties

\* A sequence of one element.
LEMMA Single ==
  ASSUME NEW S, NEW x \in S
  PROVE  /\ <<x>> \in Seq(S) /\ Len(<<x>>) = 1 /\ <<x>> # <<>>
         /\ Head(<<x>>) = x /\ Tail(<<x>>) = <<>>
         /\ \A q \in Seq(S) : Tail(<<x>> \o q) = q /\ Head(<<x>> \o q) = x
                                /\ <<x>> \o q # <<>>
  OBVIOUS

\* A sequence of at most one element that is not empty.
LEMMA OneElement ==
  ASSUME NEW S, NEW q \in Seq(S), q # <<>>, Len(q) <= 1
  PROVE  q[1] \in S /\ q = <<q[1]>>
<1>1. q[1] \in S
  BY HeadTail
<1>2. Len(q) = 1
  <2>1. \A n \in Nat \ {0} : n <= 1 => n = 1
    OBVIOUS
  <2>2. Len(q) \in Nat \ {0}
    BY EmptySeq
  <2> QED
    BY <2>1, <2>2, Zenon
<1>3. <<q[1]>> \in Seq(S) /\ Len(<<q[1]>>) = 1 /\ <<q[1]>>[1] = q[1]
  BY <1>1, Single
<1> QED
  BY <1>1, <1>2, <1>3, SeqEqual

-----------------------------------------------------------------------------
(* Types *)

\* What the proxy says by itself is a packet.
LEMMA OwnIsPacket ==
  ASSUME NEW kind \in Kinds
  PROVE  Own(kind) \in Packet
  BY DEF Own, Packet, Protocols

\* A broadcast is one, and bears its number.
LEMMA NewsIsPacket ==
  ASSUME NEW n \in Nat
  PROVE  /\ News(n) \in Packet
         /\ News(n).kind = "broadcast" /\ News(n).proto = "Play"
  BY OwnIsPacket DEF News, Own, Packet, Kinds

\* The end of a stream is a packet of its own kind.
LEMMA EofIsPacket == Eof \in Packet /\ Eof.kind = "eof"
  BY OwnIsPacket DEF Eof, Own, Kinds

\* A packet in hand, as one or no job.
LEMMA JobTyped ==
  ASSUME NEW of \in Sides \cup {"ring"}, NEW p \in Packet,
         NEW to \in Sides \cup {"proxy"}, NEW out \in Packet, Start(of, p, to, out)
  PROVE  job' \in Seq(Job) /\ Len(job') <= 1
  <1> [of |-> of, packet |-> p, to |-> to, out |-> out] \in Job
    BY DEF Job
  <1> QED
    BY Single DEF Start

\* A side's packet comes off its channel.
LEMMA TakeTyped ==
  ASSUME TypeOK, NEW s \in Sides, NEW stage, Take(s, stage)
  PROVE  /\ chan' \in [Sides -> Seq(Packet)]
         /\ \A r \in Sides : Len(chan'[r]) <= Capacity
         /\ Head(chan[s]) \in Packet
  <1>1. chan[s] \in Seq(Packet) /\ chan[s] # <<>> /\ Len(chan[s]) <= Capacity
    BY DEF TypeOK, Take
  <1>2. /\ Tail(chan[s]) \in Seq(Packet) /\ Head(chan[s]) \in Packet
        /\ Len(Tail(chan[s])) <= Capacity
    BY <1>1, HeadTail, BoundsAssumption
  <1> QED
    BY <1>2 DEF TypeOK, Take

\* The empty session keeps the types.
LEMMA EndTyped ==
  ASSUME TypeOK, End
  PROVE  TypeOK'
  BY EmptySeq, BoundsAssumption DEF TypeOK, End, Sides

\* Every step keeps the types.
LEMMA TypeStep ==
  ASSUME TypeOK, [Next]_vars
  PROVE  TypeOK'
<1> USE BoundsAssumption
<1>1. ASSUME NEW s \in Sides, NEW kind \in Kinds, NEW text \in Offered \cup {None},
             NEW next \in {"Config", "Play", "wait"}, Send(s, kind, text, next)
      PROVE  TypeOK'
  <2> DEFINE p == [kind |-> kind, text |-> text,
                   proto |-> IF peer[s].proto = "Play" THEN "Play" ELSE "Config",
                   n |-> peer[s].sent + 1]
  <2>1. peer[s] \in Peer /\ inbox[s] \in Seq(Packet)
    BY DEF TypeOK
  <2>2. p \in Packet
    BY <2>1 DEF Packet, Peer, Protocols
  <2>3. inbox' \in [Sides -> Seq(Packet)]
    <3>1. inbox' = [inbox EXCEPT ![s] = IF loop = "ended" THEN @ ELSE Append(@, p)]
      BY <1>1 DEF Send
    <3> QED
      BY <2>1, <2>2, <3>1, Appended DEF TypeOK
  <2>4. peer' \in [Sides -> Peer]
    <3>0. /\ next \in Protocols \cup {"ack", "wait"}
          /\ peer[s].sent + 1 \in Nat /\ peer[s].there \in BOOLEAN
      BY <2>1 DEF Peer, Protocols
    <3>1. [peer[s] EXCEPT !.proto = next, !.sent = @ + 1] \in Peer
      <4>1. [peer[s] EXCEPT !.proto = next] \in Peer
        BY <2>1, <3>0 DEF Peer
      <4>2. \A q \in Peer : [q EXCEPT !.sent = peer[s].sent + 1] \in Peer
        BY <3>0 DEF Peer
      <4>3. [peer[s] EXCEPT !.proto = next, !.sent = @ + 1]
              = [[peer[s] EXCEPT !.proto = next] EXCEPT !.sent = peer[s].sent + 1]
        BY <2>1 DEF Peer
      <4> QED
        BY <4>1, <4>2, <4>3
    <3>2. peer' = [peer EXCEPT ![s] = [peer[s] EXCEPT !.proto = next, !.sent = @ + 1]]
      BY <1>1 DEF Send
    <3> QED
      BY <3>1, <3>2 DEF TypeOK
  <2> QED
    BY <1>1, <2>3, <2>4 DEF TypeOK, Send
<1>2. ASSUME NEW s \in Sides, Leave(s), confused' \in {"none"} \cup Kinds
      PROVE  TypeOK'
  <2>1. peer[s] \in Peer /\ inbox[s] \in Seq(Packet)
    BY DEF TypeOK
  <2>2. inbox' \in [Sides -> Seq(Packet)]
    BY <1>2, <2>1, EofIsPacket, Appended DEF TypeOK, Leave
  <2>3. peer' \in [Sides -> Peer]
    <3>1. [peer[s] EXCEPT !.there = FALSE] \in Peer
      BY <2>1 DEF Peer
    <3>2. peer' = [peer EXCEPT ![s] = [peer[s] EXCEPT !.there = FALSE]]
      BY <1>2 DEF Leave
    <3> QED
      BY <3>1, <3>2 DEF TypeOK
  <2>4. /\ outbox' \in [Sides -> Seq(Packet)]
        /\ \A r \in Sides : Len(outbox'[r]) <= Buffer
    BY <1>2, EmptySeq DEF TypeOK, Leave
  <2> QED
    BY <1>2, <2>2, <2>3, <2>4 DEF TypeOK, Leave
<1>3. ASSUME NEW s \in Sides, Receive(s)
      PROVE  TypeOK'
  <2>1. /\ outbox[s] \in Seq(Packet) /\ outbox[s] # <<>> /\ Len(outbox[s]) <= Buffer
        /\ peer[s] \in Peer
    BY <1>3 DEF TypeOK, Receive
  <2>2. /\ Head(outbox[s]) \in Packet /\ Tail(outbox[s]) \in Seq(Packet)
        /\ Len(Tail(outbox[s])) <= Buffer
    BY <2>1, HeadTail
  <2>3. Head(outbox[s]).kind \in Kinds
    BY <2>2 DEF Packet
  <2>4. CASE Leave(s) /\ confused' = Head(outbox[s]).kind
    BY <1>2, <2>3, <2>4
  <2>5. CASE ~(Leave(s) /\ confused' = Head(outbox[s]).kind)
    <3> DEFINE next == IF Head(outbox[s]).kind # "finish" THEN peer[s].proto
                       ELSE IF s = "client" THEN "ack" ELSE "Play"
    <3>1. /\ outbox' = [outbox EXCEPT ![s] = Tail(@)]
          /\ peer' = [peer EXCEPT ![s] = [peer[s] EXCEPT !.proto = next]]
          /\ UNCHANGED <<inbox, hand, chan, loop, job, protocol, posted, cursor, confused>>
      BY <1>3, <2>5 DEF Receive
    <3>2. [peer[s] EXCEPT !.proto = next] \in Peer
      BY <2>1 DEF Peer, Protocols
    <3>3. peer' \in [Sides -> Peer]
      BY <3>1, <3>2 DEF TypeOK
    <3>4. /\ outbox' \in [Sides -> Seq(Packet)]
          /\ \A r \in Sides : Len(outbox'[r]) <= Buffer
      BY <2>2, <3>1 DEF TypeOK
    <3> QED
      BY <3>1, <3>3, <3>4 DEF TypeOK
  <2> QED
    BY <2>4, <2>5
<1>4. ASSUME NEW s \in Sides, Read(s)
      PROVE  TypeOK'
  <2>1. inbox[s] \in Seq(Packet) /\ inbox[s] # <<>>
    BY <1>4 DEF TypeOK, Read
  <2>2. /\ Tail(inbox[s]) \in Seq(Packet)
        /\ <<Head(inbox[s])>> \in Seq(Packet) /\ Len(<<Head(inbox[s])>>) <= 1
    BY <2>1, HeadTail, Single
  <2> QED
    BY <1>4, <2>2 DEF TypeOK, Read
<1>5. ASSUME NEW s \in Sides, HandOver(s)
      PROVE  TypeOK'
  <2>1. /\ chan[s] \in Seq(Packet) /\ hand[s] \in Seq(Packet) /\ hand[s] # <<>>
        /\ Len(chan[s]) < Capacity
    BY <1>5 DEF TypeOK, HandOver
  <2>2. hand[s][1] \in Packet
    BY <2>1, HeadTail
  <2>3. /\ Append(chan[s], hand[s][1]) \in Seq(Packet)
        /\ Len(Append(chan[s], hand[s][1])) <= Capacity
    BY <2>1, <2>2, Appended
  <2> QED
    BY <1>5, <2>3, EmptySeq DEF TypeOK, HandOver
<1>6. CASE Post
  BY <1>6 DEF TypeOK, Post
<1>7. CASE TakeBackendPacket
  <2> DEFINE p == Head(chan["backend"])
  <2>1. /\ Take("backend", "select") /\ "backend" \in Sides /\ "client" \in Sides
        /\ UNCHANGED <<inbox, hand, outbox, loop, protocol, posted, cursor, peer, confused>>
    BY <1>7 DEF TakeBackendPacket, Sides
  <2>2. p \in Packet
    BY <2>1, TakeTyped
  <2>3. [p EXCEPT !.kind = "tree"] \in Packet
    BY <2>2 DEF Packet, Kinds
  <2>4. job' \in Seq(Job) /\ Len(job') <= 1
    BY <1>7, <2>1, <2>2, <2>3, JobTyped DEF TakeBackendPacket
  <2> QED
    BY <2>1, <2>4, TakeTyped DEF TypeOK
<1>8. CASE TakeClientPacket
  <2> DEFINE p == Head(chan["client"])
  <2>1. /\ Take("client", "select") /\ "backend" \in Sides /\ "client" \in Sides
        /\ UNCHANGED <<inbox, hand, outbox, loop, posted, cursor, peer, confused>>
        /\ protocol' \in {"Play", protocol}
    BY <1>8 DEF TakeClientPacket, Sides
  <2>2. p \in Packet
    BY <2>1, TakeTyped
  <2>3. job' \in Seq(Job) /\ Len(job') <= 1
    BY <1>8, <2>1, <2>2, JobTyped DEF TakeClientPacket
  <2> QED
    BY <2>1, <2>3, TakeTyped DEF TypeOK, Protocols
<1>9. CASE TakeCommand
  <2> DEFINE p == Head(chan["client"])
  <2>1. /\ Take("client", "select") /\ "client" \in Sides
        /\ UNCHANGED <<inbox, hand, outbox, loop, protocol, posted, cursor, peer, confused>>
    BY <1>9 DEF TakeCommand, Sides
  <2>2. p \in Packet /\ Own("reply") \in Packet
    BY <2>1, TakeTyped, OwnIsPacket DEF Kinds
  <2>3. job' \in Seq(Job) /\ Len(job') <= 1
    BY <1>9, <2>1, <2>2, JobTyped DEF TakeCommand
  <2> QED
    BY <2>1, <2>3, TakeTyped DEF TypeOK
<1>10. CASE CommandGoesOn
  <2>1. /\ job[1] \in Job /\ "client" \in Sides
        /\ Own("reply") \in Packet /\ Own("transfer") \in Packet
    BY <1>10, HeadTail, OwnIsPacket DEF CommandGoesOn, TypeOK, Kinds, Sides
  <2>2. job' \in Seq(Job) /\ Len(job') <= 1
    <3>1. CASE job' = <<>>
      BY <3>1, EmptySeq
    <3>2. CASE \/ Start("client", job[1].packet, "client", Own("reply"))
               \/ Start("client", job[1].packet, "client", Own("transfer"))
      <4>1. job[1].packet \in Packet
        BY <2>1 DEF Job
      <4> QED
        BY <2>1, <3>2, <4>1, JobTyped
    <3> QED
      BY <1>10, <3>1, <3>2 DEF CommandGoesOn
  <2> QED
    BY <1>10, <2>2 DEF CommandGoesOn, TypeOK
<1>11. CASE TakeBroadcast
  <2>1. News(cursor + 1) \in Packet /\ "client" \in Sides
    BY NewsIsPacket DEF TypeOK, Sides
  <2>2. job' \in Seq(Job) /\ Len(job') <= 1
    BY <1>11, <2>1, JobTyped DEF TakeBroadcast, TypeOK
  <2> QED
    BY <1>11, <2>2 DEF TakeBroadcast, TypeOK
<1>12. CASE Write
  <2>0. job[1] \in Job
    BY <1>12, HeadTail DEF Write, TypeOK
  <2>1. job[1] \in Job /\ job[1].to \in Sides /\ job[1].out \in Packet
    BY <1>12, <2>0 DEF Write, Job
  <2>2. outbox[job[1].to] \in Seq(Packet)
    BY <2>1 DEF TypeOK
  <2>3. /\ Append(outbox[job[1].to], job[1].out) \in Seq(Packet)
        /\ Len(Append(outbox[job[1].to], job[1].out)) = Len(outbox[job[1].to]) + 1
        /\ Len(outbox[job[1].to]) \in Nat
    BY <2>1, <2>2, Appended
  <2>4. /\ outbox' \in [Sides -> Seq(Packet)]
        /\ \A r \in Sides : Len(outbox'[r]) <= Buffer
    <3>1. outbox \in [Sides -> Seq(Packet)] /\ \A r \in Sides : Len(outbox[r]) <= Buffer
      BY DEF TypeOK
    <3>2. CASE ~peer[job[1].to].there
      BY <1>12, <3>1, <3>2 DEF Write
    <3>3. CASE peer[job[1].to].there
      <4>1. /\ outbox' = [outbox EXCEPT ![job[1].to] = Append(@, job[1].out)]
            /\ Len(outbox[job[1].to]) < Buffer
        BY <1>12, <3>3 DEF Write
      <4>2. Len(outbox[job[1].to]) + 1 <= Buffer
        BY <2>3, <4>1, BoundsAssumption
      <4> QED
        BY <2>1, <2>3, <3>1, <4>1, <4>2
    <3> QED
      BY <3>2, <3>3
  <2>5. job' \in Seq(Job) /\ Len(job') <= 1 /\ loop' \in {"select", "drain", "ended"}
    BY <1>12, EmptySeq DEF Write, TypeOK
  <2> QED
    BY <1>12, <2>4, <2>5 DEF Write, TypeOK
<1>13. CASE WriteFails
  <2>1. CASE End
    BY <2>1, EndTyped
  <2>2. CASE /\ job' = <<>>
             /\ UNCHANGED <<inbox, hand, chan, outbox, loop, protocol, posted, cursor, peer,
                            confused>>
    BY <2>2, EmptySeq DEF TypeOK
  <2> QED
    BY <1>13, <2>1, <2>2 DEF WriteFails
<1>14. CASE DrainBackend
  <2> DEFINE p == Head(chan["backend"])
  <2>1. /\ Take("backend", "drain") /\ "backend" \in Sides /\ "client" \in Sides
        /\ UNCHANGED <<inbox, hand, outbox, loop, protocol, posted, cursor, peer, confused>>
    BY <1>14 DEF DrainBackend, Sides
  <2>2. p \in Packet
    BY <2>1, TakeTyped
  <2>3. job' \in Seq(Job) /\ Len(job') <= 1
    BY <1>14, <2>1, <2>2, JobTyped DEF DrainBackend, TypeOK
  <2> QED
    BY <2>1, <2>3, TakeTyped DEF TypeOK
<1>15. CASE DrainClient
  <2>1. Take("client", "drain") /\ "client" \in Sides
    BY <1>15 DEF DrainClient, Sides
  <2> QED
    BY <1>15, <2>1, TakeTyped DEF DrainClient, TypeOK
<1>16. CASE DrainTimeout \/ ClientEof \/ BackendEof
  BY <1>16, EndTyped DEF DrainTimeout, ClientEof, BackendEof, Eofs
<1>17. CASE UNCHANGED vars
  BY <1>17 DEF vars, TypeOK
<1>18. ASSUME NEW s \in Sides, HangUp(s)
       PROVE  TypeOK'
  BY <1>2, <1>18 DEF HangUp, TypeOK
<1> QED
  BY <1>1, <1>3, <1>4, <1>5, <1>6, <1>7, <1>8, <1>9, <1>10, <1>11, <1>12, <1>13, <1>14,
     <1>15, <1>16, <1>17, <1>18 DEF Next, SideSteps

\* The types hold at the start of a session.
LEMMA TypeInit == Init => TypeOK
  BY EmptySeq, BoundsAssumption
  DEF Init, TypeOK, Sides, Protocols, Peer

\* Channels and sockets never hold more than they are made for, and one packet at most
\* is in the hand of each task.
THEOREM TypeCorrect == Spec => []TypeOK
  BY TypeInit, TypeStep, PTL DEF Spec

-----------------------------------------------------------------------------
(* What is under way *)

Elems(q) == {q[i] : i \in 1..Len(q)}

\* A packet under way is one a side may send; the end of a stream comes from a side that
\* has gone, and the backend's command tree when the forwarder knows of Play.
Sound(s, p) ==
  /\ p.kind \in {"data", "finish", "command", "commands", "eof"}
  /\ p.kind = "eof" => ~peer[s].there
  /\ s = "backend" /\ p.kind = "commands" => protocol = "Play"

StreamOK ==
  \A s \in Sides : \A p \in Elems(inbox[s]) \cup Elems(hand[s]) \cup Elems(chan[s]) :
    Sound(s, p)

\* The forwarder learns of Play before the backend does.
BackendLater ==
  /\ peer["backend"].proto = "Play" => protocol = "Play"
  /\ \A p \in Elems(outbox["backend"]) : p.kind = "finish" => protocol = "Play"

\* The packet in hand, where it goes and as what.
JobOf(j) ==
  /\ j.of # "ring" => j.packet.kind \in {"data", "finish", "command", "commands"}
  /\ j.of = "ring" => j.to = "client" /\ j.out.kind = "broadcast" /\ loop = "select"
  /\ j.of = "backend" =>
       /\ j.to = "client"
       /\ j.out = IF loop = "select" /\ j.packet.kind = "commands"
                  THEN [j.packet EXCEPT !.kind = "tree"] ELSE j.packet
  /\ j.of = "client" =>
       /\ loop = "select"
       /\ \/ /\ j.to = "backend"
             /\ j.out = j.packet
             /\ j.out.kind = "finish" => protocol = "Play"
          \/ j.to = "proxy" /\ j.packet.kind = "command"
          \/ /\ j.to = "client"
             /\ j.packet.kind = "command"
             /\ j.out.kind \in {"reply", "transfer"}

JobOK == job # <<>> => loop # "ended" /\ JobOf(job[1])

ForwarderInv == TypeOK /\ StreamOK /\ BackendLater /\ JobOK

\* The elements of a sequence that loses its first or gains one more.
LEMMA ElemsOf ==
  ASSUME NEW S, NEW q \in Seq(S)
  PROVE  /\ q # <<>> => Head(q) \in Elems(q) /\ Elems(Tail(q)) \subseteq Elems(q)
                          /\ q[1] \in Elems(q) /\ Elems(<<Head(q)>>) \subseteq Elems(q)
         /\ \A x \in S : Elems(Append(q, x)) = Elems(q) \cup {x}
         /\ Elems(<<>>) = {}
  <1>1. ASSUME q # <<>>
        PROVE  /\ Head(q) \in Elems(q) /\ Elems(Tail(q)) \subseteq Elems(q)
               /\ q[1] \in Elems(q) /\ Elems(<<Head(q)>>) \subseteq Elems(q)
    <2>1. Len(q) \in Nat \ {0} /\ Head(q) = q[1]
      BY <1>1, HeadTail
    <2>2. q[1] \in Elems(q)
      BY <2>1 DEF Elems
    <2>3. \A i \in 1..Len(Tail(q)) : Tail(q)[i] = q[i + 1] /\ i + 1 \in 1..Len(q)
      BY <1>1, <2>1, HeadTailProperties
    <2>4. Elems(Tail(q)) \subseteq Elems(q)
      BY <2>3 DEF Elems
    <2>5. Elems(<<Head(q)>>) = {Head(q)}
      BY DEF Elems
    <2> QED
      BY <2>1, <2>2, <2>4, <2>5
  <1>2. ASSUME NEW x \in S
        PROVE  Elems(Append(q, x)) = Elems(q) \cup {x}
    <2>1. /\ Len(Append(q, x)) = Len(q) + 1 /\ Len(q) \in Nat
          /\ \A i \in 1..Len(q) : Append(q, x)[i] = q[i]
          /\ Append(q, x)[Len(q) + 1] = x
      BY AppendProperties, LenProperties
    <2> QED
      BY <2>1 DEF Elems
  <1>3. Elems(<<>>) = {}
    BY DEF Elems
  <1> QED
    BY <1>1, <1>2, <1>3

\* The same for a sequence that gains a known element.
LEMMA ElemsAppend ==
  ASSUME NEW S, NEW q \in Seq(S), NEW x \in S
  PROVE  Elems(Append(q, x)) = Elems(q) \cup {x}
  BY ElemsOf

\* The protocol never goes back, and a side that has gone stays away.
LEMMA Monotone ==
  ASSUME TypeOK, [Next]_vars
  PROVE  /\ protocol = "Play" => protocol' = "Play"
         /\ \A s \in Sides : ~peer[s].there => ~peer'[s].there
<1>1. protocol = "Play" => protocol' = "Play"
  <2>1. ASSUME NEW s \in Sides, SideSteps(s) \/ Read(s) \/ HandOver(s)
        PROVE  protocol' = protocol
    BY <2>1 DEF SideSteps, Send, HangUp, Leave, Receive, Read, HandOver
  <2>2. CASE TakeClientPacket
    BY <2>2 DEF TakeClientPacket
  <2>3. CASE \/ TakeBackendPacket \/ TakeCommand \/ TakeBroadcast \/ Post \/ CommandGoesOn
             \/ Write \/ DrainBackend \/ DrainClient \/ UNCHANGED vars
    BY <2>3 DEF TakeBackendPacket, TakeCommand, TakeBroadcast, Post, CommandGoesOn, Write,
       DrainBackend, DrainClient, vars
  <2>4. CASE WriteFails \/ DrainTimeout \/ ClientEof \/ BackendEof
    BY <2>4 DEF WriteFails, DrainTimeout, ClientEof, BackendEof, Eofs, End
  <2> QED
    BY <2>1, <2>2, <2>3, <2>4 DEF Next
<1>2. ASSUME NEW s \in Sides, ~peer[s].there
      PROVE  ~peer'[s].there
  <2>1. CASE UNCHANGED peer
    BY <1>2, <2>1
  <2>2. ASSUME NEW r \in Sides, NEW kind, NEW text, NEW next, Send(r, kind, text, next)
        PROVE  ~peer'[s].there
    BY <1>2, <2>2 DEF Send, TypeOK, Peer
  <2>3. ASSUME NEW r \in Sides, Leave(r)
        PROVE  ~peer'[s].there
    <3>1. peer' = [peer EXCEPT ![r].there = FALSE] /\ peer \in [Sides -> Peer]
      BY <2>3 DEF Leave, TypeOK
    <3> QED
      BY <1>2, <3>1 DEF Peer
  <2>4. ASSUME NEW r \in Sides, Receive(r)
        PROVE  ~peer'[s].there
    <3>1. CASE Leave(r)
      BY <2>3, <3>1
    <3>2. CASE ~Leave(r)
      <4>1. PICK proto : peer' = [peer EXCEPT ![r].proto = proto]
        BY <2>4, <3>2 DEF Receive
      <4> QED
        BY <1>2, <4>1 DEF TypeOK, Peer
    <3> QED
      BY <3>1, <3>2
  <2> QED
    BY <2>1, <2>2, <2>3, <2>4 DEF Next, vars, SideSteps, HangUp, Read, HandOver, Post,
       TakeBackendPacket, TakeClientPacket, TakeCommand, TakeBroadcast, CommandGoesOn, Write,
       WriteFails, DrainBackend, DrainClient, DrainTimeout, ClientEof, BackendEof, Eofs, End
<1> QED
  BY <1>1, <1>2

\* What is in the queues of a side.
Under(s) == Elems(inbox[s]) \cup Elems(hand[s]) \cup Elems(chan[s])

\* Queues that only lose packets, or gain a sound one, stay sound.
LEMMA StreamKept ==
  ASSUME ForwarderInv, [Next]_vars,
         \A s \in Sides : \A p \in Under(s)' : p \in Under(s) \/ Sound(s, p)'
  PROVE  StreamOK'
<1>1. \A s \in Sides : \A p : Sound(s, p) => Sound(s, p)'
  BY Monotone DEF Sound, ForwarderInv
<1> QED
  BY <1>1 DEF StreamOK, Under, ForwarderInv

\* The packet a task takes is one under way.
LEMMA TakenIsSound ==
  ASSUME ForwarderInv, NEW s \in Sides, NEW stage, Take(s, stage)
  PROVE  /\ chan[s] \in Seq(Packet) /\ chan[s] # <<>> /\ Head(chan[s]) \in Packet
         /\ Sound(s, Head(chan[s]))
         /\ Elems(Tail(chan[s])) \subseteq Elems(chan[s])
         /\ chan' = [chan EXCEPT ![s] = Tail(chan[s])]
         /\ job = <<>> /\ loop = stage
<1>1. /\ chan[s] \in Seq(Packet) /\ chan[s] # <<>>
      /\ chan' = [chan EXCEPT ![s] = Tail(chan[s])]
      /\ job = <<>> /\ loop = stage
  BY DEF ForwarderInv, TypeOK, Take
<1>2. /\ Head(chan[s]) \in Packet /\ Head(chan[s]) \in Elems(chan[s])
      /\ Elems(Tail(chan[s])) \subseteq Elems(chan[s])
  BY <1>1, HeadTail, ElemsOf
<1> QED
  BY <1>1, <1>2 DEF ForwarderInv, StreamOK

\* Every step keeps the queues sound.
LEMMA StreamStep ==
  ASSUME ForwarderInv, [Next]_vars
  PROVE  StreamOK'
<1>0. TypeOK
  BY DEF ForwarderInv
<1>1. ASSUME NEW s \in Sides, NEW kind \in Kinds, NEW text \in Offered \cup {None},
             NEW next \in {"Config", "Play", "wait"}, Send(s, kind, text, next)
      PROVE  StreamOK'
  <2>1. peer[s] \in Peer /\ inbox[s] \in Seq(Packet)
    BY <1>0 DEF TypeOK
  <2>2. PICK p \in Packet :
          /\ p = [kind |-> kind, text |-> text,
                  proto |-> IF peer[s].proto = "Play" THEN "Play" ELSE "Config",
                  n |-> peer[s].sent + 1]
          /\ p.kind = kind
    <3> DEFINE q == [kind |-> kind, text |-> text,
                     proto |-> IF peer[s].proto = "Play" THEN "Play" ELSE "Config",
                     n |-> peer[s].sent + 1]
    <3>1. q \in Packet /\ q.kind = kind
      BY <2>1 DEF Packet, Peer, Protocols
    <3> QED
      BY <3>1
  <2>3. inbox' = [inbox EXCEPT ![s] = IF loop = "ended" THEN @ ELSE Append(@, p)]
    BY <1>1, <2>2 DEF Send
  <2>4. p.kind \in {"data", "finish", "command", "commands"}
    BY <1>1, <2>2 DEF Send, MaySend
  <2>5. s = "backend" /\ p.kind = "commands" => protocol' = "Play"
    BY <1>1, <2>2 DEF Send, MaySend, ForwarderInv, BackendLater
  <2>6. Sound(s, p)'
    BY <2>4, <2>5 DEF Sound
  <2>7. Elems(inbox'[s]) \subseteq Elems(inbox[s]) \cup {p}
    <3>1. Elems(Append(inbox[s], p)) = Elems(inbox[s]) \cup {p}
      BY <2>1, ElemsAppend
    <3> QED
      BY <1>0, <2>3, <3>1 DEF TypeOK
  <2>8. \A r \in Sides : \A q \in Under(r)' : q \in Under(r) \/ Sound(r, q)'
    BY <1>0, <1>1, <2>3, <2>6, <2>7 DEF Under, TypeOK, Send
  <2> QED
    BY <2>8, StreamKept
<1>2. ASSUME NEW s \in Sides, Leave(s)
      PROVE  StreamOK'
  <2>1. inbox[s] \in Seq(Packet)
    BY <1>0 DEF TypeOK
  <2>2. inbox' = [inbox EXCEPT ![s] = IF loop = "ended" THEN @ ELSE Append(@, Eof)]
    BY <1>2 DEF Leave
  <2>3. Sound(s, Eof)'
    BY <1>0, <1>2, EofIsPacket DEF Sound, Leave, TypeOK, Peer
  <2>4. Elems(inbox'[s]) \subseteq Elems(inbox[s]) \cup {Eof}
    <3>1. Elems(Append(inbox[s], Eof)) = Elems(inbox[s]) \cup {Eof}
      BY <2>1, EofIsPacket, ElemsAppend
    <3> QED
      BY <1>0, <2>2, <3>1 DEF TypeOK
  <2>5. \A r \in Sides : \A q \in Under(r)' : q \in Under(r) \/ Sound(r, q)'
    BY <1>0, <1>2, <2>2, <2>3, <2>4 DEF Under, TypeOK, Leave
  <2> QED
    BY <2>5, StreamKept
<1>3. ASSUME NEW s \in Sides, Read(s)
      PROVE  StreamOK'
  <2>1. inbox[s] \in Seq(Packet) /\ inbox[s] # <<>>
    BY <1>0, <1>3 DEF TypeOK, Read
  <2>2. /\ Elems(Tail(inbox[s])) \subseteq Elems(inbox[s])
        /\ Elems(<<Head(inbox[s])>>) \subseteq Elems(inbox[s])
    BY <2>1, ElemsOf
  <2>3. \A r \in Sides : \A q \in Under(r)' : q \in Under(r) \/ Sound(r, q)'
    BY <1>0, <1>3, <2>2 DEF Under, TypeOK, Read
  <2> QED
    BY <2>3, StreamKept
<1>4. ASSUME NEW s \in Sides, HandOver(s)
      PROVE  StreamOK'
  <2>1. /\ chan[s] \in Seq(Packet) /\ hand[s] \in Seq(Packet) /\ hand[s] # <<>>
    BY <1>0, <1>4 DEF TypeOK, HandOver
  <2>2. /\ hand[s][1] \in Elems(hand[s]) /\ Elems(<<>>) = {}
        /\ Elems(Append(chan[s], hand[s][1])) = Elems(chan[s]) \cup {hand[s][1]}
    <3>1. hand[s][1] \in Elems(hand[s]) /\ Elems(<<>>) = {}
      BY <2>1, ElemsOf
    <3>2. hand[s][1] \in Packet
      BY <2>1, HeadTail
    <3> QED
      BY <2>1, <3>1, <3>2, ElemsAppend
  <2>3. \A r \in Sides : \A q \in Under(r)' : q \in Under(r) \/ Sound(r, q)'
    BY <1>0, <1>4, <2>2 DEF Under, TypeOK, HandOver
  <2> QED
    BY <2>3, StreamKept
<1>5. ASSUME NEW s \in Sides, NEW stage, Take(s, stage), UNCHANGED <<inbox, hand>>
      PROVE  StreamOK'
  <2>1. \A r \in Sides : \A q \in Under(r)' : q \in Under(r) \/ Sound(r, q)'
    BY <1>0, <1>5, TakenIsSound DEF Under, TypeOK
  <2> QED
    BY <2>1, StreamKept
<1>6. ASSUME UNCHANGED <<inbox, hand, chan>>
      PROVE  StreamOK'
  BY <1>6, StreamKept DEF Under
<1>7. ASSUME End
      PROVE  StreamOK'
  <2>1. \A r \in Sides : Under(r)' = {}
    BY <1>7 DEF End, Under, Elems
  <2> QED
    BY <2>1, StreamKept
<1>8. ASSUME NEW s \in Sides, Receive(s)
      PROVE  StreamOK'
  BY <1>2, <1>6, <1>8 DEF Receive
<1>9. "client" \in Sides /\ "backend" \in Sides
  BY DEF Sides
<1>10. CASE TakeBackendPacket \/ TakeClientPacket \/ TakeCommand \/ DrainBackend \/ DrainClient
  BY <1>5, <1>9, <1>10
  DEF TakeBackendPacket, TakeClientPacket, TakeCommand, DrainBackend, DrainClient
<1>11. CASE \/ WriteFails \/ DrainTimeout \/ ClientEof \/ BackendEof
  BY <1>6, <1>7, <1>11 DEF WriteFails, DrainTimeout, ClientEof, BackendEof, Eofs
<1>12. CASE Post \/ TakeBroadcast \/ CommandGoesOn \/ Write \/ UNCHANGED vars
  BY <1>6, <1>12 DEF Post, TakeBroadcast, CommandGoesOn, Write, vars
<1> QED
  BY <1>1, <1>2, <1>3, <1>4, <1>8, <1>10, <1>11, <1>12 DEF Next, SideSteps, HangUp

\* A frame condition of the streams: what the forwarder takes does not touch the backend.
LEMMA LaterKept ==
  ASSUME ForwarderInv, [Next]_vars,
         peer'["backend"].proto = "Play" => protocol' = "Play",
         \A p \in Elems(outbox'["backend"]) :
           p \in Elems(outbox["backend"]) \/ (p.kind = "finish" => protocol' = "Play")
  PROVE  BackendLater'
  BY Monotone DEF BackendLater, ForwarderInv

\* Every step keeps the forwarder ahead of the backend.
LEMMA LaterStep ==
  ASSUME ForwarderInv, [Next]_vars
  PROVE  BackendLater'
<1>0. TypeOK /\ BackendLater /\ "backend" \in Sides /\ "client" \in Sides
  BY DEF ForwarderInv, Sides
<1>1. ASSUME NEW s \in Sides, NEW kind \in Kinds, NEW text \in Offered \cup {None},
             NEW next \in {"Config", "Play", "wait"}, Send(s, kind, text, next)
      PROVE  BackendLater'
  <2>1. peer'["backend"].proto = "Play" => peer["backend"].proto = "Play"
    <3>1. CASE s = "backend"
      <4>1. next = "Play" => peer["backend"].proto = "Play"
        BY <1>1, <3>1 DEF Send, MaySend
      <4> QED
        BY <1>0, <1>1, <3>1, <4>1 DEF Send, TypeOK, Peer
    <3>2. CASE s # "backend"
      BY <1>0, <1>1, <3>2 DEF Send, TypeOK
    <3> QED
      BY <3>1, <3>2
  <2> QED
    BY <1>0, <1>1, <2>1, LaterKept DEF Send, BackendLater
<1>2. ASSUME NEW s \in Sides, Leave(s)
      PROVE  BackendLater'
  <2>1. peer'["backend"].proto = peer["backend"].proto
    BY <1>0, <1>2 DEF Leave, TypeOK, Peer
  <2>2. outbox'["backend"] \in {outbox["backend"], <<>>}
    BY <1>0, <1>2 DEF Leave, TypeOK
  <2>3. Elems(outbox'["backend"]) \subseteq Elems(outbox["backend"])
    BY <2>2 DEF Elems
  <2>4. protocol' = protocol
    BY <1>2 DEF Leave
  <2> QED
    BY <1>0, <2>1, <2>3, <2>4, LaterKept DEF BackendLater
<1>3. ASSUME NEW s \in Sides, Receive(s)
      PROVE  BackendLater'
  <2>1. CASE Leave(s)
    BY <1>2, <2>1
  <2>2. CASE ~Leave(s)
    <3> DEFINE p == Head(outbox[s])
    <3>1. /\ outbox' = [outbox EXCEPT ![s] = Tail(outbox[s])]
          /\ peer' = [peer EXCEPT ![s] = [peer[s] EXCEPT !.proto =
                IF p.kind # "finish" THEN peer[s].proto
                ELSE IF s = "client" THEN "ack" ELSE "Play"]]
          /\ UNCHANGED protocol
      BY <1>3, <2>2 DEF Receive
    <3>2. /\ p \in Elems(outbox[s]) /\ Elems(Tail(outbox[s])) \subseteq Elems(outbox[s])
      BY <1>0, <1>3, ElemsOf DEF Receive, TypeOK
    <3>3. Elems(outbox'["backend"]) \subseteq Elems(outbox["backend"])
      BY <1>0, <3>1, <3>2 DEF TypeOK
    <3>4. peer'["backend"].proto = "Play" => protocol' = "Play"
      <4>1. CASE s = "backend"
        BY <1>0, <3>1, <3>2, <4>1 DEF BackendLater, TypeOK, Peer
      <4>2. CASE s # "backend"
        BY <1>0, <3>1, <4>2 DEF BackendLater, TypeOK
      <4> QED
        BY <4>1, <4>2
    <3> QED
      BY <3>3, <3>4, LaterKept
  <2> QED
    BY <2>1, <2>2
<1>4. CASE Write
  <2>1. /\ job[1] \in Job /\ job[1].to \in Sides /\ JobOK
        /\ job[1].out \in Packet /\ job[1].of \in Sides \cup {"ring"}
    <3>1. job[1] \in Job
      BY <1>0, <1>4, HeadTail DEF Write, TypeOK
    <3> QED
      BY <1>4, <3>1 DEF Write, Job, ForwarderInv
  <2>2. CASE job[1].to = "backend" /\ peer["backend"].there
    <3>1. job[1].out.kind = "finish" => protocol = "Play"
      BY <1>4, <2>1, <2>2 DEF JobOK, JobOf, Write, Sides
    <3>2. outbox'["backend"] = Append(outbox["backend"], job[1].out)
      BY <1>0, <1>4, <2>2 DEF Write, TypeOK
    <3>3. Elems(outbox'["backend"]) = Elems(outbox["backend"]) \cup {job[1].out}
      <4>1. outbox["backend"] \in Seq(Packet) /\ job[1].out \in Packet
        BY <1>0, <2>1 DEF TypeOK, Sides
      <4> QED
        BY <3>2, <4>1, ElemsAppend
    <3>4. UNCHANGED <<protocol, peer>>
      BY <1>4 DEF Write
    <3> QED
      BY <1>0, <3>1, <3>3, <3>4, LaterKept DEF BackendLater
  <2>3. CASE ~(job[1].to = "backend" /\ peer["backend"].there)
    <3>1. outbox'["backend"] = outbox["backend"] /\ UNCHANGED <<protocol, peer>>
      BY <1>0, <1>4, <2>1, <2>3 DEF Write, TypeOK
    <3> QED
      BY <1>0, <3>1, LaterKept DEF BackendLater
  <2> QED
    BY <2>2, <2>3
<1>5. ASSUME UNCHANGED <<outbox, peer>>
      PROVE  BackendLater'
  BY <1>0, <1>5, Monotone, LaterKept DEF BackendLater
<1> QED
  BY <1>1, <1>2, <1>3, <1>4, <1>5
  DEF Next, SideSteps, HangUp, vars, Read, HandOver, Post, TakeBackendPacket,
      TakeClientPacket, TakeCommand, TakeBroadcast, CommandGoesOn, WriteFails, DrainBackend,
      DrainClient, DrainTimeout, ClientEof, BackendEof, Eofs, End

\* Starting a job puts its fields in hand.
LEMMA Started ==
  ASSUME NEW of, NEW p, NEW to, NEW out, Start(of, p, to, out)
  PROVE  /\ job' # <<>>
         /\ job'[1].of = of /\ job'[1].packet = p /\ job'[1].to = to /\ job'[1].out = out
  BY DEF Start

\* Every step keeps what holds of the packet in hand.
LEMMA JobStep ==
  ASSUME ForwarderInv, [Next]_vars
  PROVE  JobOK'
<1>0. TypeOK /\ JobOK /\ "backend" \in Sides /\ "client" \in Sides
  BY DEF ForwarderInv, Sides
<1>1. ASSUME UNCHANGED <<job, loop>>
      PROVE  JobOK'
  BY <1>0, <1>1, Monotone DEF JobOK, JobOf
<1>2. ASSUME job' = <<>>
      PROVE  JobOK'
  BY <1>2 DEF JobOK
<1>3. CASE TakeBackendPacket
  <2> DEFINE p == Head(chan["backend"])
  <2>1. /\ loop = "select" /\ p.kind # "eof" /\ p \in Packet
        /\ Sound("backend", p) /\ UNCHANGED <<loop, protocol>>
    BY <1>0, <1>3, TakenIsSound DEF TakeBackendPacket
  <2>2. Start("backend", p, "client",
              IF p.kind = "commands" THEN [p EXCEPT !.kind = "tree"] ELSE p)
    <3>1. p.kind = "commands" => protocol = "Play"
      BY <2>1 DEF Sound
    <3> QED
      BY <1>3, <3>1 DEF TakeBackendPacket
  <2> QED
    BY <2>1, <2>2, Started DEF JobOK, JobOf, Sound
<1>4. CASE TakeClientPacket
  <2> DEFINE p == Head(chan["client"])
  <2>1. /\ loop = "select" /\ p.kind # "eof" /\ p \in Packet
        /\ Sound("client", p) /\ UNCHANGED loop
        /\ p.kind = "finish" => protocol' = "Play"
    BY <1>0, <1>4, TakenIsSound DEF TakeClientPacket
  <2>2. Start("client", p, "backend", p)
    BY <1>4 DEF TakeClientPacket
  <2>3. /\ job'[1].of = "client" /\ job'[1].to = "backend"
        /\ job'[1].packet = p /\ job'[1].out = p
    BY <2>2, Started
  <2>4. p.kind \in {"data", "finish", "command", "commands"}
    BY <2>1 DEF Sound
  <2> HIDE DEF p
  <2> QED
    BY <2>1, <2>3, <2>4 DEF JobOK, JobOf
<1>5. CASE TakeCommand
  <2> DEFINE p == Head(chan["client"])
  <2>1. loop = "select" /\ p.kind = "command" /\ UNCHANGED loop
    BY <1>0, <1>5, TakenIsSound DEF TakeCommand
  <2>2. Start("client", p, "client", Own("reply")) \/ Start("client", p, "proxy", p)
    BY <1>5 DEF TakeCommand
  <2>3. /\ job'[1].of = "client" /\ job'[1].packet = p
        /\ \/ job'[1].to = "client" /\ job'[1].out = Own("reply")
           \/ job'[1].to = "proxy"
    BY <2>2, Started
  <2> HIDE DEF p
  <2> QED
    BY <2>1, <2>3 DEF JobOK, JobOf, Own
<1>6. CASE CommandGoesOn
  <2>1. /\ job # <<>> /\ job[1].to = "proxy" /\ UNCHANGED loop
        /\ \/ job' = <<>>
           \/ Start("client", job[1].packet, "client", Own("reply"))
           \/ Start("client", job[1].packet, "client", Own("transfer"))
    BY <1>6 DEF CommandGoesOn
  <2>2. job[1] \in Job
    BY <1>0, <2>1, HeadTail DEF TypeOK
  <2>3. JobOf(job[1]) /\ job[1].of \in {"client", "backend", "ring"}
    BY <1>0, <2>1, <2>2 DEF JobOK, Job, Sides
  <2>4. loop = "select" /\ job[1].packet.kind = "command"
    BY <2>1, <2>3 DEF JobOf
  <2>5. CASE job' = <<>>
    BY <1>2, <2>5
  <2>6. CASE \/ Start("client", job[1].packet, "client", Own("reply"))
             \/ Start("client", job[1].packet, "client", Own("transfer"))
    <3>1. PICK q : q = job[1].packet
      OBVIOUS
    <3>2. /\ job'[1].of = "client" /\ job'[1].to = "client"
          /\ job'[1].packet.kind = "command"
          /\ job'[1].out \in {Own("reply"), Own("transfer")}
      BY <2>4, <2>6, <3>1, Started
    <3> QED
      BY <2>1, <2>4, <3>2 DEF JobOK, JobOf, Own
  <2> QED
    BY <2>1, <2>5, <2>6
<1>7. CASE TakeBroadcast
  <2>1. loop = "select" /\ UNCHANGED loop
        /\ (UNCHANGED job \/ Start("ring", News(cursor + 1), "client", News(cursor + 1)))
    BY <1>7 DEF TakeBroadcast
  <2>2. CASE UNCHANGED job
    BY <1>1, <2>1, <2>2
  <2>3. CASE Start("ring", News(cursor + 1), "client", News(cursor + 1))
    <3>1. /\ job'[1].of = "ring" /\ job'[1].to = "client"
          /\ job'[1].out.kind = "broadcast"
      BY <2>3, Started, NewsIsPacket, <1>0 DEF TypeOK
    <3> QED
      BY <2>1, <3>1 DEF JobOK, JobOf
  <2> QED
    BY <2>1, <2>2, <2>3
<1>8. CASE DrainBackend
  <2> DEFINE p == Head(chan["backend"])
  <2>1. /\ loop = "drain" /\ Sound("backend", p) /\ UNCHANGED loop
    BY <1>0, <1>8, TakenIsSound DEF DrainBackend
  <2>2. UNCHANGED job \/ (p.kind # "eof" /\ Start("backend", p, "client", p))
    BY <1>8 DEF DrainBackend
  <2>3. CASE UNCHANGED job
    BY <1>1, <2>1, <2>3
  <2>4. CASE p.kind # "eof" /\ Start("backend", p, "client", p)
    BY <2>1, <2>4, Started DEF JobOK, JobOf, Sound
  <2> QED
    BY <2>2, <2>3, <2>4
<1>9. CASE Write
  BY <1>2, <1>9 DEF Write
<1>10. CASE WriteFails
  BY <1>2, <1>10 DEF WriteFails, End
<1>11. CASE DrainTimeout \/ ClientEof \/ BackendEof
  <2>1. End
    BY <1>11 DEF DrainTimeout, ClientEof, BackendEof, Eofs
  <2> QED
    BY <1>2, <2>1 DEF End
<1>12. ASSUME NEW s \in Sides, SideSteps(s) \/ Read(s) \/ HandOver(s)
       PROVE  UNCHANGED <<job, loop>>
  BY <1>12 DEF SideSteps, HangUp, Send, Leave, Receive, Read, HandOver
<1>13. CASE Post \/ DrainClient \/ UNCHANGED vars
  BY <1>1, <1>13 DEF Post, DrainClient, vars
<1> QED
  BY <1>1, <1>3, <1>4, <1>5, <1>6, <1>7, <1>8, <1>9, <1>10, <1>11, <1>12, <1>13 DEF Next

\* The invariant holds from the start and in every step.
LEMMA InvInit == Init => ForwarderInv
<1>1. ASSUME Init
      PROVE  StreamOK /\ BackendLater /\ JobOK
  BY <1>1 DEF Init, StreamOK, BackendLater, JobOK, Elems, Sides
<1> QED
  BY <1>1, TypeInit DEF ForwarderInv

\* Every step keeps the invariant.
LEMMA InvStep == ForwarderInv /\ [Next]_vars => ForwarderInv'
  BY TypeStep, StreamStep, LaterStep, JobStep DEF ForwarderInv

\* The invariant holds in every reachable state.
LEMMA InvHolds == Spec => []ForwarderInv
  BY InvInit, InvStep, PTL DEF Spec

-----------------------------------------------------------------------------
(* The streams of the two sides *)

\* Sequences of packets, one packet, and concatenation, by name: the lemmas below say all
\* that is used of them.
Packets == Seq(Packet)
One(x) == <<x>>
Cat(q, r) == q \o r

\* The packet in hand, the channel, the reader's packet and the socket.
Joined(a, b, c, d) == Cat(Cat(Cat(a, b), c), d)

\* A packet is a sequence of one.
LEMMA OneSeq ==
  ASSUME NEW x \in Packet
  PROVE  One(x) \in Packets
  BY Single DEF One, Packets

\* No packets are a sequence too.
LEMMA EmptyIsPackets == <<>> \in Packets
  BY EmptySeq DEF Packets

\* Concatenation gives a sequence, and the empty one adds nothing to it.
LEMMA CatSeq ==
  ASSUME NEW q \in Packets, NEW r \in Packets
  PROVE  Cat(q, r) \in Packets /\ Cat(q, <<>>) = q /\ Cat(<<>>, q) = q
  BY ConcatProperties, ConcatEmptySeq DEF Cat, Packets

\* Concatenation is associative.
LEMMA CatAssoc ==
  ASSUME NEW q \in Packets, NEW r \in Packets, NEW t \in Packets
  PROVE  Cat(Cat(q, r), t) = Cat(q, Cat(r, t))
  BY ConcatAssociative, SMTT(30) DEF Cat, Packets

\* The first packet and the rest.
LEMMA CatFirst ==
  ASSUME NEW x \in Packet, NEW q \in Packets, NEW p, p = Cat(One(x), q)
  PROVE  p # <<>> /\ Head(p) = x /\ Tail(p) = q
  BY Single DEF Cat, One, Packets

\* A sequence that is not empty is its first packet and the rest.
LEMMA CatSplit ==
  ASSUME NEW q \in Packets, q # <<>>
  PROVE  Head(q) \in Packet /\ Tail(q) \in Packets /\ q = Cat(One(Head(q)), Tail(q))
  BY HeadTail DEF Cat, One, Packets

\* Appending is concatenation with one packet.
LEMMA CatAppend ==
  ASSUME NEW q \in Packets, NEW x \in Packet
  PROVE  Append(q, x) = Cat(q, One(x))
  BY AppendIsConcat DEF Cat, One, Packets

\* A stream is a sequence.
LEMMA JoinedSeq ==
  ASSUME NEW a \in Packets, NEW b \in Packets, NEW c \in Packets, NEW d \in Packets
  PROVE  Joined(a, b, c, d) \in Packets
  BY CatSeq DEF Joined

\* The first packet of the socket may as well be in the reader's hand.
LEMMA JoinedRead ==
  ASSUME NEW a \in Packets, NEW b \in Packets, NEW x \in Packet, NEW d \in Packets
  PROVE  Joined(a, b, One(x), d) = Joined(a, b, <<>>, Cat(One(x), d))
<1>1. Cat(a, b) \in Packets /\ Cat(Cat(a, b), <<>>) = Cat(a, b)
  BY CatSeq
<1>2. Cat(Cat(Cat(a, b), One(x)), d) = Cat(Cat(a, b), Cat(One(x), d))
  BY <1>1, OneSeq, CatAssoc
<1> QED
  BY <1>1, <1>2 DEF Joined

\* The packet in the reader's hand may as well be the last of the channel.
LEMMA JoinedHandOver ==
  ASSUME NEW a \in Packets, NEW b \in Packets, NEW x \in Packet, NEW d \in Packets
  PROVE  Joined(a, Cat(b, One(x)), <<>>, d) = Joined(a, b, One(x), d)
<1>1. Cat(Cat(a, b), One(x)) = Cat(a, Cat(b, One(x)))
  BY OneSeq, CatAssoc
<1>2. Cat(a, Cat(b, One(x))) \in Packets
  BY OneSeq, CatSeq
<1>3. Cat(Cat(a, Cat(b, One(x))), <<>>) = Cat(a, Cat(b, One(x)))
  BY <1>2, CatSeq
<1> QED
  BY <1>1, <1>3 DEF Joined

\* The first packet of the channel may as well be in the forwarder's hand.
LEMMA JoinedTake ==
  ASSUME NEW x \in Packet, NEW b \in Packets, NEW c, NEW d
  PROVE  Joined(One(x), b, c, d) = Joined(<<>>, Cat(One(x), b), c, d)
<1>1. Cat(One(x), b) \in Packets
  BY OneSeq, CatSeq
<1>2. Cat(<<>>, Cat(One(x), b)) = Cat(One(x), b)
  BY <1>1, CatSeq
<1> QED
  BY <1>2 DEF Joined

\* The packet in the forwarder's hand is the first of the stream.
LEMMA JoinedFirst ==
  ASSUME NEW x \in Packet, NEW b \in Packets, NEW c \in Packets, NEW d \in Packets
  PROVE  Joined(One(x), b, c, d) = Cat(One(x), Joined(<<>>, b, c, d))
<1>1. One(x) \in Packets /\ Cat(b, c) \in Packets /\ Cat(<<>>, b) = b
  BY OneSeq, CatSeq
<1>2. Cat(Cat(One(x), b), c) = Cat(One(x), Cat(b, c))
  BY <1>1, CatAssoc
<1>3. Cat(Cat(One(x), Cat(b, c)), d) = Cat(One(x), Cat(Cat(b, c), d))
  BY <1>1, CatAssoc
<1> QED
  BY <1>1, <1>2, <1>3 DEF Joined

\* What reaches the socket is the last of the stream.
LEMMA JoinedSend ==
  ASSUME NEW a \in Packets, NEW b \in Packets, NEW c \in Packets, NEW d \in Packets,
         NEW x \in Packet
  PROVE  Joined(a, b, c, Cat(d, One(x))) = Cat(Joined(a, b, c, d), One(x))
<1>1. Cat(Cat(a, b), c) \in Packets
  BY CatSeq
<1>2. Cat(Cat(Cat(Cat(a, b), c), d), One(x)) = Cat(Cat(Cat(a, b), c), Cat(d, One(x)))
  BY <1>1, OneSeq, CatAssoc
<1> QED
  BY <1>2 DEF Joined

\* A stream in parts, before and after a step.
LEMMA PipeParts ==
  ASSUME NEW s
  PROVE  /\ Pipe(s) = Joined(Held(s), chan[s], hand[s], inbox[s])
         /\ Pipe(s)' = Joined(Held(s)', chan'[s], hand'[s], inbox'[s])
  BY Zenon DEF Pipe, Joined, Cat

\* The parts a stream is made of.
LEMMA Parts ==
  ASSUME TypeOK, NEW s \in Sides
  PROVE  /\ Held(s) \in Packets /\ chan[s] \in Packets
         /\ hand[s] \in Packets /\ inbox[s] \in Packets
         /\ Pipe(s) \in Packets
<1>1. chan[s] \in Packets /\ hand[s] \in Packets /\ inbox[s] \in Packets
  BY DEF TypeOK, Packets
<1>2. Held(s) \in Packets
  <2>1. job # <<>> => job[1] \in Job
    BY HeadTail DEF TypeOK
  <2>2. job # <<>> => job[1].packet \in Packet
    BY <2>1 DEF Job
  <2> QED
    BY <2>2, Single, EmptySeq DEF Held, Packets
<1>3. Pipe(s) \in Packets
  BY <1>1, <1>2, PipeParts, JoinedSeq
<1> QED
  BY <1>1, <1>2, <1>3

\* A stream whose parts stay is the same stream.
LEMMA SameStream ==
  ASSUME NEW s \in Sides, Held(s)' = Held(s),
         chan'[s] = chan[s], hand'[s] = hand[s], inbox'[s] = inbox[s]
  PROVE  Pipe(s)' = Pipe(s)
  BY PipeParts

\* Streams are equal when they are equal for both sides.
LEMMA StreamsEqual ==
  ASSUME \A s \in Sides : Pipe(s)' = Pipe(s)
  PROVE  Streams' = Streams
  BY DEF Streams

\* A side that sends makes its stream longer.
LEMMA Stretched ==
  ASSUME TypeOK, NEW s \in Sides, NEW x \in Packet,
         inbox' = [inbox EXCEPT ![s] = IF loop = "ended" THEN @ ELSE Append(@, x)],
         UNCHANGED <<hand, chan, job>>
  PROVE  Streams' = IF loop = "ended" THEN Streams
                    ELSE [Streams EXCEPT ![s] = Append(Streams[s], x)]
<1>1. \A r \in Sides : Held(r)' = Held(r)
  BY DEF Held
<1>2. \A r \in Sides : r # s \/ loop = "ended" => Pipe(r)' = Pipe(r)
  <2>1. \A r \in Sides : r # s \/ loop = "ended" => inbox'[r] = inbox[r]
    BY DEF TypeOK
  <2> QED
    BY <1>1, <2>1, SameStream
<1>3. loop # "ended" => Pipe(s)' = Append(Pipe(s), x)
  <2>1. /\ Held(s) \in Packets /\ chan[s] \in Packets
        /\ hand[s] \in Packets /\ inbox[s] \in Packets /\ Pipe(s) \in Packets
    BY Parts
  <2>2. loop # "ended" => inbox'[s] = Append(inbox[s], x)
    BY DEF TypeOK
  <2>3. Append(inbox[s], x) = Cat(inbox[s], One(x))
    BY <2>1, CatAppend
  <2>4. Append(Pipe(s), x) = Cat(Pipe(s), One(x))
    BY <2>1, CatAppend
  <2>5. Joined(Held(s), chan[s], hand[s], Cat(inbox[s], One(x)))
          = Cat(Joined(Held(s), chan[s], hand[s], inbox[s]), One(x))
    BY <2>1, JoinedSend
  <2>6. loop # "ended" => Pipe(s)' = Cat(Pipe(s), One(x))
    BY <1>1, <2>2, <2>3, <2>5, PipeParts
  <2> QED
    BY <2>4, <2>6
<1> QED
  BY <1>2, <1>3 DEF Streams

\* A reader takes a packet: the stream is the same.
LEMMA ReadKeeps ==
  ASSUME TypeOK, NEW s \in Sides, Read(s)
  PROVE  Streams' = Streams
<1>1. \A r \in Sides : Held(r)' = Held(r) /\ chan'[r] = chan[r]
  BY DEF Held, Read
<1>2. \A r \in Sides : r # s => Pipe(r)' = Pipe(r)
  <2>1. \A r \in Sides : r # s => hand'[r] = hand[r] /\ inbox'[r] = inbox[r]
    BY DEF Read, TypeOK
  <2> QED
    BY <1>1, <2>1, SameStream
<1>3. Pipe(s)' = Pipe(s)
  <2>1. /\ inbox[s] # <<>> /\ hand[s] = <<>>
        /\ hand'[s] = <<Head(inbox[s])>> /\ inbox'[s] = Tail(inbox[s])
    BY DEF Read, TypeOK
  <2>2. PICK x \in Packet, d \in Packets :
          x = Head(inbox[s]) /\ d = Tail(inbox[s]) /\ inbox[s] = Cat(One(x), d)
    BY <2>1, Parts, CatSplit
  <2>3. hand'[s] = One(x) /\ inbox'[s] = d
    BY <2>1, <2>2 DEF One
  <2>4. Joined(Held(s), chan[s], One(x), d) = Joined(Held(s), chan[s], <<>>, Cat(One(x), d))
    BY Parts, JoinedRead
  <2> QED
    BY <1>1, <2>1, <2>2, <2>3, <2>4, PipeParts
<1> QED
  BY <1>2, <1>3, StreamsEqual

\* A reader hands a packet over: the stream is the same.
LEMMA HandOverKeeps ==
  ASSUME TypeOK, NEW s \in Sides, HandOver(s)
  PROVE  Streams' = Streams
<1>1. \A r \in Sides : Held(r)' = Held(r) /\ inbox'[r] = inbox[r]
  BY DEF Held, HandOver
<1>2. \A r \in Sides : r # s => Pipe(r)' = Pipe(r)
  <2>1. \A r \in Sides : r # s => hand'[r] = hand[r] /\ chan'[r] = chan[r]
    BY DEF HandOver, TypeOK
  <2> QED
    BY <1>1, <2>1, SameStream
<1>3. Pipe(s)' = Pipe(s)
  <2>1. hand[s] # <<>> /\ Len(hand[s]) <= 1 /\ hand[s] \in Seq(Packet)
    BY DEF HandOver, TypeOK
  <2>2. PICK x \in Packet : hand[s] = <<x>> /\ hand[s][1] = x
    BY <2>1, OneElement
  <2>3. chan'[s] = Append(chan[s], x) /\ hand'[s] = <<>>
    BY <2>2 DEF HandOver, TypeOK
  <2>4. chan'[s] = Cat(chan[s], One(x)) /\ hand[s] = One(x)
    BY <2>2, <2>3, Parts, CatAppend DEF One
  <2>5. Joined(Held(s), Cat(chan[s], One(x)), <<>>, inbox[s])
          = Joined(Held(s), chan[s], One(x), inbox[s])
    BY Parts, JoinedHandOver
  <2> QED
    BY <1>1, <2>3, <2>4, <2>5, PipeParts
<1> QED
  BY <1>2, <1>3, StreamsEqual

\* Without a packet in hand a stream begins with its channel.
LEMMA Idle ==
  ASSUME TypeOK, NEW s \in Sides, job = <<>>, chan[s] # <<>>
  PROVE  /\ Pipe(s) = Joined(One(Head(chan[s])), Tail(chan[s]), hand[s], inbox[s])
         /\ Head(Pipe(s)) = Head(chan[s]) /\ Pipe(s) # <<>>
         /\ Tail(Pipe(s)) = Joined(<<>>, Tail(chan[s]), hand[s], inbox[s])
<1>1. Held(s) = <<>>
  BY DEF Held
<1>2. PICK x \in Packet, b \in Packets :
        x = Head(chan[s]) /\ b = Tail(chan[s]) /\ chan[s] = Cat(One(x), b)
  BY Parts, CatSplit
<1>3. Pipe(s) = Joined(One(x), b, hand[s], inbox[s])
  <2>1. Pipe(s) = Joined(<<>>, Cat(One(x), b), hand[s], inbox[s])
    BY <1>1, <1>2, PipeParts
  <2>2. Joined(One(x), b, hand[s], inbox[s]) = Joined(<<>>, Cat(One(x), b), hand[s], inbox[s])
    BY JoinedTake
  <2> QED
    BY <2>1, <2>2
<1>4. PICK q \in Packets : q = Joined(<<>>, b, hand[s], inbox[s])
  BY Parts, EmptyIsPackets, JoinedSeq
<1>5. Pipe(s) = Cat(One(x), q)
  BY <1>3, <1>4, Parts, JoinedFirst
<1>6. Pipe(s) # <<>> /\ Head(Pipe(s)) = x /\ Tail(Pipe(s)) = q
  BY <1>5, CatFirst
<1> QED
  BY <1>2, <1>3, <1>4, <1>6

\* A packet in hand is the first of its stream.
LEMMA InHand ==
  ASSUME TypeOK, NEW s \in Sides, job # <<>>, job[1].of = s
  PROVE  /\ Pipe(s) # <<>> /\ Head(Pipe(s)) = job[1].packet
         /\ Tail(Pipe(s)) = Joined(<<>>, chan[s], hand[s], inbox[s])
<1>1. job[1].packet \in Packet
  <2>1. job[1] \in Job
    BY HeadTail DEF TypeOK
  <2> QED
    BY <2>1 DEF Job
<1>2. PICK x \in Packet : x = job[1].packet
  BY <1>1
<1>3. Pipe(s) = Joined(One(x), chan[s], hand[s], inbox[s])
  BY <1>2, PipeParts DEF Held, One
<1>4. PICK q \in Packets : q = Joined(<<>>, chan[s], hand[s], inbox[s])
  BY Parts, EmptyIsPackets, JoinedSeq
<1>5. Pipe(s) = Cat(One(x), q)
  BY <1>3, <1>4, Parts, JoinedFirst
<1>6. Pipe(s) # <<>> /\ Head(Pipe(s)) = x /\ Tail(Pipe(s)) = q
  BY <1>5, CatFirst
<1> QED
  BY <1>2, <1>4, <1>6

\* The forwarder takes a packet in hand: the streams are the same.
LEMMA TakeKeeps ==
  ASSUME TypeOK, NEW s \in Sides, NEW stage, Take(s, stage),
         job' # <<>>, job'[1].of = s, job'[1].packet = Head(chan[s]),
         UNCHANGED <<hand, inbox>>
  PROVE  Streams' = Streams
<1>1. job = <<>> /\ chan[s] # <<>> /\ chan' = [chan EXCEPT ![s] = Tail(chan[s])]
  BY DEF Take
<1>2. Pipe(s)' = Pipe(s)
  <2>1. Held(s)' = One(Head(chan[s])) /\ chan'[s] = Tail(chan[s])
    BY <1>1 DEF Held, One, TypeOK
  <2> QED
    BY <1>1, <2>1, Idle, PipeParts
<1>3. \A r \in Sides : r # s => Pipe(r)' = Pipe(r)
  <2>1. \A r \in Sides : r # s => Held(r)' = Held(r) /\ chan'[r] = chan[r]
    BY <1>1 DEF Held, TypeOK
  <2> QED
    BY <2>1, SameStream
<1> QED
  BY <1>2, <1>3, StreamsEqual

\* The forwarder drops a packet it has not taken in hand.
LEMMA DropsFirst ==
  ASSUME TypeOK, NEW s \in Sides, NEW stage, Take(s, stage), UNCHANGED <<job, hand, inbox>>
  PROVE  /\ Streams[s] # <<>>
         /\ Streams' = [Streams EXCEPT ![s] = Tail(Streams[s])]
<1>1. job = <<>> /\ job' = <<>> /\ chan[s] # <<>> /\ chan' = [chan EXCEPT ![s] = Tail(chan[s])]
  BY DEF Take
<1>2. Pipe(s)' = Tail(Pipe(s)) /\ Pipe(s) # <<>>
  <2>1. Held(s)' = <<>> /\ chan'[s] = Tail(chan[s])
    BY <1>1 DEF Held, TypeOK
  <2> QED
    BY <1>1, <2>1, Idle, PipeParts
<1>3. \A r \in Sides : r # s => Pipe(r)' = Pipe(r)
  <2>1. \A r \in Sides : r # s => Held(r)' = Held(r) /\ chan'[r] = chan[r]
    BY <1>1 DEF Held, TypeOK
  <2> QED
    BY <2>1, SameStream
<1> QED
  BY <1>2, <1>3 DEF Streams

\* The packet in hand is done with: the next of its stream is the first.
LEMMA DoneFirst ==
  ASSUME TypeOK, job # <<>>, job' = <<>>, UNCHANGED <<chan, hand, inbox>>, NEW s \in Sides
  PROVE  IF job[1].of = s
         THEN /\ Streams[s] # <<>> /\ Head(Streams[s]) = job[1].packet
              /\ Streams' = [Streams EXCEPT ![s] = Tail(Streams[s])]
         ELSE Pipe(s)' = Pipe(s)
<1>1. \A r \in Sides : Held(r)' = <<>>
  BY DEF Held
<1>2. \A r \in Sides : job[1].of # r => Pipe(r)' = Pipe(r)
  <2>1. \A r \in Sides : job[1].of # r => Held(r) = <<>>
    BY DEF Held
  <2> QED
    BY <1>1, <2>1, SameStream
<1>3. job[1].of = s =>
        Pipe(s) # <<>> /\ Head(Pipe(s)) = job[1].packet /\ Pipe(s)' = Tail(Pipe(s))
  BY <1>1, InHand, PipeParts
<1> QED
  BY <1>2, <1>3 DEF Streams

\* A session that ends empties the streams.
LEMMA EndEmpties ==
  ASSUME End
  PROVE  Streams' = [s \in Sides |-> <<>>] /\ Phase' = "over"
<1>1. \A s \in Sides : Pipe(s)' = <<>>
  <2>1. \A s \in Sides : Held(s)' = <<>> /\ chan'[s] = <<>> /\ hand'[s] = <<>> /\ inbox'[s] = <<>>
    BY DEF End, Held
  <2>2. <<>> \o <<>> = <<>>
    BY EmptySeq, ConcatEmptySeq
  <2> QED
    BY <2>1, <2>2 DEF Pipe
<1> QED
  BY <1>1 DEF Streams, Phase, End

=============================================================================
