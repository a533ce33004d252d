----------------------- MODULE PacketForwarderProtocol -----------------------
(***************************************************************************)
(* The end of the configuration goes once from the backend to the client   *)
(* and once back.  What is sent before it is read before it and what is    *)
(* sent after it is read after it, by the forwarder and by both sides,     *)
(* through every socket, hand and channel.                                 *)
(***************************************************************************)
EXTENDS PacketForwarderProofs

-----------------------------------------------------------------------------
(* Sequences of packets in order *)

\* After this packet comes nothing of the configuration.  Broadcasts come at any time.
Late(x) == x.kind = "finish" \/ (x.proto = "Play" /\ x.kind # "broadcast")

Before(x, y) == Late(x) => y.proto = "Play"

InOrder(q) == \A i, j \in 1..Len(q) : i < j => Before(q[i], q[j])

\* What has been written to a side, and what will be written to it afterwards.
Follows(a, q) ==
  /\ InOrder(a)
  /\ InOrder(q)
  /\ \A x \in Elems(a), y \in Elems(q) : Before(x, y)

\* A sequence that stays, loses its first packet or is lost.
Lessens(q, r) == r = q \/ (q # <<>> /\ r = Tail(q)) \/ r = <<>>

\* The first packet comes before all others, and the others stay in order.
LEMMA FirstInOrder ==
  ASSUME NEW q \in Packets, q # <<>>, InOrder(q)
  PROVE  /\ InOrder(Tail(q))
         /\ \A y \in Elems(Tail(q)) : Before(Head(q), y)
<1>1. /\ Len(q) \in Nat \ {0} /\ Head(q) = q[1] /\ Len(Tail(q)) = Len(q) - 1
      /\ \A i \in 1..Len(Tail(q)) : Tail(q)[i] = q[i + 1]
  BY HeadTail, HeadTailProperties DEF Packets
<1>2. PICK t : t = Tail(q)
  OBVIOUS
<1>3. /\ \A i \in 1..Len(t) : i + 1 \in 1..Len(q) /\ 1 < i + 1
      /\ \A i, j \in 1..Len(t) : i < j => i + 1 < j + 1
      /\ 1 \in 1..Len(q)
  BY <1>1, <1>2
<1>4. InOrder(t)
  BY <1>1, <1>2, <1>3 DEF InOrder
<1>5. \A i \in 1..Len(t) : Before(q[1], t[i])
  BY <1>1, <1>2, <1>3 DEF InOrder
<1>6. \A y \in Elems(t) : Before(q[1], y)
  BY <1>5 DEF Elems
<1> QED
  BY <1>1, <1>2, <1>4, <1>6

\* What lessens stays in order.
LEMMA LessInOrder ==
  ASSUME NEW q \in Packets, NEW r, InOrder(q), Lessens(q, r)
  PROVE  InOrder(r) /\ Elems(r) \subseteq Elems(q)
<1>1. CASE r = q
  BY <1>1
<1>2. CASE q # <<>> /\ r = Tail(q)
  BY <1>2, FirstInOrder, ElemsOf DEF Packets
<1>3. CASE r = <<>>
  BY <1>3 DEF InOrder, Elems
<1> QED
  BY <1>1, <1>2, <1>3 DEF Lessens

\* A packet that comes after all others may be appended.
LEMMA AppendInOrder ==
  ASSUME NEW q \in Packets, NEW x \in Packet, InOrder(q), \A y \in Elems(q) : Before(y, x)
  PROVE  InOrder(Append(q, x)) /\ Elems(Append(q, x)) = Elems(q) \cup {x}
<1>1. /\ Len(Append(q, x)) = Len(q) + 1 /\ Len(q) \in Nat
      /\ \A i \in 1..Len(q) : Append(q, x)[i] = q[i]
      /\ Append(q, x)[Len(q) + 1] = x
  BY AppendProperties, LenProperties DEF Packets
<1>2. PICK t : t = Append(q, x)
  OBVIOUS
<1>3. \A i \in 1..Len(q) : Before(q[i], x)
  BY DEF Elems
<1>4. \A i, j \in 1..Len(t) : i < j => i \in 1..Len(q) /\ (j \in 1..Len(q) \/ j = Len(q) + 1)
  BY <1>1, <1>2
<1>5. InOrder(t)
  BY <1>1, <1>2, <1>3, <1>4 DEF InOrder
<1> QED
  BY <1>2, <1>5, ElemsAppend DEF Packets

\* The path from a side to the other keeps its order when it lessens.
LEMMA FollowsLess ==
  ASSUME NEW a \in Packets, NEW q \in Packets, NEW b, NEW r,
         Follows(a, q), Lessens(a, b), Lessens(q, r)
  PROVE  Follows(b, r) /\ Elems(b) \subseteq Elems(a) /\ Elems(r) \subseteq Elems(q)
<1>1. InOrder(b) /\ Elems(b) \subseteq Elems(a) /\ InOrder(r) /\ Elems(r) \subseteq Elems(q)
  BY LessInOrder DEF Follows
<1> QED
  BY <1>1 DEF Follows

\* The path keeps its order when a side sends.
LEMMA FollowsSend ==
  ASSUME NEW a \in Packets, NEW q \in Packets, NEW x \in Packet,
         Follows(a, q), \A y \in Elems(a) \cup Elems(q) : Before(y, x)
  PROVE  Follows(a, Append(q, x)) /\ Elems(Append(q, x)) = Elems(q) \cup {x}
<1>1. InOrder(Append(q, x)) /\ Elems(Append(q, x)) = Elems(q) \cup {x}
  BY AppendInOrder DEF Follows
<1> QED
  BY <1>1 DEF Follows

\* The path keeps its order when something is written between what was written before and
\* what is still to come.
LEMMA FollowsWrite ==
  ASSUME NEW a \in Packets, NEW q \in Packets, NEW r, NEW x \in Packet,
         Follows(a, q), Lessens(q, r),
         \A y \in Elems(a) : Before(y, x), \A y \in Elems(r) : Before(x, y)
  PROVE  /\ Follows(Append(a, x), r)
         /\ Elems(Append(a, x)) = Elems(a) \cup {x} /\ Elems(r) \subseteq Elems(q)
<1>1. InOrder(Append(a, x)) /\ Elems(Append(a, x)) = Elems(a) \cup {x}
  BY AppendInOrder DEF Follows
<1>2. InOrder(r) /\ Elems(r) \subseteq Elems(q)
  BY LessInOrder DEF Follows
<1> QED
  BY <1>1, <1>2 DEF Follows

\* The elements of two sequences one after the other.
LEMMA ElemsCat ==
  ASSUME NEW q \in Packets, NEW r \in Packets
  PROVE  Elems(Cat(q, r)) = Elems(q) \cup Elems(r)
<1>1. /\ Len(q) \in Nat /\ Len(r) \in Nat /\ Len(Cat(q, r)) = Len(q) + Len(r)
      /\ \A i \in 1..Len(q) + Len(r) :
           Cat(q, r)[i] = IF i <= Len(q) THEN q[i] ELSE r[i - Len(q)]
  BY ConcatProperties, LenProperties DEF Cat, Packets
<1>2. PICK t : t = Cat(q, r)
  OBVIOUS
<1>3. PICK m \in Nat, n \in Nat : m = Len(q) /\ n = Len(r)
  BY <1>1
<1>4. \A i \in 1..m + n : t[i] = IF i <= m THEN q[i] ELSE r[i - m]
  BY <1>1, <1>2, <1>3
<1>5. \A i \in 1..m + n : IF i <= m THEN i \in 1..m ELSE i - m \in 1..n
  OBVIOUS
<1>6. \A i \in 1..m + n : t[i] \in {q[k] : k \in 1..m} \cup {r[k] : k \in 1..n}
  BY <1>4, <1>5
<1>7. \A k \in 1..m : k \in 1..m + n /\ t[k] = q[k]
  BY <1>4
<1>8. \A k \in 1..n : k + m \in 1..m + n /\ t[k + m] = r[k]
  BY <1>4
<1>9. {t[i] : i \in 1..m + n} = {q[k] : k \in 1..m} \cup {r[k] : k \in 1..n}
  BY <1>6, <1>7, <1>8
<1> QED
  BY <1>1, <1>2, <1>3, <1>9 DEF Elems

\* The elements of a stream.
LEMMA ElemsJoined ==
  ASSUME NEW a \in Packets, NEW b \in Packets, NEW c \in Packets, NEW d \in Packets
  PROVE  Elems(Joined(a, b, c, d)) = Elems(a) \cup Elems(b) \cup Elems(c) \cup Elems(d)
<1>1. Cat(a, b) \in Packets /\ Cat(Cat(a, b), c) \in Packets
  BY CatSeq
<1>2. Elems(Cat(a, b)) = Elems(a) \cup Elems(b)
  BY ElemsCat
<1>3. Elems(Cat(Cat(a, b), c)) = Elems(Cat(a, b)) \cup Elems(c)
  BY <1>1, ElemsCat
<1>4. Elems(Cat(Cat(Cat(a, b), c), d)) = Elems(Cat(Cat(a, b), c)) \cup Elems(d)
  BY <1>1, ElemsCat
<1> QED
  BY <1>2, <1>3, <1>4 DEF Joined

\* A stream is the packet in hand and what is in the queues.
LEMMA ElemsPipe ==
  ASSUME TypeOK, NEW s \in Sides
  PROVE  Elems(Pipe(s)) = Elems(Held(s)) \cup Under(s)
<1>1. /\ Held(s) \in Packets /\ chan[s] \in Packets
      /\ hand[s] \in Packets /\ inbox[s] \in Packets
  BY Parts
<1> QED
  BY <1>1, PipeParts, ElemsJoined DEF Under

\* A sequence is its first packet and the others.
LEMMA ElemsHead ==
  ASSUME NEW q \in Packets, q # <<>>
  PROVE  Elems(q) = {Head(q)} \cup Elems(Tail(q)) /\ Head(q) \in Packet
<1>1. PICK x \in Packet, r \in Packets :
        x = Head(q) /\ r = Tail(q) /\ q = Cat(One(x), r)
  BY CatSplit
<1>2. Elems(q) = Elems(One(x)) \cup Elems(r)
  BY <1>1, OneSeq, ElemsCat
<1>3. Elems(One(x)) = {x}
  BY DEF Elems, One
<1> QED
  BY <1>1, <1>2, <1>3

-----------------------------------------------------------------------------
(* The invariant *)

\* What has been written of the stream of a side, and not read yet.
Ahead(s) == outbox[Other(s)]

\* All that is on the way from a side to the other.
Path(s) == Elems(Ahead(s)) \cup Elems(Pipe(s))

PathsInOrder == \A s \in Sides : Follows(Ahead(s), Pipe(s))

\* The sides know the states they can be in, and what is on the way tells how far the side
\* was that sent it.
Marked ==
  /\ peer["client"].proto # "wait" /\ peer["backend"].proto # "ack"
  /\ \A s \in Sides : \A p \in Path(s) :
       p.kind = "finish" => p.proto = "Config" /\ peer[s].proto \notin {"Config", "ack"}
  /\ \A p \in Path("client") :
       /\ p.proto = "Play" /\ p.kind # "eof" => peer["client"].proto = "Play"
       /\ p.kind = "command" => p.proto = "Play" /\ p.text \in Offered
  /\ \A p \in Path("backend") :
       p.proto = "Play" /\ p.kind \notin {"eof", "broadcast"} => protocol = "Play"

\* A client that knows of the end has all of the configuration.
ClientTold ==
  peer["client"].proto # "Config" =>
    peer["backend"].proto # "Config" /\ \A p \in Path("backend") : p.proto = "Play"

\* The forwarder knows of the end when it has taken it from the client, which has sent it
\* before all that belongs to Play.
ForwarderTold ==
  /\ protocol = "Play" =>
       peer["client"].proto = "Play" /\ \A p \in Under("client") : p.proto = "Play"
  /\ protocol = "Config" /\ peer["client"].proto = "Play" /\ loop # "ended" =>
       \E p \in Under("client") : p.kind = "finish"
  /\ loop = "drain" => protocol = "Play"

\* The end is in hand, or ahead of what belongs to Play, until the backend has it.
FinishAhead == \E p \in Elems(outbox["backend"]) : p.kind = "finish"

BackendTold ==
  /\ peer["backend"].proto = "Play" => \A p \in Path("client") : p.proto = "Play"
  /\ protocol = "Play" /\ peer["backend"].there /\ loop # "ended" =>
       \/ peer["backend"].proto = "Play" \/ FinishAhead
       \/ job # <<>> /\ job[1].to = "backend" /\ job[1].out.kind = "finish"
  /\ (\E p \in Elems(outbox["backend"]) : p.proto = "Play") =>
       peer["backend"].proto = "Play" \/ FinishAhead

\* What the proxy says by itself, and what it does not pass on.
HandOK == job # <<>> =>
  /\ job[1].of = "ring" => job[1].out.proto = "Play"
  /\ job[1].of = "client" /\ job[1].to = "backend" => job[1].packet.kind # "command"
  /\ job[1].of = "client" /\ job[1].to # "backend" => protocol = "Play"
  /\ job[1].of = "client" /\ job[1].to = "client" => job[1].out.proto = "Play"

WrittenOK ==
  /\ \A s \in Sides : \A p \in Elems(outbox[s]) : p.kind # "eof"
  /\ \A p \in Elems(outbox["backend"]) : p.kind # "command"

Ordered ==
  /\ PathsInOrder /\ Marked /\ ClientTold /\ ForwarderTold /\ BackendTold
  /\ HandOK /\ WrittenOK

\* All that is under way, in outboxes, hands and channels, respects the order of the two ends
\* of the configuration, and each side's protocol and the forwarder's are as far as what it
\* has read: the inductive invariant that the properties of the protocol follow from.
ProtocolInv == ForwarderInv /\ Ordered

-----------------------------------------------------------------------------
(* The streams, step by step *)

\* The types of all that is on the way.
LEMMA PathTypes ==
  ASSUME TypeOK, NEW s \in Sides
  PROVE  /\ Other(s) \in Sides /\ Other(s) # s
         /\ Ahead(s) \in Packets /\ Pipe(s) \in Packets /\ outbox[s] \in Packets
         /\ peer[s] \in Peer
<1>1. Other(s) \in Sides /\ Other(s) # s
  BY DEF Sides, Other
<1> QED
  BY <1>1, Parts DEF TypeOK, Packets, Ahead

\* Only what a side may send is in its stream.
LEMMA PipeKinds ==
  ASSUME ForwarderInv, NEW s \in Sides, NEW p \in Elems(Pipe(s))
  PROVE  /\ p.kind \in {"data", "finish", "command", "commands", "eof"}
         /\ p.kind = "eof" => ~peer[s].there
<1>1. p \in Elems(Held(s)) \/ p \in Under(s)
  BY ElemsPipe DEF ForwarderInv
<1>2. CASE p \in Under(s)
  BY <1>2 DEF ForwarderInv, StreamOK, Sound, Under
<1>3. CASE p \in Elems(Held(s))
  <2>1. job # <<>> /\ job[1].of = s /\ p = job[1].packet
    BY <1>3 DEF Held, Elems
  <2>2. s # "ring"
    BY DEF Sides
  <2> QED
    BY <2>1, <2>2 DEF ForwarderInv, JobOK, JobOf
<1> QED
  BY <1>1, <1>2, <1>3

\* A side that sends makes its stream longer by one packet.
LEMMA Grows ==
  ASSUME TypeOK, NEW s \in Sides, NEW x \in Packet,
         inbox' = [inbox EXCEPT ![s] = IF loop = "ended" THEN @ ELSE Append(@, x)],
         UNCHANGED <<hand, chan, job>>
  PROVE  \A r \in Sides :
           IF r = s /\ loop # "ended"
           THEN Pipe(r)' = Append(Pipe(r), x) /\ Under(r)' = Under(r) \cup {x}
           ELSE Pipe(r)' = Pipe(r) /\ Under(r)' = Under(r)
<1>1. \A r \in Sides :
        Pipe(r)' = IF r = s /\ loop # "ended" THEN Append(Pipe(r), x) ELSE Pipe(r)
  <2>1. Streams' = IF loop = "ended" THEN Streams
                   ELSE [Streams EXCEPT ![s] = Append(Streams[s], x)]
    BY Stretched
  <2> QED
    BY <2>1 DEF Streams
<1>2. \A r \in Sides :
        inbox'[r] = IF r = s /\ loop # "ended" THEN Append(inbox[r], x) ELSE inbox[r]
  BY DEF TypeOK
<1>3. Elems(Append(inbox[s], x)) = Elems(inbox[s]) \cup {x}
  BY ElemsAppend DEF TypeOK
<1>4. \A r \in Sides :
        Under(r)' = IF r = s /\ loop # "ended" THEN Under(r) \cup {x} ELSE Under(r)
  BY <1>2, <1>3 DEF Under
<1> QED
  BY <1>1, <1>4

\* What a reader does changes no stream.
LEMMA ReaderKeeps ==
  ASSUME TypeOK, NEW s \in Sides, Read(s) \/ HandOver(s)
  PROVE  \A r \in Sides : Pipe(r)' = Pipe(r) /\ Under(r)' = Under(r)
<1>1. \A r \in Sides : Pipe(r)' = Pipe(r)
  BY ReadKeeps, HandOverKeeps DEF Streams
<1>2. inbox[s] \in Packets /\ hand[s] \in Packets /\ chan[s] \in Packets
  BY Parts
<1>3. Elems(<<>>) = {}
  BY DEF Elems
<1>4. CASE Read(s)
  <2>1. inbox[s] # <<>> /\ hand[s] = <<>>
    BY <1>4 DEF Read
  <2>2. PICK x \in Packet, q \in Packets : x = Head(inbox[s]) /\ q = Tail(inbox[s])
    BY <1>2, <2>1, CatSplit
  <2>3. \A r \in Sides : /\ inbox'[r] = IF r = s THEN q ELSE inbox[r]
                         /\ hand'[r] = IF r = s THEN One(x) ELSE hand[r]
                         /\ chan'[r] = chan[r]
    BY <1>4, <2>2 DEF Read, TypeOK, One
  <2>4. Elems(inbox[s]) = {x} \cup Elems(q)
    BY <1>2, <2>1, <2>2, ElemsHead
  <2>5. Elems(One(x)) = {x}
    BY DEF Elems, One
  <2>6. \A r \in Sides : Under(r)' = Under(r)
    BY <1>3, <2>1, <2>3, <2>4, <2>5 DEF Under
  <2> QED
    BY <1>1, <2>6
<1>5. CASE HandOver(s)
  <2>1. hand[s] # <<>> /\ Len(hand[s]) <= 1 /\ hand[s] \in Seq(Packet)
    BY <1>5 DEF HandOver, TypeOK
  <2>2. PICK x \in Packet : hand[s] = <<x>> /\ hand[s][1] = x
    BY <2>1, OneElement
  <2>3. \A r \in Sides : /\ chan'[r] = IF r = s THEN Append(chan[s], x) ELSE chan[r]
                         /\ hand'[r] = IF r = s THEN <<>> ELSE hand[r]
                         /\ inbox'[r] = inbox[r]
    BY <1>5, <2>2 DEF HandOver, TypeOK
  <2>4. Elems(Append(chan[s], x)) = Elems(chan[s]) \cup {x}
    BY <1>2, ElemsAppend DEF Packets
  <2>5. Elems(hand[s]) = {x}
    BY <2>2 DEF Elems
  <2>6. \A r \in Sides : Under(r)' = Under(r)
    BY <1>3, <2>3, <2>4, <2>5 DEF Under
  <2> QED
    BY <1>1, <2>6
<1> QED
  BY <1>4, <1>5

\* The packet the forwarder takes is the first of the stream, which is all in the queues.
LEMMA TakesFirst ==
  ASSUME ForwarderInv, NEW s \in Sides, NEW stage, Take(s, stage), UNCHANGED <<inbox, hand>>
  PROVE  /\ job = <<>> /\ loop = stage /\ Pipe(s) # <<>> /\ Head(Pipe(s)) = Head(chan[s])
         /\ Head(chan[s]) \in Packet /\ Sound(s, Head(chan[s]))
         /\ Under(s) = Under(s)' \cup {Head(chan[s])}
         /\ Elems(Tail(Pipe(s))) = Under(s)'
         /\ \A r \in Sides : /\ Under(r)' \subseteq Under(r)
                             /\ r # s => Under(r)' = Under(r)
                             /\ Elems(Pipe(r)) = Under(r)
<1>1. TypeOK
  BY DEF ForwarderInv
<1>2. /\ job = <<>> /\ loop = stage /\ chan[s] # <<>> /\ chan[s] \in Packets
      /\ Head(chan[s]) \in Packet /\ Sound(s, Head(chan[s]))
      /\ chan' = [chan EXCEPT ![s] = Tail(chan[s])]
  BY TakenIsSound DEF Packets
<1>3. Pipe(s) # <<>> /\ Head(Pipe(s)) = Head(chan[s])
  BY <1>1, <1>2, Idle
<1>4. Elems(chan[s]) = {Head(chan[s])} \cup Elems(Tail(chan[s]))
  BY <1>2, ElemsHead
<1>5. \A r \in Sides : chan'[r] = IF r = s THEN Tail(chan[s]) ELSE chan[r]
  BY <1>1, <1>2 DEF TypeOK
<1>6. \A r \in Sides : Elems(Pipe(r)) = Under(r)
  <2>1. \A r \in Sides : Elems(Held(r)) = {}
    BY <1>2 DEF Held, Elems
  <2> QED
    BY <1>1, <2>1, ElemsPipe
<1>7. /\ Under(s) = Under(s)' \cup {Head(chan[s])}
      /\ \A r \in Sides : r # s => Under(r)' = Under(r)
  BY <1>4, <1>5 DEF Under
<1>8. Elems(Tail(Pipe(s))) = Under(s)'
  <2>1. Tail(Pipe(s)) = Joined(<<>>, Tail(chan[s]), hand[s], inbox[s])
    BY <1>1, <1>2, Idle
  <2>2. PICK b \in Packets, c \in Packets, d \in Packets :
          b = Tail(chan[s]) /\ c = hand[s] /\ d = inbox[s]
    BY <1>1, <1>2, Parts, CatSplit
  <2>3. Elems(Joined(<<>>, b, c, d)) = Elems(<<>>) \cup Elems(b) \cup Elems(c) \cup Elems(d)
    BY EmptyIsPackets, ElemsJoined
  <2>4. Elems(<<>>) = {}
    BY DEF Elems
  <2> QED
    BY <1>5, <2>1, <2>2, <2>3, <2>4 DEF Under
<1> QED
  BY <1>2, <1>3, <1>6, <1>7, <1>8

-----------------------------------------------------------------------------
(* What is read and lost *)

\* Where nothing is added, what is on the way stays in order.
LEMMA PathsLessen ==
  ASSUME ProtocolInv,
         \A s \in Sides : Lessens(Ahead(s), Ahead(s)') /\ Lessens(Pipe(s), Pipe(s)')
  PROVE  /\ PathsInOrder' /\ WrittenOK'
         /\ \A s \in Sides : Path(s)' \subseteq Path(s)
<1>1. \A s \in Sides : Ahead(s) \in Packets /\ Pipe(s) \in Packets /\ Follows(Ahead(s), Pipe(s))
  BY PathTypes DEF ProtocolInv, Ordered, ForwarderInv, PathsInOrder
<1>2. \A s \in Sides : /\ Follows(Ahead(s)', Pipe(s)')
                       /\ Elems(Ahead(s)') \subseteq Elems(Ahead(s))
                       /\ Elems(Pipe(s)') \subseteq Elems(Pipe(s))
  BY <1>1, FollowsLess
<1>3. PathsInOrder'
  BY <1>2 DEF PathsInOrder
<1>4. \A s \in Sides : Path(s)' \subseteq Path(s)
  BY <1>2 DEF Path
<1>5. \A s \in Sides : Elems(outbox[s])' \subseteq Elems(outbox[s])
  BY <1>2 DEF Ahead, Sides, Other
<1>6. WrittenOK'
  BY <1>5 DEF ProtocolInv, Ordered, WrittenOK, Sides
<1> QED
  BY <1>3, <1>4, <1>6

\* It goes on to tell how far the sides were, too, if they have moved no further.
LEMMA FewerKeeps ==
  ASSUME ProtocolInv,
         \A s \in Sides : Lessens(Ahead(s), Ahead(s)') /\ Lessens(Pipe(s), Pipe(s)'),
         \A s \in Sides : peer'[s].proto = peer[s].proto,
         protocol = "Play" => protocol' = "Play"
  PROVE  /\ PathsInOrder' /\ Marked' /\ ClientTold' /\ WrittenOK'
         /\ \A s \in Sides : Path(s)' \subseteq Path(s)
<1>1. /\ PathsInOrder' /\ WrittenOK'
      /\ \A s \in Sides : Path(s)' \subseteq Path(s)
  BY PathsLessen
<1>2. Marked'
  BY <1>1 DEF ProtocolInv, Ordered, Marked, Sides
<1>3. ClientTold'
  BY <1>1 DEF ProtocolInv, Ordered, ClientTold, Sides
<1> QED
  BY <1>1, <1>2, <1>3

\* The forwarder goes on to know as much of the client as long as the client's queues are
\* the same.
LEMMA ForwarderKeeps ==
  ASSUME ProtocolInv, Under("client")' = Under("client"), UNCHANGED protocol,
         peer'["client"].proto = "Play" <=> peer["client"].proto = "Play",
         loop' = loop \/ (loop # "ended" /\ protocol = "Play")
  PROVE  ForwarderTold'
  BY DEF ProtocolInv, Ordered, ForwarderTold

\* The backend goes on to know as much as long as nothing is written to it and the same
\* packet is in hand.
LEMMA BackendKeeps ==
  ASSUME ProtocolInv, UNCHANGED <<protocol, job>>, loop' = loop,
         outbox'["backend"] = outbox["backend"],
         peer'["backend"].proto = peer["backend"].proto,
         peer'["backend"].there => peer["backend"].there,
         peer["backend"].proto = "Play" => \A p \in Path("client")' : p.proto = "Play"
  PROVE  BackendTold'
  BY DEF ProtocolInv, Ordered, BackendTold, FinishAhead

\* The same packet in hand.
LEMMA HandKeeps ==
  ASSUME ProtocolInv, UNCHANGED job, protocol = "Play" => protocol' = "Play"
  PROVE  HandOK'
  BY DEF ProtocolInv, Ordered, HandOK

\* The end of the session takes all away that is not written.
LEMMA EndKeeps ==
  ASSUME ProtocolInv, End
  PROVE  Ordered'
<1>1. \A s \in Sides : Pipe(s)' = <<>> /\ Under(s)' = {}
  <2>1. \A s \in Sides : Pipe(s)' = <<>>
    BY EndEmpties DEF Streams
  <2>2. \A s \in Sides : Under(s)' = {}
    BY DEF End, Under, Elems
  <2> QED
    BY <2>1, <2>2
<1>2. UNCHANGED <<outbox, protocol, peer>> /\ loop' = "ended" /\ job' = <<>>
  BY DEF End
<1>3. /\ PathsInOrder' /\ Marked' /\ ClientTold' /\ WrittenOK'
      /\ \A s \in Sides : Path(s)' \subseteq Path(s)
  <2>1. \A s \in Sides : Lessens(Ahead(s), Ahead(s)') /\ Lessens(Pipe(s), Pipe(s)')
    BY <1>1, <1>2 DEF Lessens, Ahead
  <2> QED
    BY <1>2, <2>1, FewerKeeps
<1>4. ForwarderTold'
  BY <1>1, <1>2 DEF ProtocolInv, Ordered, ForwarderTold, Sides
<1>5. BackendTold'
  BY <1>2, <1>3 DEF ProtocolInv, Ordered, BackendTold, FinishAhead, Sides
<1>6. HandOK'
  BY <1>2 DEF HandOK
<1> QED
  BY <1>3, <1>4, <1>5, <1>6 DEF Ordered

-----------------------------------------------------------------------------
(* What the sides do *)

\* What a side sends, and where it is afterwards.
LEMMA Sends ==
  ASSUME TypeOK, NEW s \in Sides, NEW kind \in Kinds, NEW text \in Offered \cup {None},
         NEW next \in {"Config", "Play", "wait"}, Send(s, kind, text, next)
  PROVE  /\ peer[s].there /\ MaySend(s, kind, text, next)
         /\ peer'[s].proto = next /\ peer'[s].there
         /\ \A r \in Sides : r # s => peer'[r] = peer[r]
         /\ UNCHANGED <<outbox, protocol, loop, job>>
         /\ \E x \in Packet :
              /\ x.kind = kind /\ x.text = text
              /\ x.proto = IF peer[s].proto = "Play" THEN "Play" ELSE "Config"
              /\ \A r \in Sides :
                   IF r = s /\ loop # "ended"
                   THEN Pipe(r)' = Append(Pipe(r), x) /\ Under(r)' = Under(r) \cup {x}
                   ELSE Pipe(r)' = Pipe(r) /\ Under(r)' = Under(r)
<1>1. peer[s] \in Peer
  BY DEF TypeOK
<1>2. PICK x \in Packet :
        /\ x = [kind |-> kind, text |-> text,
                proto |-> IF peer[s].proto = "Play" THEN "Play" ELSE "Config",
                n |-> peer[s].sent + 1]
        /\ x.kind = kind /\ x.text = text
        /\ x.proto = IF peer[s].proto = "Play" THEN "Play" ELSE "Config"
  <2> DEFINE q == [kind |-> kind, text |-> text,
                   proto |-> IF peer[s].proto = "Play" THEN "Play" ELSE "Config",
                   n |-> peer[s].sent + 1]
  <2>1. q \in Packet
    BY <1>1 DEF Packet, Peer, Protocols
  <2> QED
    BY <2>1
<1>3. /\ inbox' = [inbox EXCEPT ![s] = IF loop = "ended" THEN @ ELSE Append(@, x)]
      /\ UNCHANGED <<hand, chan, job>>
  BY <1>2 DEF Send
<1>4. \A r \in Sides :
        IF r = s /\ loop # "ended"
        THEN Pipe(r)' = Append(Pipe(r), x) /\ Under(r)' = Under(r) \cup {x}
        ELSE Pipe(r)' = Pipe(r) /\ Under(r)' = Under(r)
  BY <1>3, Grows
<1>5. /\ peer'[s].proto = next /\ peer'[s].there = peer[s].there
      /\ \A r \in Sides : r # s => peer'[r] = peer[r]
  BY <1>1 DEF Send, TypeOK, Peer
<1>6. /\ peer[s].there /\ MaySend(s, kind, text, next)
      /\ UNCHANGED <<outbox, protocol, loop, job>>
  BY DEF Send
<1> QED
  BY <1>2, <1>4, <1>5, <1>6

\* A side sends what comes after all it has sent, and goes from one protocol to the other
\* with the end of the configuration only.
LEMMA SendKeeps ==
  ASSUME ProtocolInv, NEW s \in Sides, NEW kind \in Kinds, NEW text \in Offered \cup {None},
         NEW next \in {"Config", "Play", "wait"}, Send(s, kind, text, next)
  PROVE  Ordered'
<1>0. TypeOK /\ ForwarderInv /\ "client" \in Sides /\ "backend" \in Sides
  BY DEF ProtocolInv, Ordered, ForwarderInv, Sides
<1>1. PICK x \in Packet :
        /\ x.kind = kind /\ x.text = text
        /\ x.proto = IF peer[s].proto = "Play" THEN "Play" ELSE "Config"
        /\ \A r \in Sides :
             IF r = s /\ loop # "ended"
             THEN Pipe(r)' = Append(Pipe(r), x) /\ Under(r)' = Under(r) \cup {x}
             ELSE Pipe(r)' = Pipe(r) /\ Under(r)' = Under(r)
  BY <1>0, Sends
<1>2. /\ peer[s].there /\ MaySend(s, kind, text, next)
      /\ peer'[s].proto = next /\ peer'[s].there
      /\ \A r \in Sides : r # s => peer'[r] = peer[r]
      /\ UNCHANGED <<outbox, protocol, loop, job>>
  BY <1>0, Sends
<1>3. \A r \in Sides : Ahead(r)' = Ahead(r)
  BY <1>2 DEF Ahead
\* What the side has sent before is of its protocol.
<1>4. peer[s].proto # "Play" => peer[s].proto \in {"Config", "ack"}
  BY <1>2 DEF MaySend, Protocols
<1>5. peer[s].proto # "Play" => \A y \in Path(s) : ~Late(y)
  <2>1. \A y \in Path(s) : y.kind # "eof"
    BY <1>0, <1>2, PipeKinds, PathTypes DEF ProtocolInv, Ordered, WrittenOK, Path, Ahead
  <2>2. peer[s].proto # "Play" => \A y \in Path(s) : y.kind # "finish"
    BY <1>4 DEF ProtocolInv, Ordered, Marked
  <2>3. CASE s = "client"
    BY <2>1, <2>2, <2>3 DEF ProtocolInv, Ordered, Marked, Late
  <2>4. CASE s = "backend"
    <3>1. peer["backend"].proto # "Play" => peer["backend"].proto = "Config"
      BY <1>4, <2>4 DEF ProtocolInv, Ordered, Marked
    <3>2. protocol = "Play" => peer["backend"].proto # "Config"
      BY DEF ProtocolInv, Ordered, ForwarderTold, ClientTold
    <3> QED
      BY <2>1, <2>2, <2>4, <3>1, <3>2 DEF ProtocolInv, Ordered, Marked, Late
  <2> QED
    BY <2>3, <2>4 DEF Sides
<1>6. \A y \in Path(s) : Before(y, x)
  BY <1>1, <1>5 DEF Before
<1>7. /\ PathsInOrder'
      /\ \A r \in Sides :
           Path(r)' = IF r = s /\ loop # "ended" THEN Path(r) \cup {x} ELSE Path(r)
  <2>1. \A r \in Sides :
          Ahead(r) \in Packets /\ Pipe(r) \in Packets /\ Follows(Ahead(r), Pipe(r))
    BY <1>0, PathTypes DEF ProtocolInv, Ordered, PathsInOrder
  <2>2. /\ Follows(Ahead(s), Append(Pipe(s), x))
        /\ Elems(Append(Pipe(s), x)) = Elems(Pipe(s)) \cup {x}
    BY <1>6, <2>1, FollowsSend DEF Path
  <2>3. PathsInOrder'
    BY <1>1, <1>3, <2>1, <2>2 DEF PathsInOrder
  <2> QED
    BY <1>1, <1>3, <2>2, <2>3 DEF Path
<1>8. x.kind = "finish" => x.proto = "Config" /\ peer'[s].proto \notin {"Config", "ack"}
  BY <1>1, <1>2 DEF MaySend
<1>9. /\ peer[s].proto = "Play" => peer'[s].proto = "Play"
      /\ peer[s].proto # "Config" => peer'[s].proto # "Config"
      /\ peer'[s].proto # "ack"
      /\ peer'[s].proto = "Play" /\ peer[s].proto # "Play" => s = "client" /\ x.kind = "finish"
      /\ peer'[s].proto # "Config" /\ peer[s].proto = "Config" => s = "backend"
      /\ peer'[s].proto = "wait" => s = "backend"
  BY <1>1, <1>2 DEF MaySend, Protocols
<1>10. Marked'
  <2>1. peer'["client"].proto # "wait" /\ peer'["backend"].proto # "ack"
    BY <1>2, <1>9 DEF ProtocolInv, Ordered, Marked, Sides
  <2>2. \A r \in Sides : \A p \in Path(r)' :
          p.kind = "finish" => p.proto = "Config" /\ peer'[r].proto \notin {"Config", "ack"}
    BY <1>2, <1>7, <1>8, <1>9 DEF ProtocolInv, Ordered, Marked
  <2>3. \A p \in Path("client")' :
          /\ p.proto = "Play" /\ p.kind # "eof" => peer'["client"].proto = "Play"
          /\ p.kind = "command" => p.proto = "Play" /\ p.text \in Offered
    <3>1. CASE s = "client"
      <4>1. x.proto = "Play" => peer'["client"].proto = "Play"
        BY <1>1, <1>9, <3>1
      <4>2. x.kind = "command" => x.proto = "Play" /\ x.text \in Offered
        BY <1>1, <1>2 DEF MaySend
      <4> QED
        BY <1>0, <1>7, <1>9, <3>1, <4>1, <4>2 DEF ProtocolInv, Ordered, Marked
    <3>2. CASE s # "client"
      BY <1>0, <1>2, <1>7, <3>2 DEF ProtocolInv, Ordered, Marked
    <3> QED
      BY <3>1, <3>2
  <2>4. \A p \in Path("backend")' :
          p.proto = "Play" /\ p.kind \notin {"eof", "broadcast"} => protocol' = "Play"
    <3>1. s = "backend" /\ x.proto = "Play" => protocol = "Play"
      BY <1>0, <1>1 DEF ForwarderInv, BackendLater
    <3> QED
      BY <1>0, <1>2, <1>7, <3>1 DEF ProtocolInv, Ordered, Marked
  <2> QED
    BY <2>1, <2>2, <2>3, <2>4 DEF Marked
<1>11. ClientTold'
  <2>1. peer'["client"].proto # "Config" => peer["client"].proto # "Config"
    BY <1>0, <1>2, <1>9
  <2>2. peer["backend"].proto # "Config" => peer'["backend"].proto # "Config"
    BY <1>0, <1>2, <1>9
  <2>3. s = "backend" /\ peer["backend"].proto # "Config" => x.proto = "Play"
    BY <1>1, <1>2, <1>4 DEF ProtocolInv, Ordered, Marked
  <2> QED
    BY <1>0, <1>7, <2>1, <2>2, <2>3 DEF ProtocolInv, Ordered, ClientTold
<1>12. ForwarderTold'
  <2>1. CASE s = "client"
    <3>1. protocol = "Play" => x.proto = "Play"
      BY <1>1, <2>1 DEF ProtocolInv, Ordered, ForwarderTold
    <3> QED
      BY <1>0, <1>1, <1>2, <1>9, <2>1, <3>1 DEF ProtocolInv, Ordered, ForwarderTold
  <2>2. CASE s # "client"
    BY <1>0, <1>1, <1>2, <2>2, ForwarderKeeps
  <2> QED
    BY <2>1, <2>2
<1>13. BackendTold'
  <2>1. peer["backend"].proto = "Play" => \A p \in Path("client")' : p.proto = "Play"
    <3>1. s = "client" /\ peer["backend"].proto = "Play" => x.proto = "Play"
      BY <1>0, <1>1 DEF ProtocolInv, Ordered, ForwarderInv, BackendLater, ForwarderTold
    <3> QED
      BY <1>0, <1>7, <3>1 DEF ProtocolInv, Ordered, BackendTold
  <2>2. peer'["backend"].proto = "Play" <=> peer["backend"].proto = "Play"
    BY <1>0, <1>2, <1>9
  <2>3. peer'["backend"].there => peer["backend"].there
    BY <1>0, <1>2
  <2> QED
    BY <1>2, <2>1, <2>2, <2>3 DEF ProtocolInv, Ordered, BackendTold, FinishAhead
<1>14. HandOK'
  BY <1>2, HandKeeps
<1>15. WrittenOK'
  BY <1>2 DEF ProtocolInv, Ordered, WrittenOK
<1> QED
  BY <1>7, <1>10, <1>11, <1>12, <1>13, <1>14, <1>15 DEF Ordered

\* A side that leaves loses what it has not read, and its stream ends.
LEMMA LeaveKeeps ==
  ASSUME ProtocolInv, NEW s \in Sides, Leave(s)
  PROVE  Ordered'
<1>0. TypeOK /\ ForwarderInv /\ "client" \in Sides /\ "backend" \in Sides
  BY DEF ProtocolInv, ForwarderInv, Sides
<1>1. Eof \in Packet /\ Eof.kind = "eof" /\ Eof.proto = "Play"
  BY EofIsPacket DEF Eof, Own
<1>2. /\ \A r \in Sides : peer'[r].proto = peer[r].proto
      /\ \A r \in Sides : peer'[r].there => peer[r].there
      /\ \A r \in Sides : outbox'[r] = IF r = s THEN <<>> ELSE outbox[r]
      /\ UNCHANGED <<protocol, loop, job>>
  <2>1. /\ peer' = [peer EXCEPT ![s].there = FALSE] /\ peer[s].there
        /\ outbox' = [outbox EXCEPT ![s] = <<>>]
        /\ UNCHANGED <<protocol, loop, job>>
    BY DEF Leave
  <2> QED
    BY <1>0, <2>1 DEF TypeOK, Peer
<1>3. \A r \in Sides :
        IF r = s /\ loop # "ended"
        THEN Pipe(r)' = Append(Pipe(r), Eof) /\ Under(r)' = Under(r) \cup {Eof}
        ELSE Pipe(r)' = Pipe(r) /\ Under(r)' = Under(r)
  <2>1. /\ inbox' = [inbox EXCEPT ![s] = IF loop = "ended" THEN @ ELSE Append(@, Eof)]
        /\ UNCHANGED <<hand, chan, job>>
    BY DEF Leave
  <2> QED
    BY <1>0, <1>1, <2>1, Grows
<1>4. \A r \in Sides : Ahead(r)' = Ahead(r) \/ Ahead(r)' = <<>>
  BY <1>2 DEF Ahead, Sides, Other
<1>5. Elems(<<>>) = {}
  BY DEF Elems
<1>6. /\ PathsInOrder'
      /\ \A r \in Sides : Path(r)' \subseteq Path(r) \cup {Eof}
  <2>1. \A r \in Sides :
          Ahead(r) \in Packets /\ Pipe(r) \in Packets /\ Follows(Ahead(r), Pipe(r))
    BY <1>0, PathTypes DEF ProtocolInv, Ordered, PathsInOrder
  <2>2. \A r \in Sides :
          /\ Follows(Ahead(r), Append(Pipe(r), Eof))
          /\ Elems(Append(Pipe(r), Eof)) = Elems(Pipe(r)) \cup {Eof}
          /\ Append(Pipe(r), Eof) \in Packets
    <3>1. ASSUME NEW r \in Sides
          PROVE  /\ Follows(Ahead(r), Append(Pipe(r), Eof))
                 /\ Elems(Append(Pipe(r), Eof)) = Elems(Pipe(r)) \cup {Eof}
      BY <1>1, <2>1, FollowsSend DEF Before
    <3>2. ASSUME NEW r \in Sides
          PROVE  Append(Pipe(r), Eof) \in Packets
      BY <1>1, <2>1, Appended DEF Packets
    <3> QED
      BY <3>1, <3>2
  <2>3. \A r \in Sides : Follows(Ahead(r), Pipe(r)') /\ Pipe(r)' \in Packets
    BY <1>3, <2>1, <2>2
  <2>4. \A r \in Sides : Lessens(Ahead(r), Ahead(r)') /\ Lessens(Pipe(r)', Pipe(r)')
    BY <1>4 DEF Lessens
  <2>5. \A r \in Sides : Follows(Ahead(r)', Pipe(r)')
    BY <2>1, <2>3, <2>4, FollowsLess
  <2>6. \A r \in Sides : Elems(Pipe(r)') \subseteq Elems(Pipe(r)) \cup {Eof}
    BY <1>3, <2>2
  <2>7. \A r \in Sides : Elems(Ahead(r)') \subseteq Elems(Ahead(r))
    BY <1>4, <1>5
  <2> QED
    BY <2>5, <2>6, <2>7 DEF PathsInOrder, Path
<1>7. Marked'
  BY <1>0, <1>1, <1>2, <1>6 DEF ProtocolInv, Ordered, Marked
<1>8. ClientTold'
  BY <1>0, <1>1, <1>2, <1>6 DEF ProtocolInv, Ordered, ClientTold
<1>9. ForwarderTold'
  <2>1. /\ Under("client") \subseteq Under("client")'
        /\ Under("client")' \subseteq Under("client") \cup {Eof}
    BY <1>0, <1>3
  <2> QED
    BY <1>0, <1>1, <1>2, <2>1 DEF ProtocolInv, Ordered, ForwarderTold
<1>10. BackendTold'
  <2>1. peer["backend"].proto = "Play" => \A p \in Path("client")' : p.proto = "Play"
    BY <1>0, <1>1, <1>6 DEF ProtocolInv, Ordered, BackendTold
  <2>2. CASE s = "backend"
    <3>1. ~peer'["backend"].there
      BY <1>0, <2>2 DEF Leave, TypeOK, Peer
    <3>2. outbox'["backend"] = <<>>
      BY <1>0, <1>2, <2>2
    <3> QED
      BY <1>0, <1>2, <1>5, <2>1, <3>1, <3>2 DEF BackendTold
  <2>3. CASE s # "backend"
    BY <1>0, <1>2, <2>1, <2>3, BackendKeeps
  <2> QED
    BY <2>2, <2>3
<1>11. HandOK'
  BY <1>2, HandKeeps
<1>12. WrittenOK'
  BY <1>0, <1>2, <1>5 DEF ProtocolInv, Ordered, WrittenOK
<1> QED
  BY <1>6, <1>7, <1>8, <1>9, <1>10, <1>11, <1>12 DEF Ordered

\* What a side reads next is in the protocol it decodes, or a broadcast.
LEMMA ReadableNext ==
  ASSUME ProtocolInv, NEW s \in Sides, outbox[s] # <<>>
  PROVE  Head(outbox[s]).proto = Decodes(s) \/ Head(outbox[s]).kind = "broadcast"
<1>0. TypeOK /\ "client" \in Sides /\ "backend" \in Sides
  BY DEF ProtocolInv, ForwarderInv, Sides
<1>1. /\ Elems(outbox[s]) = {Head(outbox[s])} \cup Elems(Tail(outbox[s]))
      /\ Head(outbox[s]) \in Packet
  BY <1>0, PathTypes, ElemsHead
<1>2. PICK p \in Packet : p = Head(outbox[s])
  BY <1>1
<1>3. p.proto \in {"Config", "Play"} /\ p.kind # "eof" /\ p \in Elems(outbox[s])
  BY <1>1, <1>2 DEF ProtocolInv, Ordered, WrittenOK, Packet, Protocols
<1>4. CASE s = "client"
  <2>1. p \in Path("backend")
    BY <1>3, <1>4 DEF Path, Ahead, Other
  <2>2. p.proto = "Config" => peer["client"].proto = "Config"
    BY <2>1 DEF ProtocolInv, Ordered, ClientTold
  <2>3. p.proto = "Play" /\ p.kind # "broadcast" => peer["client"].proto = "Play"
    BY <1>3, <2>1 DEF ProtocolInv, Ordered, Marked, ForwarderTold
  <2> QED
    BY <1>2, <1>3, <1>4, <2>2, <2>3 DEF Decodes
<1>5. CASE s = "backend"
  <2>1. p \in Path("client")
    BY <1>3, <1>5 DEF Path, Ahead, Other
  <2>2. p.proto = "Config" => peer["backend"].proto # "Play"
    BY <2>1 DEF ProtocolInv, Ordered, BackendTold
  <2>3. p.proto = "Play" => peer["backend"].proto = "Play" \/ p.kind = "broadcast"
    <3>1. SUFFICES ASSUME p.proto = "Play", p.kind # "broadcast", FinishAhead
                   PROVE  FALSE
      BY <1>3, <1>5 DEF ProtocolInv, Ordered, BackendTold
    <3>2. PICK x \in Elems(outbox["backend"]) : x.kind = "finish"
      BY <3>1 DEF FinishAhead
    <3>3. x.proto = "Config"
      BY <1>0, <3>2 DEF ProtocolInv, Ordered, Marked, Path, Ahead, Other
    <3>4. x \in Elems(Tail(outbox["backend"]))
      BY <1>1, <1>2, <1>5, <3>1, <3>2, <3>3
    <3>5. Before(p, x)
      <4>1. InOrder(outbox["backend"])
        BY <1>0 DEF ProtocolInv, Ordered, PathsInOrder, Follows, Ahead, Other
      <4> QED
        BY <1>0, <1>2, <1>5, <3>4, <4>1, PathTypes, FirstInOrder
    <3> QED
      BY <3>1, <3>3, <3>5 DEF Before, Late
  <2>4. peer["backend"].proto \in {"Config", "Play", "wait"}
    BY <1>0, PathTypes DEF ProtocolInv, Ordered, Marked, Peer, Protocols
  <2> QED
    BY <1>2, <1>3, <1>5, <2>2, <2>3, <2>4 DEF Decodes
<1> QED
  BY <1>4, <1>5 DEF Sides

\* A side that reads the end of the configuration has read all that came before it, and
\* all that comes after it belongs to Play.
LEMMA ReceiveKeeps ==
  ASSUME ProtocolInv, NEW s \in Sides, Receive(s)
  PROVE  Ordered'
<1>0. TypeOK /\ ForwarderInv /\ "client" \in Sides /\ "backend" \in Sides
  BY DEF ProtocolInv, ForwarderInv, Sides
<1> DEFINE p == Head(outbox[s])
<1>1. CASE Leave(s)
  BY <1>1, LeaveKeeps
<1>2. CASE ~Leave(s)
  <2>1. /\ outbox[s] # <<>> /\ p.proto = Decodes(s)
        /\ outbox' = [outbox EXCEPT ![s] = Tail(outbox[s])]
        /\ peer' = [peer EXCEPT ![s] = [peer[s] EXCEPT !.proto =
              IF p.kind # "finish" THEN peer[s].proto
              ELSE IF s = "client" THEN "ack" ELSE "Play"]]
        /\ UNCHANGED <<inbox, hand, chan, loop, job, protocol>>
    BY <1>2 DEF Receive
  <2>2. /\ \A r \in Sides : outbox'[r] = IF r = s THEN Tail(outbox[s]) ELSE outbox[r]
        /\ \A r \in Sides : r # s => peer'[r] = peer[r]
        /\ peer'[s].there = peer[s].there
        /\ peer'[s].proto = IF p.kind # "finish" THEN peer[s].proto
                            ELSE IF s = "client" THEN "ack" ELSE "Play"
    BY <1>0, <2>1 DEF TypeOK, Peer
  <2>3. \A r \in Sides : Pipe(r)' = Pipe(r) /\ Under(r)' = Under(r)
    BY <2>1 DEF Pipe, Held, Under
  <2>4. Elems(outbox[s]) = {p} \cup Elems(Tail(outbox[s])) /\ p \in Packet
    BY <1>0, <2>1, PathTypes, ElemsHead
  <2>5. \A r \in Sides : Lessens(Ahead(r), Ahead(r)') /\ Lessens(Pipe(r), Pipe(r)')
    BY <2>1, <2>2, <2>3, PathTypes DEF Lessens, Ahead
  <2>6. /\ PathsInOrder' /\ WrittenOK'
        /\ \A r \in Sides : Path(r)' \subseteq Path(r)
    BY <2>5, PathsLessen
  <2>7. HandOK'
    BY <2>1, HandKeeps
  <2>8. CASE p.kind # "finish"
    <3>1. \A r \in Sides : peer'[r].proto = peer[r].proto /\ peer'[r].there = peer[r].there
      BY <2>2, <2>8
    <3>2. Marked' /\ ClientTold'
      BY <2>1, <2>5, <3>1, FewerKeeps
    <3>3. ForwarderTold'
      BY <1>0, <2>1, <2>3, <3>1, ForwarderKeeps
    <3>4. FinishAhead' <=> FinishAhead
      BY <1>0, <2>2, <2>4, <2>8 DEF FinishAhead
    <3>5. Elems(outbox'["backend"]) \subseteq Elems(outbox["backend"])
      BY <1>0, <2>2, <2>4
    <3>6. BackendTold'
      BY <1>0, <2>1, <2>6, <3>1, <3>4, <3>5 DEF ProtocolInv, Ordered, BackendTold
    <3> QED
      BY <2>6, <2>7, <3>2, <3>3, <3>6 DEF Ordered
  <2>9. ASSUME p.kind = "finish", NEW r \in Sides, r = Other(s)
        PROVE  /\ p \in Path(r) /\ p.proto = "Config" /\ peer[r].proto \notin {"Config", "ack"}
               /\ \A y \in Path(r)' : y.proto = "Play"
    <3>1. Ahead(r) = outbox[s] /\ Ahead(r)' = Tail(outbox[s]) /\ Pipe(r)' = Pipe(r)
      BY <2>2, <2>3, <2>9 DEF Ahead, Other, Sides
    <3>2. p \in Path(r)
      BY <2>4, <3>1 DEF Path
    <3>3. p.proto = "Config" /\ peer[r].proto \notin {"Config", "ack"}
      BY <2>9, <3>2 DEF ProtocolInv, Ordered, Marked
    <3>4. Follows(outbox[s], Pipe(r)) /\ outbox[s] \in Packets
      BY <1>0, <3>1, PathTypes DEF ProtocolInv, Ordered, PathsInOrder
    <3>5. \A y \in Elems(Tail(outbox[s])) : Before(p, y)
      BY <2>1, <3>4, FirstInOrder DEF Follows
    <3>6. \A y \in Elems(Pipe(r)) : Before(p, y)
      BY <2>4, <3>4 DEF Follows
    <3> QED
      BY <2>9, <3>1, <3>2, <3>3, <3>5, <3>6 DEF Path, Before, Late
  <2>10. CASE p.kind = "finish" /\ s = "client"
    <3>1. /\ p.proto = "Config" /\ peer["backend"].proto \notin {"Config", "ack"}
          /\ \A y \in Path("backend")' : y.proto = "Play"
      BY <1>0, <2>9, <2>10 DEF Other
    <3>2. peer["client"].proto = "Config" /\ peer'["client"].proto = "ack"
      BY <2>1, <2>2, <2>10, <3>1 DEF Decodes, ProtocolInv, Ordered, Marked
    <3>3. peer'["backend"] = peer["backend"]
      BY <1>0, <2>2, <2>10
    <3>4. Marked'
      BY <1>0, <2>1, <2>6, <3>2, <3>3 DEF ProtocolInv, Ordered, Marked, Sides
    <3>5. ClientTold'
      BY <3>1, <3>3 DEF ClientTold
    <3>6. ForwarderTold'
      BY <1>0, <2>1, <2>3, <3>2, ForwarderKeeps
    <3>7. BackendTold'
      <4>1. peer["backend"].proto = "Play" => \A y \in Path("client")' : y.proto = "Play"
        BY <1>0, <2>6 DEF ProtocolInv, Ordered, BackendTold
      <4> QED
        BY <1>0, <2>1, <2>2, <2>10, <3>3, <4>1, BackendKeeps
    <3> QED
      BY <2>6, <2>7, <3>4, <3>5, <3>6, <3>7 DEF Ordered
  <2>11. CASE p.kind = "finish" /\ s = "backend"
    <3>1. \A y \in Path("client")' : y.proto = "Play"
      BY <1>0, <2>9, <2>11 DEF Other
    <3>2. peer'["backend"].proto = "Play" /\ peer'["client"] = peer["client"]
      BY <1>0, <2>2, <2>11
    <3>3. Marked'
      BY <1>0, <2>1, <2>6, <3>2 DEF ProtocolInv, Ordered, Marked, Sides
    <3>4. ClientTold'
      BY <1>0, <2>6, <3>2 DEF ProtocolInv, Ordered, ClientTold
    <3>5. ForwarderTold'
      BY <1>0, <2>1, <2>3, <3>2, ForwarderKeeps
    <3>6. BackendTold'
      BY <3>1, <3>2 DEF BackendTold
    <3> QED
      BY <2>6, <2>7, <3>3, <3>4, <3>5, <3>6 DEF Ordered
  <2> QED
    BY <2>8, <2>10, <2>11 DEF Sides
<1> QED
  BY <1>1, <1>2

-----------------------------------------------------------------------------
(* What the forwarder does *)

\* Nothing is written, and no packet in hand changes.
LEMMA QuietKeeps ==
  ASSUME ProtocolInv, UNCHANGED <<outbox, loop, job, protocol, peer>>,
         \A r \in Sides : Pipe(r)' = Pipe(r) /\ Under(r)' = Under(r)
  PROVE  Ordered'
<1>1. "client" \in Sides /\ "backend" \in Sides
  BY DEF Sides
<1>2. /\ PathsInOrder' /\ Marked' /\ ClientTold' /\ WrittenOK'
      /\ \A s \in Sides : Path(s)' \subseteq Path(s)
  <2>1. \A s \in Sides : Lessens(Ahead(s), Ahead(s)') /\ Lessens(Pipe(s), Pipe(s)')
    BY DEF Lessens, Ahead
  <2> QED
    BY <2>1, FewerKeeps
<1>3. ForwarderTold'
  BY <1>1, ForwarderKeeps
<1>4. BackendTold'
  BY <1>1, <1>2, BackendKeeps DEF ProtocolInv, Ordered, BackendTold
<1>5. HandOK'
  BY HandKeeps
<1> QED
  BY <1>2, <1>3, <1>4, <1>5 DEF Ordered

\* The forwarder learns of the end with the client's packet, before all that comes after it.
LEMMA TakenKeeps ==
  ASSUME ProtocolInv, NEW s \in Sides, NEW stage, Take(s, stage),
         UNCHANGED <<inbox, hand, outbox, loop, peer>>,
         \A r \in Sides : Lessens(Pipe(r), Pipe(r)'),
         protocol' = IF s = "client" /\ stage = "select" /\ Head(chan[s]).kind = "finish"
                     THEN "Play" ELSE protocol,
         stage \in {"select", "drain"}
  PROVE  /\ PathsInOrder' /\ Marked' /\ ClientTold' /\ WrittenOK' /\ ForwarderTold'
         /\ \A r \in Sides : Path(r)' \subseteq Path(r)
<1>0. TypeOK /\ ForwarderInv /\ "client" \in Sides /\ "backend" \in Sides
  BY DEF ProtocolInv, ForwarderInv, Sides
<1>1. PICK p \in Packet : p = Head(chan[s])
  BY <1>0, TakesFirst
<1>2. /\ loop = stage /\ Pipe(s) # <<>> /\ Head(Pipe(s)) = p
      /\ Under(s) = Under(s)' \cup {p} /\ Elems(Tail(Pipe(s))) = Under(s)'
      /\ \A r \in Sides : r # s => Under(r)' = Under(r)
      /\ Elems(Pipe(s)) = Under(s)
  BY <1>0, <1>1, TakesFirst
<1>3. /\ PathsInOrder' /\ Marked' /\ ClientTold' /\ WrittenOK'
      /\ \A r \in Sides : Path(r)' \subseteq Path(r)
  <2>1. \A r \in Sides : Lessens(Ahead(r), Ahead(r)')
    BY DEF Lessens, Ahead
  <2> QED
    BY <2>1, FewerKeeps
<1>4. ForwarderTold'
  <2>1. CASE s # "client"
    BY <1>0, <1>2, <2>1, ForwarderKeeps
  <2>2. CASE s = "client" /\ ~(stage = "select" /\ p.kind = "finish")
    <3>1. protocol' = protocol /\ (stage = "drain" => protocol = "Play")
      BY <1>1, <1>2, <2>2 DEF ProtocolInv, Ordered, ForwarderTold
    <3> QED
      BY <1>2, <2>2, <3>1 DEF ProtocolInv, Ordered, ForwarderTold
  <2>3. CASE s = "client" /\ stage = "select" /\ p.kind = "finish"
    <3>1. protocol' = "Play"
      BY <1>1, <2>3
    <3>2. p \in Path("client")
      BY <1>2, <2>3 DEF Path
    <3>3. peer["client"].proto = "Play"
      BY <1>0, <2>3, <3>2, PathTypes DEF ProtocolInv, Ordered, Marked, Peer, Protocols
    <3>4. \A y \in Under("client")' : Before(p, y)
      <4>1. InOrder(Pipe(s)) /\ Pipe(s) \in Packets
        BY <1>0, PathTypes DEF ProtocolInv, Ordered, PathsInOrder, Follows
      <4> QED
        BY <1>2, <2>3, <4>1, FirstInOrder
    <3> QED
      BY <2>3, <3>1, <3>3, <3>4 DEF ForwarderTold, Before, Late
  <2> QED
    BY <2>1, <2>2, <2>3
<1> QED
  BY <1>3, <1>4

\* What belongs to Play is never ahead of the end of the configuration.
LEMMA PlayIsKnown ==
  ASSUME ProtocolInv, loop # "ended", NEW s \in Sides, Pipe(s) # <<>>,
         Head(Pipe(s)).proto = "Play", Head(Pipe(s)).kind # "eof"
  PROVE  protocol = "Play"
<1>0. TypeOK /\ ForwarderInv /\ "client" \in Sides /\ "backend" \in Sides
  BY DEF ProtocolInv, ForwarderInv, Sides
<1>1. Elems(Pipe(s)) = {Head(Pipe(s))} \cup Elems(Tail(Pipe(s)))
  BY <1>0, PathTypes, ElemsHead
<1>2. PICK p : p = Head(Pipe(s))
  OBVIOUS
<1>3. p \in Path(s) /\ p.kind # "broadcast" /\ Late(p)
  BY <1>0, <1>1, <1>2, PipeKinds DEF Path, Late
<1>4. CASE s = "backend"
  BY <1>2, <1>3, <1>4 DEF ProtocolInv, Ordered, Marked
<1>5. CASE s = "client"
  <2>1. SUFFICES ASSUME protocol = "Config"
                 PROVE  FALSE
    BY <1>0 DEF TypeOK, Protocols
  <2>2. peer["client"].proto = "Play"
    BY <1>2, <1>3, <1>5 DEF ProtocolInv, Ordered, Marked
  <2>3. PICK x \in Under("client") : x.kind = "finish"
    BY <2>1, <2>2 DEF ProtocolInv, Ordered, ForwarderTold
  <2>4. x \in Elems(Pipe(s)) /\ x \in Path(s)
    BY <1>0, <1>5, ElemsPipe DEF Path
  <2>5. x.proto = "Config"
    BY <2>3, <2>4 DEF ProtocolInv, Ordered, Marked
  <2>6. x \in Elems(Tail(Pipe(s)))
    BY <1>1, <2>4, <2>5
  <2>7. InOrder(Pipe(s)) /\ Pipe(s) \in Packets
    BY <1>0, PathTypes DEF ProtocolInv, Ordered, PathsInOrder, Follows
  <2>8. Before(p, x)
    BY <1>2, <2>6, <2>7, FirstInOrder
  <2> QED
    BY <1>3, <2>5, <2>8 DEF Before
<1> QED
  BY <1>4, <1>5 DEF Sides

\* No command that the proxy offers is passed on.
LEMMA OfferedIsServed == \A c \in Offered : Meaning(c) # "forward"
<1>1. /\ Nodes[0].children = {1, 3, 5}
      /\ Nodes[1].children = {2} /\ Nodes[3].children = {4} /\ Nodes[5].children = {6}
      /\ Nodes[1].executable /\ ~Nodes[3].executable /\ ~Nodes[5].executable
      /\ Nodes[1].name = "server" /\ Nodes[3].name = "start" /\ Nodes[5].name = "status"
  BY DEF Nodes, Node
<1>2. PICK first : first = {1, 3, 5}
  OBVIOUS
<1>3. \A c \in {<<Nodes[i].name>> : i \in {j \in first : Nodes[j].executable}} :
        c = <<"server">>
  BY <1>1, <1>2
<1>4. ASSUME NEW i \in first, NEW k \in {j \in Nodes[i].children : Nodes[j].executable}
      PROVE  Meaning(<<Nodes[i].name, Nodes[k].name>>) # "forward"
  <2>1. PICK name : name = Nodes[k].name
    OBVIOUS
  <2>2. Nodes[i].name \in {"server", "start", "status"}
    BY <1>1, <1>2
  <2>3. /\ Len(<<Nodes[i].name, name>>) = 2
        /\ <<Nodes[i].name, name>>[1] = Nodes[i].name
    OBVIOUS
  <2> QED
    BY <2>1, <2>2, <2>3 DEF Meaning
<1>5. Meaning(<<"server">>) = "list"
  BY DEF Meaning
<1> QED
  BY <1>1, <1>2, <1>3, <1>4, <1>5 DEF Offered

\* A packet is taken in hand, and the forwarder knows of the end no later than it has it.
LEMMA BackendStarts ==
  ASSUME ProtocolInv, job = <<>>, UNCHANGED <<outbox, peer>>, loop' = loop,
         Path("client")' \subseteq Path("client"),
         \/ protocol' = protocol
         \/ job' # <<>> /\ job'[1].to = "backend" /\ job'[1].out.kind = "finish"
  PROVE  BackendTold'
  BY DEF ProtocolInv, Ordered, BackendTold, FinishAhead

\* The packet in hand is done with, and nothing is written.
LEMMA LostKeeps ==
  ASSUME ProtocolInv, job # <<>>, job' = <<>>,
         UNCHANGED <<inbox, hand, chan, outbox, protocol, peer>>,
         loop' = loop \/ (loop # "ended" /\ protocol = "Play"),
         job[1].to = "backend" => ~peer["backend"].there
  PROVE  Ordered'
<1>0. TypeOK /\ ForwarderInv /\ "client" \in Sides /\ "backend" \in Sides /\ loop # "ended"
  BY DEF ProtocolInv, ForwarderInv, Sides, JobOK
<1>1. \A s \in Sides : Lessens(Ahead(s), Ahead(s)') /\ Lessens(Pipe(s), Pipe(s)')
  BY <1>0, DoneFirst DEF Lessens, Ahead, Streams
<1>2. /\ PathsInOrder' /\ Marked' /\ ClientTold' /\ WrittenOK'
      /\ \A s \in Sides : Path(s)' \subseteq Path(s)
  BY <1>1, FewerKeeps
<1>3. Under("client")' = Under("client")
  BY DEF Under
<1>4. ForwarderTold'
  BY <1>3, ForwarderKeeps
<1>5. BackendTold'
  BY <1>0, <1>2 DEF ProtocolInv, Ordered, BackendTold, FinishAhead
<1>6. HandOK'
  BY DEF HandOK
<1> QED
  BY <1>2, <1>4, <1>5, <1>6 DEF Ordered

\* The forwarder takes a packet of the backend, or a command, or ignores the packet.
LEMMA TakeSteps ==
  ASSUME ProtocolInv,
         TakeBackendPacket \/ TakeClientPacket \/ TakeCommand \/ DrainBackend \/ DrainClient
  PROVE  Ordered'
<1>0. TypeOK /\ ForwarderInv /\ "client" \in Sides /\ "backend" \in Sides
  BY DEF ProtocolInv, ForwarderInv, Sides
<1>1. ASSUME NEW s \in Sides, NEW stage \in {"select", "drain"}, Take(s, stage),
             UNCHANGED <<inbox, hand, outbox, loop, peer>>,
             protocol' = IF s = "client" /\ stage = "select" /\ Head(chan[s]).kind = "finish"
                         THEN "Play" ELSE protocol,
             \/ job' # <<>> /\ job'[1].of = s /\ job'[1].packet = Head(chan[s])
             \/ UNCHANGED job,
             \/ protocol' = protocol
             \/ job' # <<>> /\ job'[1].to = "backend" /\ job'[1].out.kind = "finish",
             HandOK'
      PROVE  Ordered'
  <2>1. job = <<>>
    BY <1>1 DEF Take
  <2>2. \A r \in Sides : Lessens(Pipe(r), Pipe(r)')
    <3>1. CASE job' # <<>> /\ job'[1].of = s /\ job'[1].packet = Head(chan[s])
      <4>1. Streams' = Streams
        BY <1>0, <1>1, <3>1, TakeKeeps
      <4> QED
        BY <4>1 DEF Streams, Lessens
    <3>2. CASE UNCHANGED job
      <4>1. Streams[s] # <<>> /\ Streams' = [Streams EXCEPT ![s] = Tail(Streams[s])]
        BY <1>0, <1>1, <3>2, DropsFirst
      <4> QED
        BY <4>1 DEF Streams, Lessens
    <3> QED
      BY <1>1, <3>1, <3>2
  <2>3. /\ PathsInOrder' /\ Marked' /\ ClientTold' /\ WrittenOK' /\ ForwarderTold'
        /\ \A r \in Sides : Path(r)' \subseteq Path(r)
    BY <1>1, <2>2, TakenKeeps
  <2>4. BackendTold'
    BY <1>0, <1>1, <2>1, <2>3, BackendStarts
  <2> QED
    BY <1>1, <2>3, <2>4 DEF Ordered
<1>2. CASE TakeBackendPacket
  <2> DEFINE p == Head(chan["backend"])
  <2>1. /\ Take("backend", "select") /\ UNCHANGED <<inbox, hand, outbox, loop, peer, protocol>>
        /\ \E out : Start("backend", p, "client", out)
    BY <1>2 DEF TakeBackendPacket
  <2>2. job' # <<>> /\ job'[1].of = "backend" /\ job'[1].packet = p
    BY <2>1, Started
  <2>3. HandOK'
    BY <2>2 DEF HandOK
  <2> QED
    BY <1>0, <1>1, <2>1, <2>2, <2>3
<1>3. CASE TakeClientPacket
  <2> DEFINE p == Head(chan["client"])
  <2>1. /\ Take("client", "select") /\ UNCHANGED <<inbox, hand, outbox, loop, peer>>
        /\ protocol' = IF p.kind = "finish" THEN "Play" ELSE protocol
        /\ protocol = "Config" \/ p.kind # "command" \/ Meaning(p.text) = "forward"
        /\ Start("client", p, "backend", p) /\ p.kind # "eof"
    BY <1>3 DEF TakeClientPacket
  <2>2. /\ job' # <<>> /\ job'[1].of = "client" /\ job'[1].packet = p
        /\ job'[1].to = "backend" /\ job'[1].out = p
    BY <2>1, Started
  <2>3. p.kind # "command"
    <3>1. /\ loop = "select" /\ Pipe("client") # <<>> /\ Head(Pipe("client")) = p
          /\ p \in Path("client")
      <4>1. /\ loop = "select" /\ Pipe("client") # <<>> /\ Head(Pipe("client")) = p
            /\ Under("client") = Under("client")' \cup {p}
            /\ Elems(Pipe("client")) = Under("client")
        BY <1>0, <2>1, TakesFirst
      <4> QED
        BY <4>1 DEF Path
    <3>2. p.kind = "command" => p.proto = "Play" /\ p.text \in Offered
      BY <3>1 DEF ProtocolInv, Ordered, Marked
    <3>3. p.proto = "Play" => protocol = "Play"
      BY <1>0, <2>1, <3>1, PlayIsKnown
    <3> QED
      BY <2>1, <3>2, <3>3, OfferedIsServed
  <2>4. HandOK'
    BY <2>2, <2>3 DEF HandOK
  <2> HIDE DEF p
  <2>5. \/ protocol' = protocol
        \/ job' # <<>> /\ job'[1].to = "backend" /\ job'[1].out.kind = "finish"
    BY <2>1, <2>2
  <2> QED
    BY <1>0, <1>1, <2>1, <2>2, <2>4, <2>5 DEF p
<1>4. CASE TakeCommand
  <2> DEFINE p == Head(chan["client"])
  <2>1. /\ Take("client", "select") /\ UNCHANGED <<inbox, hand, outbox, loop, peer, protocol>>
        /\ protocol = "Play" /\ p.kind = "command"
        /\ Start("client", p, "client", Own("reply")) \/ Start("client", p, "proxy", p)
    BY <1>4 DEF TakeCommand
  <2>2. /\ job' # <<>> /\ job'[1].of = "client" /\ job'[1].packet = p
        /\ \/ job'[1].to = "client" /\ job'[1].out = Own("reply")
           \/ job'[1].to = "proxy"
    BY <2>1, Started
  <2> HIDE DEF p
  <2>3. HandOK'
    BY <2>1, <2>2 DEF HandOK, Own
  <2> QED
    BY <1>0, <1>1, <2>1, <2>2, <2>3 DEF p
<1>5. CASE DrainBackend
  <2> DEFINE p == Head(chan["backend"])
  <2>1. /\ Take("backend", "drain") /\ UNCHANGED <<inbox, hand, outbox, loop, peer, protocol>>
        /\ UNCHANGED job \/ Start("backend", p, "client", p)
    BY <1>5 DEF DrainBackend
  <2>2. UNCHANGED job \/ (job' # <<>> /\ job'[1].of = "backend" /\ job'[1].packet = p)
    BY <2>1, Started
  <2>3. HandOK'
    BY <2>1, <2>2, HandKeeps DEF HandOK
  <2> QED
    BY <1>0, <1>1, <2>1, <2>2, <2>3
<1>6. CASE DrainClient
  <2>1. /\ Take("client", "drain")
        /\ UNCHANGED <<inbox, hand, outbox, loop, peer, protocol, job>>
    BY <1>6 DEF DrainClient
  <2>2. HandOK'
    BY <2>1, HandKeeps
  <2> QED
    BY <1>0, <1>1, <2>1, <2>2
<1> QED
  BY <1>2, <1>3, <1>4, <1>5, <1>6

\* What is written to a side comes after what has been written to it before, and before
\* what is still to come from the other side.
LEMMA OutFits ==
  ASSUME ProtocolInv, job # <<>>, NEW s \in Sides, job[1].to = Other(s),
         NEW out \in Packet, out = job[1].out, \A r \in Sides : Lessens(Pipe(r), Pipe(r)'),
         job[1].of = s => Pipe(s)' = Tail(Pipe(s))
  PROVE  /\ out.kind # "eof" /\ (s = "client" => out.kind # "command")
         /\ \A y \in Elems(Ahead(s)) : Before(y, out)
         /\ \A y \in Elems(Pipe(s)') : Before(out, y)
         /\ out.kind = "finish" =>
              out.proto = "Config" /\ peer[s].proto \notin {"Config", "ack"}
         /\ s = "client" /\ out.proto = "Play" =>
              protocol = "Play" /\ peer["client"].proto = "Play"
         /\ s = "client" /\ peer["backend"].proto = "Play" => out.proto = "Play"
         /\ s = "backend" /\ out.proto = "Play" /\ out.kind # "broadcast" => protocol = "Play"
         /\ s = "backend" /\ peer["client"].proto # "Config" => out.proto = "Play"
         /\ out.kind = "transfer" => protocol = "Play"
<1>0. TypeOK /\ ForwarderInv /\ "client" \in Sides /\ "backend" \in Sides
  BY DEF ProtocolInv, ForwarderInv, Sides
<1>1. /\ job[1].of \in {"client", "backend", "ring"} /\ JobOf(job[1]) /\ loop # "ended"
      /\ (s = "client" /\ job[1].to = "backend") \/ (s = "backend" /\ job[1].to = "client")
  <2>1. job[1] \in Job
    BY <1>0, HeadTail DEF TypeOK
  <2> QED
    BY <1>0, <2>1 DEF ForwarderInv, JobOK, Job, Sides, Other
<1>2. /\ Ahead(s) \in Packets /\ Pipe(s) \in Packets /\ Follows(Ahead(s), Pipe(s))
      /\ peer["client"].proto \in {"Config", "Play", "ack", "wait"}
  BY <1>0, PathTypes DEF ProtocolInv, Ordered, PathsInOrder, Peer, Protocols
<1>3. Elems(Pipe(s)') \subseteq Elems(Pipe(s))
  BY <1>2, LessInOrder DEF Follows
<1>4. CASE job[1].of = s
  <2>1. PICK p : p = job[1].packet
    OBVIOUS
  <2>2. Pipe(s) # <<>> /\ Head(Pipe(s)) = p /\ p \in Elems(Pipe(s))
    <3>1. Pipe(s) # <<>> /\ Head(Pipe(s)) = p
      BY <1>0, <1>4, <2>1, InHand
    <3> QED
      BY <1>2, <3>1, ElemsHead
  <2>3. /\ out.proto = p.proto
        /\ out.kind = p.kind \/ (s = "backend" /\ out.kind = "tree" /\ p.kind = "commands")
        /\ p.kind \in {"data", "finish", "command", "commands"}
        /\ p.kind = "command" => s = "backend"
    <3>1. CASE s = "client"
      BY <1>1, <1>4, <2>1, <3>1 DEF JobOf, ProtocolInv, Ordered, HandOK
    <3>2. CASE s = "backend"
      <4>1. p.kind \in {"data", "finish", "command", "commands"}
        BY <1>1, <1>4, <2>1, <3>2 DEF JobOf
      <4>2. out = p \/ (p.kind = "commands" /\ out = [p EXCEPT !.kind = "tree"])
        BY <1>1, <1>4, <2>1, <3>2 DEF JobOf
      <4>3. p \in Packet
        BY <1>2, <2>2, ElemsHead
      <4>4. /\ [p EXCEPT !.kind = "tree"].proto = p.proto
            /\ [p EXCEPT !.kind = "tree"].kind = "tree"
        BY <4>3 DEF Packet
      <4> QED
        BY <3>2, <4>1, <4>2, <4>4
    <3> QED
      BY <1>1, <3>1, <3>2
  <2>4. p \in Path(s) /\ p.kind \notin {"eof", "broadcast"}
    BY <2>2, <2>3 DEF Path
  <2>5. \A y \in Elems(Ahead(s)) : Before(y, out)
    BY <1>2, <2>2, <2>3 DEF Follows, Before
  <2>6. \A y \in Elems(Pipe(s)') : Before(out, y)
    <3>1. \A y \in Elems(Pipe(s)') : Before(p, y)
      BY <1>2, <1>4, <2>2, FirstInOrder DEF Follows
    <3>2. Late(out) => Late(p)
      BY <2>3 DEF Late
    <3> QED
      BY <3>1, <3>2 DEF Before
  <2>7. /\ out.kind = "finish" =>
             out.proto = "Config" /\ peer[s].proto \notin {"Config", "ack"}
        /\ s = "client" /\ out.proto = "Play" => peer["client"].proto = "Play"
        /\ s = "client" /\ peer["backend"].proto = "Play" => out.proto = "Play"
        /\ s = "backend" /\ peer["client"].proto # "Config" => out.proto = "Play"
    BY <2>3, <2>4 DEF ProtocolInv, Ordered, Marked, ClientTold, BackendTold
  <2>8. out.proto = "Play" => protocol = "Play"
    BY <1>1, <2>2, <2>3, <2>4, PlayIsKnown
  <2> QED
    BY <1>1, <2>3, <2>5, <2>6, <2>7, <2>8
<1>5. CASE job[1].of # s
  <2>1. s = "backend" /\ job[1].to = "client"
    BY <1>1, <1>5 DEF JobOf
  <2>2. CASE job[1].of = "ring"
    <3>1. out.kind = "broadcast" /\ out.proto = "Play"
      BY <1>1, <2>2 DEF JobOf, ProtocolInv, Ordered, HandOK
    <3> QED
      BY <2>1, <3>1 DEF Before, Late
  <2>3. CASE job[1].of = "client"
    <3>1. out.kind \in {"reply", "transfer"} /\ out.proto = "Play" /\ protocol = "Play"
      BY <1>1, <2>1, <2>3 DEF JobOf, ProtocolInv, Ordered, HandOK
    <3>2. \A y \in Elems(Pipe(s)') : y.proto = "Play"
      BY <1>3, <2>1, <3>1 DEF ProtocolInv, Ordered, ForwarderTold, ClientTold, Path
    <3> QED
      BY <2>1, <3>1, <3>2 DEF Before
  <2> QED
    BY <1>1, <1>5, <2>1, <2>2, <2>3
<1> QED
  BY <1>4, <1>5

\* A write adds to what has been written to one side.
LEMMA WriteKeeps ==
  ASSUME ProtocolInv, Write
  PROVE  Ordered'
<1>0. /\ TypeOK /\ ForwarderInv /\ "client" \in Sides /\ "backend" \in Sides /\ job # <<>>
      /\ loop # "ended" /\ job' = <<>> /\ job[1] \in Job
  BY HeadTail DEF ProtocolInv, ForwarderInv, Sides, JobOK, Write, TypeOK
<1>1. PICK s \in Sides, out \in Packet : Other(s) = job[1].to /\ out = job[1].out
  BY <1>0 DEF Write, Job, Sides, Other
<1>2. \A r \in Sides : /\ Lessens(Pipe(r), Pipe(r)')
                       /\ job[1].of = r => Pipe(r)' = Tail(Pipe(r))
  <2>1. UNCHANGED <<chan, hand, inbox>>
    BY DEF Write
  <2> QED
    BY <1>0, <2>1, DoneFirst DEF Lessens, Streams
<1>3. /\ out.kind # "eof" /\ (s = "client" => out.kind # "command")
      /\ \A y \in Elems(Ahead(s)) : Before(y, out)
      /\ \A y \in Elems(Pipe(s)') : Before(out, y)
      /\ out.kind = "finish" =>
           out.proto = "Config" /\ peer[s].proto \notin {"Config", "ack"}
      /\ s = "client" /\ out.proto = "Play" =>
           protocol = "Play" /\ peer["client"].proto = "Play"
      /\ s = "client" /\ peer["backend"].proto = "Play" => out.proto = "Play"
      /\ s = "backend" /\ out.proto = "Play" /\ out.kind # "broadcast" => protocol = "Play"
      /\ s = "backend" /\ peer["client"].proto # "Config" => out.proto = "Play"
      /\ out.kind = "transfer" => protocol = "Play"
  BY <1>0, <1>1, <1>2, OutFits
<1>4. /\ UNCHANGED <<inbox, hand, chan, protocol, peer>>
      /\ loop' = IF out.kind = "transfer" THEN "drain" ELSE loop
      /\ outbox' = IF peer[Other(s)].there
                   THEN [outbox EXCEPT ![Other(s)] = Append(@, out)] ELSE outbox
  BY <1>1 DEF Write
<1>5. CASE ~peer[Other(s)].there
  BY <1>0, <1>1, <1>3, <1>4, <1>5, LostKeeps
<1>6. CASE peer[Other(s)].there
  <2>1. \A r \in Sides : Ahead(r)' = IF r = s THEN Append(Ahead(r), out) ELSE Ahead(r)
    BY <1>0, <1>4, <1>6 DEF Ahead, Other, Sides, TypeOK
  <2>2. \A r \in Sides :
          Ahead(r) \in Packets /\ Pipe(r) \in Packets /\ Follows(Ahead(r), Pipe(r))
    BY <1>0, PathTypes DEF ProtocolInv, Ordered, PathsInOrder
  <2>3. /\ Follows(Append(Ahead(s), out), Pipe(s)')
        /\ Elems(Append(Ahead(s), out)) = Elems(Ahead(s)) \cup {out}
    BY <1>2, <1>3, <2>2, FollowsWrite
  <2>4. \A r \in Sides : r # s => Follows(Ahead(r), Pipe(r)')
    <3>1. \A r \in Sides : Lessens(Ahead(r), Ahead(r))
      BY DEF Lessens
    <3> QED
      BY <1>2, <2>2, <3>1, FollowsLess
  <2>5. PathsInOrder'
    BY <2>1, <2>3, <2>4 DEF PathsInOrder
  <2>6. \A r \in Sides : Path(r)' \subseteq IF r = s THEN Path(r) \cup {out} ELSE Path(r)
    <3>1. \A r \in Sides : Elems(Pipe(r)') \subseteq Elems(Pipe(r))
      BY <1>2, <2>2, LessInOrder DEF Follows
    <3> QED
      BY <2>1, <2>3, <3>1 DEF Path
  <2>7. Marked'
    BY <1>0, <1>3, <1>4, <2>6 DEF ProtocolInv, Ordered, Marked
  <2>8. ClientTold'
    BY <1>0, <1>3, <1>4, <2>6 DEF ProtocolInv, Ordered, ClientTold
  <2>9. ForwarderTold'
    <3>1. Under("client")' = Under("client")
      BY <1>4 DEF Under
    <3> QED
      BY <1>0, <1>3, <1>4, <3>1, ForwarderKeeps
  <2>10. HandOK'
    BY <1>0 DEF HandOK
  <2>11. \A r \in Sides :
           Elems(outbox'[r]) = IF r = Other(s) THEN Elems(outbox[r]) \cup {out}
                               ELSE Elems(outbox[r])
    BY <2>1, <2>3 DEF Ahead, Sides, Other
  <2>12. WrittenOK'
    BY <1>0, <1>1, <1>3, <2>11 DEF ProtocolInv, Ordered, WrittenOK, Sides, Other
  <2>13. BackendTold'
    <3>1. peer["backend"].proto = "Play" => \A p \in Path("client")' : p.proto = "Play"
      BY <1>0, <1>3, <2>6 DEF ProtocolInv, Ordered, BackendTold
    <3>2. CASE s = "client"
      <4>1. job[1].to = "backend" /\ job[1].out.kind = "finish" => FinishAhead'
        BY <1>0, <1>1, <2>11, <3>2 DEF FinishAhead, Other
      <4>2. FinishAhead => FinishAhead'
        BY <1>0, <2>11 DEF FinishAhead
      <4>3. out.proto = "Play" =>
              peer["backend"].proto = "Play" \/ FinishAhead \/ out.kind = "finish"
        BY <1>0, <1>1, <1>3, <1>6, <3>2 DEF ProtocolInv, Ordered, BackendTold, Other
      <4>4. Elems(outbox'["backend"]) = Elems(outbox["backend"]) \cup {out}
        BY <1>0, <2>11, <3>2 DEF Other
      <4> QED
        BY <1>0, <1>1, <1>3, <1>4, <3>1, <4>1, <4>2, <4>3, <4>4
        DEF ProtocolInv, Ordered, BackendTold
    <3>3. CASE s = "backend"
      <4>1. Elems(outbox'["backend"]) = Elems(outbox["backend"]) /\ job[1].to # "backend"
        BY <1>0, <1>1, <2>11, <3>3 DEF Other
      <4> QED
        BY <1>0, <1>4, <3>1, <4>1 DEF ProtocolInv, Ordered, BackendTold, FinishAhead
    <3> QED
      BY <3>2, <3>3 DEF Sides
  <2> QED
    BY <2>5, <2>7, <2>8, <2>9, <2>10, <2>12, <2>13 DEF Ordered
<1> QED
  BY <1>5, <1>6

\* A command goes on: what it asked for is done with, or answered.
LEMMA CommandGoesOnKeeps ==
  ASSUME ProtocolInv, CommandGoesOn
  PROVE  Ordered'
<1>0. /\ TypeOK /\ ForwarderInv /\ "client" \in Sides /\ "backend" \in Sides
      /\ job # <<>> /\ job[1].to = "proxy" /\ job[1] \in Job
      /\ UNCHANGED <<inbox, hand, chan, outbox, loop, protocol, peer>>
  BY HeadTail DEF ProtocolInv, ForwarderInv, Sides, CommandGoesOn, TypeOK
<1>1. job[1].of = "client" /\ protocol = "Play"
  BY <1>0 DEF ProtocolInv, Ordered, HandOK, ForwarderInv, JobOK, JobOf, Job, Sides
<1>2. CASE job' = <<>>
  BY <1>0, <1>2, LostKeeps
<1>3. CASE \/ Start("client", job[1].packet, "client", Own("reply"))
           \/ Start("client", job[1].packet, "client", Own("transfer"))
  <2>1. PICK p : p = job[1].packet
    OBVIOUS
  <2>2. /\ job' # <<>> /\ job'[1].of = "client" /\ job'[1].packet = p
        /\ job'[1].to = "client" /\ job'[1].out \in {Own("reply"), Own("transfer")}
    BY <1>3, <2>1, Started
  <2>3. \A s \in Sides : Held(s)' = Held(s)
    BY <1>0, <1>1, <2>1, <2>2 DEF Held
  <2>4. \A s \in Sides : Pipe(s)' = Pipe(s) /\ Under(s)' = Under(s)
    BY <1>0, <2>3, SameStream DEF Under
  <2>5. \A s \in Sides : Lessens(Ahead(s), Ahead(s)') /\ Lessens(Pipe(s), Pipe(s)')
    BY <1>0, <2>4 DEF Lessens, Ahead
  <2>6. /\ PathsInOrder' /\ Marked' /\ ClientTold' /\ WrittenOK'
        /\ \A s \in Sides : Path(s)' \subseteq Path(s)
    BY <1>0, <2>5, FewerKeeps
  <2>7. ForwarderTold'
    BY <1>0, <2>4, ForwarderKeeps
  <2>8. BackendTold'
    BY <1>0, <2>6 DEF ProtocolInv, Ordered, BackendTold, FinishAhead
  <2>9. HandOK'
    BY <1>0, <1>1, <2>2 DEF HandOK, Own
  <2> QED
    BY <2>6, <2>7, <2>8, <2>9 DEF Ordered
<1> QED
  BY <1>2, <1>3 DEF CommandGoesOn

\* A broadcast is taken in hand, or some are passed over.
LEMMA TakeBroadcastKeeps ==
  ASSUME ProtocolInv, TakeBroadcast
  PROVE  Ordered'
<1>0. /\ "client" \in Sides /\ "backend" \in Sides
      /\ UNCHANGED <<inbox, hand, chan, outbox, loop, protocol, peer>> /\ job = <<>>
  BY DEF Sides, TakeBroadcast
<1>1. CASE UNCHANGED job
  <2>1. \A s \in Sides : Pipe(s)' = Pipe(s) /\ Under(s)' = Under(s)
    BY <1>0, <1>1 DEF Pipe, Held, Under
  <2> QED
    BY <1>0, <1>1, <2>1, QuietKeeps
<1>2. CASE Start("ring", News(cursor + 1), "client", News(cursor + 1))
  <2>1. /\ job' # <<>> /\ job'[1].of = "ring"
        /\ job'[1].out.kind = "broadcast" /\ job'[1].out.proto = "Play"
    BY <1>2, Started, NewsIsPacket DEF ProtocolInv, ForwarderInv, TypeOK
  <2>2. \A s \in Sides : Held(s)' = Held(s)
    BY <1>0, <2>1 DEF Held, Sides
  <2>3. \A s \in Sides : Pipe(s)' = Pipe(s) /\ Under(s)' = Under(s)
    BY <1>0, <2>2, SameStream DEF Under
  <2>4. \A s \in Sides : Lessens(Ahead(s), Ahead(s)') /\ Lessens(Pipe(s), Pipe(s)')
    BY <1>0, <2>3 DEF Lessens, Ahead
  <2>5. /\ PathsInOrder' /\ Marked' /\ ClientTold' /\ WrittenOK'
        /\ \A s \in Sides : Path(s)' \subseteq Path(s)
    BY <1>0, <2>4, FewerKeeps
  <2>6. ForwarderTold'
    BY <1>0, <2>3, ForwarderKeeps
  <2>7. BackendTold'
    BY <1>0, <2>5, BackendStarts
  <2>8. HandOK'
    BY <2>1 DEF HandOK
  <2> QED
    BY <2>5, <2>6, <2>7, <2>8 DEF Ordered
<1> QED
  BY <1>1, <1>2 DEF TakeBroadcast

\* Every step keeps the order.
LEMMA OrderStep ==
  ASSUME ProtocolInv, [Next]_vars
  PROVE  Ordered'
<1>0. TypeOK
  BY DEF ProtocolInv, ForwarderInv
<1>1. ASSUME NEW s \in Sides, SideSteps(s)
      PROVE  Ordered'
  BY <1>1, SendKeeps, LeaveKeeps, ReceiveKeeps DEF SideSteps, HangUp
<1>2. ASSUME NEW s \in Sides, Read(s) \/ HandOver(s)
      PROVE  Ordered'
  <2>1. \A r \in Sides : Pipe(r)' = Pipe(r) /\ Under(r)' = Under(r)
    BY <1>0, <1>2, ReaderKeeps
  <2>2. UNCHANGED <<outbox, loop, job, protocol, peer>>
    BY <1>2 DEF Read, HandOver
  <2> QED
    BY <2>1, <2>2, QuietKeeps
<1>3. CASE Post \/ UNCHANGED vars
  <2>1. UNCHANGED <<inbox, hand, chan, outbox, loop, job, protocol, peer>>
    BY <1>3 DEF Post, vars
  <2>2. \A r \in Sides : Pipe(r)' = Pipe(r) /\ Under(r)' = Under(r)
    BY <2>1 DEF Pipe, Held, Under
  <2> QED
    BY <2>1, <2>2, QuietKeeps
<1>4. CASE TakeBackendPacket \/ TakeClientPacket \/ TakeCommand \/ DrainBackend \/ DrainClient
  BY <1>4, TakeSteps
<1>5. CASE TakeBroadcast
  BY <1>5, TakeBroadcastKeeps
<1>6. CASE CommandGoesOn
  BY <1>6, CommandGoesOnKeeps
<1>7. CASE Write
  BY <1>7, WriteKeeps
<1>8. CASE WriteFails
  <2>1. CASE End
    BY <2>1, EndKeeps
  <2>2. CASE /\ job' = <<>>
             /\ UNCHANGED <<inbox, hand, chan, outbox, loop, protocol, posted, cursor, peer,
                            confused>>
    BY <1>8, <2>2, LostKeeps DEF WriteFails
  <2> QED
    BY <1>8, <2>1, <2>2 DEF WriteFails
<1>9. CASE DrainTimeout \/ ClientEof \/ BackendEof
  <2>1. End
    BY <1>9 DEF DrainTimeout, ClientEof, BackendEof, Eofs
  <2> QED
    BY <2>1, EndKeeps
<1> QED
  BY <1>1, <1>2, <1>3, <1>4, <1>5, <1>6, <1>7, <1>8, <1>9 DEF Next

\* The order holds from the start.
LEMMA OrderInit == Init => ProtocolInv
<1> SUFFICES ASSUME Init
             PROVE  ProtocolInv
  OBVIOUS
<1>1. ForwarderInv
  BY InvInit
<1>2. \A s \in Sides : Ahead(s) = <<>> /\ Pipe(s) = <<>> /\ Under(s) = {} /\ outbox[s] = <<>>
  <2>1. \A s \in Sides : Held(s) = <<>> /\ chan[s] = <<>> /\ hand[s] = <<>> /\ inbox[s] = <<>>
                         /\ outbox[s] = <<>>
    BY DEF Init, Held
  <2>2. \A s \in Sides : Pipe(s) = <<>>
    BY <2>1, EmptyIsPackets, CatSeq, PipeParts DEF Joined
  <2>3. \A s \in Sides : Under(s) = {} /\ Ahead(s) = <<>>
    BY <2>1 DEF Under, Elems, Ahead, Sides, Other
  <2> QED
    BY <2>1, <2>2, <2>3
<1>3. Elems(<<>>) = {} /\ InOrder(<<>>)
  BY DEF Elems, InOrder
<1>4. PathsInOrder /\ \A s \in Sides : Path(s) = {}
  BY <1>2, <1>3 DEF PathsInOrder, Follows, Path
<1>5. Marked /\ ClientTold
  BY <1>4 DEF Init, Marked, ClientTold, Sides
<1>6. ForwarderTold /\ HandOK
  BY <1>2 DEF Init, ForwarderTold, HandOK, Sides
<1>7. BackendTold /\ WrittenOK
  BY <1>2, <1>3 DEF Init, BackendTold, WrittenOK, Sides
<1> QED
  BY <1>1, <1>4, <1>5, <1>6, <1>7 DEF ProtocolInv, Ordered

\* Every step keeps the order.
LEMMA ProtocolStep == ProtocolInv /\ [Next]_vars => ProtocolInv'
  BY InvStep, OrderStep DEF ProtocolInv

\* The order holds in every reachable state.
THEOREM ProtocolHolds == Spec => []ProtocolInv
  BY OrderInit, ProtocolStep, PTL DEF Spec

-----------------------------------------------------------------------------
(* What the order is for *)

\* The forwarder looks for commands and for the command tree in all that belongs to Play and
\* in nothing that belongs to the configuration: it reads each packet in the protocol it was
\* sent in.
THEOREM ForwarderTracks == Spec => []ProtocolTracked
<1>1. ASSUME ProtocolInv
      PROVE  ProtocolTracked
  <2>0. TypeOK /\ ForwarderInv /\ "client" \in Sides /\ "backend" \in Sides
    BY <1>1 DEF ProtocolInv, ForwarderInv, Sides
  <2>1. SUFFICES ASSUME loop = "select", job = <<>>, NEW s \in Sides, chan[s] # <<>>,
                        Head(chan[s]).kind \notin {"eof", "finish"}
                 PROVE  Head(chan[s]).proto = protocol
    BY DEF ProtocolTracked
  <2>2. PICK p : p = Head(chan[s])
    OBVIOUS
  <2>3. Pipe(s) # <<>> /\ Head(Pipe(s)) = p /\ p \in Packet /\ p \in Under(s)
    <3>1. chan[s] \in Packets /\ Elems(chan[s]) \subseteq Under(s)
      BY <2>0, Parts DEF Under
    <3> QED
      BY <2>0, <2>1, <2>2, <3>1, Idle, ElemsHead
  <2>4. p.proto \in {"Config", "Play"} /\ protocol \in {"Config", "Play"}
    BY <2>0, <2>3 DEF Packet, Protocols, TypeOK
  <2>5. p.proto = "Play" => protocol = "Play"
    BY <1>1, <2>1, <2>2, <2>3, PlayIsKnown
  <2>6. protocol = "Play" => p.proto = "Play"
    <3>1. p \in Path(s)
      BY <2>0, <2>3, ElemsPipe DEF Path
    <3> QED
      BY <1>1, <2>3, <3>1 DEF ProtocolInv, Ordered, ForwarderTold, ClientTold, Sides
  <2> QED
    BY <2>2, <2>4, <2>5, <2>6
<1> QED
  BY <1>1, ProtocolHolds, PTL

\* A side that leaves because it cannot read what it gets has got a broadcast.
THEOREM SidesReadTheRest == Spec => []OnlyBroadcastsConfuse
<1>1. Init => OnlyBroadcastsConfuse
  BY DEF Init, OnlyBroadcastsConfuse
<1>2. ASSUME ProtocolInv, OnlyBroadcastsConfuse, [Next]_vars
      PROVE  OnlyBroadcastsConfuse'
  <2>1. ASSUME NEW s \in Sides, Receive(s)
        PROVE  OnlyBroadcastsConfuse'
    <3>1. PICK p : p = Head(outbox[s])
      OBVIOUS
    <3>2. p.proto = Decodes(s) \/ p.kind = "broadcast"
      BY <1>2, <2>1, <3>1, ReadableNext DEF Receive
    <3> QED
      BY <1>2, <2>1, <3>1, <3>2 DEF Receive, OnlyBroadcastsConfuse
  <2>2. ASSUME UNCHANGED confused
        PROVE  OnlyBroadcastsConfuse'
    BY <1>2, <2>2 DEF OnlyBroadcastsConfuse
  <2>3. ASSUME NEW s \in Sides, SideSteps(s) \/ Read(s) \/ HandOver(s)
        PROVE  OnlyBroadcastsConfuse'
    BY <2>1, <2>2, <2>3 DEF SideSteps, Send, HangUp, Read, HandOver
  <2>4. CASE TakeBackendPacket \/ TakeClientPacket \/ TakeCommand \/ TakeBroadcast
    BY <2>2, <2>4 DEF TakeBackendPacket, TakeClientPacket, TakeCommand, TakeBroadcast
  <2>5. CASE Post \/ CommandGoesOn \/ Write \/ DrainBackend \/ DrainClient \/ UNCHANGED vars
    BY <2>2, <2>5 DEF Post, CommandGoesOn, Write, DrainBackend, DrainClient, vars
  <2>6. CASE WriteFails \/ DrainTimeout \/ ClientEof \/ BackendEof
    BY <2>2, <2>6 DEF WriteFails, DrainTimeout, ClientEof, BackendEof, Eofs, End
  <2> QED
    BY <1>2, <2>3, <2>4, <2>5, <2>6 DEF Next
<1> QED
  BY <1>1, <1>2, ProtocolHolds, PTL DEF Spec

\* A command of the proxy's tree comes after the end of the configuration, so that the
\* forwarder sees it for what it is: none of them reaches the backend.
THEOREM OfferedNeverPassedOn == Spec => []CommandsAreServed
<1>1. ProtocolInv => CommandsAreServed
  BY DEF ProtocolInv, Ordered, WrittenOK, CommandsAreServed, Elems
<1> QED
  BY <1>1, ProtocolHolds, PTL

=============================================================================
