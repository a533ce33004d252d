---------------------- MODULE PacketForwarderRefinement ----------------------
(***************************************************************************)
(* Every step of a session is a step of Relay, or none: the readers, their *)
(* channels, the select and the drain keep the promise of Relay.           *)
(***************************************************************************)
EXTENDS PacketForwarderProofs

\* Appending makes a queue longer by what is appended.
LEMMA Grown ==
  ASSUME NEW S, NEW q \in Seq(S), NEW x \in S
  PROVE  /\ Promise!Grows(q, Append(q, x))
         /\ Promise!Newest(Append(q, x)) = x
<1>1. /\ Append(q, x) \in Seq(S) /\ Len(q) \in Nat
      /\ Len(Append(q, x)) = Len(q) + 1 /\ Append(q, x)[Len(q) + 1] = x
  BY AppendProperties, LenProperties
<1>2. Append(q, x) # <<>>
  BY <1>1, EmptySeq
<1> QED
  BY <1>1, <1>2 DEF Promise!Grows, Promise!Newest

\* Phases and sides change with the loop and the peers only.
LEMMA Frames ==
  /\ UNCHANGED loop => UNCHANGED Phase
  /\ UNCHANGED peer => UNCHANGED There
  /\ (Phase = "over") <=> loop \notin {"select", "drain"}
  /\ Phase = "open" <=> loop = "select"
  /\ Phase = "transfer" <=> loop = "drain"
  BY DEF Phase, There

\* A step that shows in none of the four parts.
LEMMA Stutter ==
  ASSUME Streams' = Streams, UNCHANGED <<outbox, peer, loop>>
  PROVE  UNCHANGED Promise!vars
  BY Frames DEF Promise!vars

\* Everything that is written is typed, and reaches who is there.
LEMMA Puts ==
  ASSUME NEW s \in Sides, NEW p,
         outbox' = IF peer[s].there THEN [outbox EXCEPT ![s] = Append(@, p)] ELSE outbox
  PROVE  Promise!Put(s, p)
  BY DEF Promise!Put, There

\* A side that sends makes its stream longer.
LEMMA SendsMore ==
  ASSUME TypeOK, NEW s \in Sides, NEW x \in Packet,
         inbox' = [inbox EXCEPT ![s] = IF loop = "ended" THEN @ ELSE Append(@, x)],
         UNCHANGED <<hand, chan, job>>
  PROVE  /\ Promise!Sends(s)
         /\ loop # "ended" => Promise!Newest(Streams'[s]) = x
<1>1. Streams' = IF loop = "ended" THEN Streams
                 ELSE [Streams EXCEPT ![s] = Append(Streams[s], x)]
  BY Stretched
<1>2. Streams[s] \in Seq(Packet)
  BY Parts DEF Streams, Packets
<1>3. (Phase = "over") <=> (loop = "ended")
  BY Frames DEF TypeOK
<1>4. CASE loop = "ended"
  BY <1>1, <1>3, <1>4 DEF Promise!Sends
<1>5. CASE loop # "ended"
  <2>1. Streams' = [Streams EXCEPT ![s] = Append(Streams[s], x)]
    BY <1>1, <1>5
  <2>2. Streams'[s] = Append(Streams[s], x)
    BY <2>1 DEF Streams
  <2>3. Promise!Grows(Streams[s], Streams'[s]) /\ Promise!Newest(Streams'[s]) = x
    BY <1>2, <2>2, Grown
  <2> QED
    BY <1>3, <1>5, <2>1, <2>2, <2>3 DEF Promise!Sends
<1> QED
  BY <1>4, <1>5

-----------------------------------------------------------------------------
(* The sides *)

\* A packet of a side.
LEMMA SendMaps ==
  ASSUME TypeOK, NEW s \in Sides, NEW kind \in Kinds, NEW text \in Offered \cup {None}, NEW next,
         Send(s, kind, text, next)
  PROVE  Promise!Send(s)
<1> DEFINE x == [kind |-> kind, text |-> text,
                 proto |-> IF peer[s].proto = "Play" THEN "Play" ELSE "Config",
                 n |-> peer[s].sent + 1]
<1>1. x \in Packet
  <2>1. peer[s].sent \in Nat
    BY DEF TypeOK, Peer
  <2> QED
    BY <2>1 DEF Packet, Protocols
<1>2. inbox' = [inbox EXCEPT ![s] = IF loop = "ended" THEN @ ELSE Append(@, x)]
  BY DEF Send
<1>3. peer[s].there /\ UNCHANGED <<hand, chan, job, outbox, loop>>
  BY DEF Send
<1> HIDE DEF x
<1>4. Promise!Sends(s)
  BY <1>1, <1>2, <1>3, SendsMore
<1>5. There' = There
  <2>1. \A r \in Sides : peer'[r].there = peer[r].there
    BY DEF Send, TypeOK, Peer
  <2> QED
    BY <2>1 DEF There
<1> QED
  BY <1>3, <1>4, <1>5, Frames DEF Promise!Send, There

\* A side goes.
LEMMA LeaveMaps ==
  ASSUME TypeOK, NEW s \in Sides, Leave(s)
  PROVE  Promise!Leave(s)
<1>1. inbox' = [inbox EXCEPT ![s] = IF loop = "ended" THEN @ ELSE Append(@, Eof)]
  BY DEF Leave
<1>2. peer[s].there /\ UNCHANGED <<hand, chan, job, loop>>
      /\ outbox' = [outbox EXCEPT ![s] = <<>>]
  BY DEF Leave
<1>3. PICK x \in Packet : x = Eof /\ x.kind = "eof"
  BY EofIsPacket
<1>4. Promise!Sends(s) /\ (loop # "ended" => Promise!Newest(Streams'[s]) = x)
  BY <1>1, <1>2, <1>3, SendsMore
<1>5. There' = There \ {s}
  <2>1. \A r \in Sides : peer'[r].there = (r # s /\ peer[r].there)
    BY DEF Leave, TypeOK, Peer
  <2> QED
    BY <2>1 DEF There
<1>6. Phase # "over" => loop # "ended"
  BY Frames
<1> QED
  BY <1>2, <1>3, <1>4, <1>5, <1>6, Frames DEF Promise!Leave, There

\* A side reads, or disconnects at what it cannot read.
LEMMA ReceiveMaps ==
  ASSUME TypeOK, NEW s \in Sides, Receive(s)
  PROVE  Promise!Leave(s) \/ Promise!Read(s)
<1>1. CASE Leave(s)
  BY <1>1, LeaveMaps
<1>2. CASE ~Leave(s)
  <2>1. /\ outbox[s] # <<>> /\ outbox' = [outbox EXCEPT ![s] = Tail(@)]
        /\ UNCHANGED <<inbox, hand, chan, loop, job>>
    BY <1>2 DEF Receive
  <2>2. There' = There
    <3>1. PICK v : peer' = [peer EXCEPT ![s].proto = v]
      BY <1>2 DEF Receive
    <3>2. \A r \in Sides : peer'[r].there = peer[r].there
      BY <3>1 DEF TypeOK, Peer
    <3> QED
      BY <3>2 DEF There
  <2>3. Streams' = Streams
    BY <2>1, StreamsEqual DEF Pipe, Held
  <2> QED
    BY <2>1, <2>2, <2>3, Frames DEF Promise!Read
<1> QED
  BY <1>1, <1>2

-----------------------------------------------------------------------------
(* The forwarder *)

\* A packet goes into the forwarder's hand.
LEMMA TakeMaps ==
  ASSUME TypeOK, TakeBackendPacket \/ TakeClientPacket \/ TakeCommand
  PROVE  UNCHANGED Promise!vars
<1>0. "client" \in Sides /\ "backend" \in Sides
  BY DEF Sides
<1>1. ASSUME NEW s \in Sides, NEW stage, NEW to, NEW out,
             Take(s, stage), Start(s, Head(chan[s]), to, out), UNCHANGED <<hand, inbox>>
      PROVE  Streams' = Streams
  BY <1>1, Started, TakeKeeps
<1>2. CASE TakeBackendPacket
  BY <1>0, <1>1, <1>2, Stutter DEF TakeBackendPacket
<1>3. CASE TakeClientPacket
  BY <1>0, <1>1, <1>3, Stutter DEF TakeClientPacket
<1>4. CASE TakeCommand
  <2>1. PICK to, out : Start("client", Head(chan["client"]), to, out)
    BY <1>4 DEF TakeCommand
  <2> QED
    BY <1>0, <1>1, <1>4, <2>1, Stutter DEF TakeCommand
<1> QED
  BY <1>2, <1>3, <1>4

\* The ring is not one of the streams.
LEMMA BroadcastMaps ==
  ASSUME TypeOK, TakeBroadcast
  PROVE  UNCHANGED Promise!vars
<1>1. \A s \in Sides : Held(s)' = Held(s)
  <2>1. job = <<>> /\ (job' = <<>> \/ job'[1].of = "ring")
    BY Started DEF TakeBroadcast
  <2> QED
    BY <2>1 DEF Held, Sides
<1>2. \A s \in Sides : Pipe(s)' = Pipe(s)
  BY <1>1, SameStream DEF TakeBroadcast
<1> QED
  BY <1>2, StreamsEqual, Stutter DEF TakeBroadcast

\* The typed fields of the packet in hand.
LEMMA JobFields ==
  ASSUME TypeOK, job # <<>>
  PROVE  /\ job[1].of \in Sides \cup {"ring"} /\ job[1].to \in Sides \cup {"proxy"}
         /\ job[1].packet \in Packet /\ job[1].out \in Packet
<1>1. job[1] \in Job
  BY HeadTail DEF TypeOK
<1> QED
  BY <1>1 DEF Job

\* What the client is told.
LEMMA Tells ==
  ASSUME TypeOK, NEW p \in Packet, NEW kinds, p.kind \in kinds,
         outbox' = IF peer["client"].there
                   THEN [outbox EXCEPT !["client"] = Append(@, p)] ELSE outbox
  PROVE  Promise!Tell(kinds)
<1>1. outbox["client"] \in Seq(Packet) /\ "client" \in Sides
  BY DEF TypeOK, Sides
<1>2. /\ Promise!Grows(outbox["client"], Append(outbox["client"], p))
      /\ Promise!Newest(Append(outbox["client"], p)) = p
  BY <1>1, Grown
<1>3. CASE peer["client"].there
  <2>1. outbox'["client"] = Append(outbox["client"], p)
        /\ outbox' = [outbox EXCEPT !["client"] = Append(outbox["client"], p)]
    BY <1>1, <1>3 DEF TypeOK
  <2> QED
    BY <1>1, <1>2, <1>3, <2>1 DEF Promise!Tell, There
<1>4. CASE ~peer["client"].there
  BY <1>4 DEF Promise!Tell, There
<1> QED
  BY <1>3, <1>4

\* A command goes on: it is done with, or answered next.
LEMMA CommandMaps ==
  ASSUME ForwarderInv, CommandGoesOn
  PROVE  UNCHANGED Promise!vars \/ Promise!Answer
<1>0. TypeOK /\ JobOK /\ job # <<>> /\ "client" \in Sides
  BY DEF ForwarderInv, CommandGoesOn, Sides
<1>1. job[1].of = "client" /\ job[1].packet.kind = "command" /\ loop = "select"
  BY <1>0, JobFields DEF JobOK, JobOf, CommandGoesOn, Sides
<1>2. CASE job' = <<>>
  <2>1. /\ Streams["client"] # <<>> /\ Head(Streams["client"]) = job[1].packet
        /\ Streams' = [Streams EXCEPT !["client"] = Tail(Streams["client"])]
    BY <1>0, <1>1, <1>2, DoneFirst DEF CommandGoesOn
  <2> QED
    BY <1>1, <2>1, Frames DEF Promise!Answer, Promise!Oldest, CommandGoesOn
<1>3. CASE job' # <<>>
  <2>1. job'[1].of = "client" /\ job'[1].packet = job[1].packet
    BY <1>3, Started DEF CommandGoesOn
  <2>2. \A s \in Sides : Held(s)' = Held(s)
    BY <1>0, <1>1, <1>3, <2>1 DEF Held
  <2>3. \A s \in Sides : Pipe(s)' = Pipe(s)
    BY <2>2, SameStream DEF CommandGoesOn
  <2> QED
    BY <2>3, StreamsEqual, Stutter DEF CommandGoesOn
<1> QED
  BY <1>2, <1>3

\* The write that is awaited returns: the packet is passed on, or answered.
LEMMA WriteMaps ==
  ASSUME ForwarderInv, Write
  PROVE  Promise!Forward("backend") \/ Promise!Forward("client")
         \/ Promise!Answer \/ Promise!Inform
<1> DEFINE j == job[1]
<1>0. /\ TypeOK /\ job # <<>> /\ JobOf(j) /\ loop \in {"select", "drain"}
      /\ "client" \in Sides /\ "backend" \in Sides
      /\ j.of \in Sides \cup {"ring"} /\ j.packet \in Packet /\ j.out \in Packet
  BY JobFields DEF ForwarderInv, JobOK, TypeOK, Write, Sides
<1>1. /\ j.to \in Sides /\ job' = <<>> /\ UNCHANGED <<inbox, hand, chan, peer>>
      /\ outbox' = IF peer[j.to].there THEN [outbox EXCEPT ![j.to] = Append(@, j.out)]
                   ELSE outbox
      /\ loop' = IF j.out.kind = "transfer" THEN "drain" ELSE loop
  BY DEF Write
<1>2. \A s \in Sides :
        IF j.of = s
        THEN /\ Streams[s] # <<>> /\ Head(Streams[s]) = j.packet
             /\ Streams' = [Streams EXCEPT ![s] = Tail(Streams[s])]
        ELSE Pipe(s)' = Pipe(s)
  BY <1>0, <1>1, DoneFirst
<1> HIDE DEF j
<1>3. CASE j.of = "backend"
  <2>1. /\ j.to = "client" /\ j.packet.kind \in {"data", "finish", "command", "commands"}
        /\ j.out = IF j.packet.kind = "commands" /\ loop = "select"
                   THEN [j.packet EXCEPT !.kind = "tree"] ELSE j.packet
    BY <1>0, <1>3 DEF JobOf
  <2>2. j.out.kind # "transfer"
    BY <1>0, <2>1 DEF Packet
  <2>3. Promise!Put("client", j.out) /\ UNCHANGED <<There, Phase>> /\ Phase # "over"
    BY <1>0, <1>1, <2>1, <2>2, Puts, Frames
  <2> QED
    BY <1>0, <1>2, <1>3, <2>1, <2>3, Frames
       DEF Promise!Forward, Promise!Oldest, Promise!Other
<1>4. CASE j.of = "client" /\ j.to = "backend"
  <2>1. /\ j.packet.kind \in {"data", "finish", "command", "commands"}
        /\ j.out = j.packet
    BY <1>0, <1>4 DEF JobOf
  <2>2. Promise!Put("backend", j.out) /\ UNCHANGED <<There, Phase>> /\ Phase # "over"
    BY <1>0, <1>1, <1>4, <2>1, Puts, Frames
  <2> QED
    BY <1>0, <1>2, <1>4, <2>1, <2>2
       DEF Promise!Forward, Promise!Oldest, Promise!Other
<1>5. CASE j.of = "client" /\ j.to = "client"
  <2>1. /\ loop = "select" /\ j.packet.kind = "command" /\ j.out.kind \in {"reply", "transfer"}
    BY <1>0, <1>5 DEF JobOf
  <2>2. Promise!Tell({j.out.kind}) /\ UNCHANGED There
    BY <1>0, <1>1, <1>5, Tells, Frames
  <2>3. Phase = "open" /\ Phase' = IF j.out.kind = "transfer" THEN "transfer" ELSE "open"
    BY <1>1, <2>1 DEF Phase
  <2> QED
    BY <1>0, <1>2, <1>5, <2>1, <2>2, <2>3 DEF Promise!Answer, Promise!Oldest
<1>6. CASE j.of = "ring"
  <2>1. j.to = "client" /\ j.out.kind = "broadcast" /\ loop = "select"
    BY <1>0, <1>6 DEF JobOf
  <2>2. Promise!Tell({"broadcast"}) /\ UNCHANGED <<There, Phase>> /\ Phase = "open"
    BY <1>0, <1>1, <2>1, Tells, Frames
  <2>3. Streams' = Streams
    BY <1>2, <1>6, StreamsEqual DEF Sides
  <2> QED
    BY <2>2, <2>3 DEF Promise!Inform
<1> QED
  BY <1>0, <1>1, <1>3, <1>4, <1>5, <1>6 DEF Sides

\* The session ends because a side has gone or was told to transfer.
LEMMA EndMaps ==
  ASSUME End, loop = "drain" \/ (loop = "select" /\ \E s \in Sides : ~peer[s].there)
  PROVE  Promise!Close
<1>1. Streams' = [s \in Sides |-> <<>>] /\ Phase' = "over"
  BY EndEmpties
<1>2. UNCHANGED <<outbox, There>>
  BY Frames DEF End
<1>3. Phase = "transfer" \/ (Phase = "open" /\ There # Sides)
  BY Frames DEF There
<1> QED
  BY <1>1, <1>2, <1>3 DEF Promise!Close, Promise!Sides, Sides

\* A write that fails ends the session or, in the drain, loses the packet.
LEMMA WriteFailsMaps ==
  ASSUME ForwarderInv, WriteFails
  PROVE  UNCHANGED Promise!vars \/ Promise!Drop("backend") \/ Promise!Close
<1> DEFINE j == job[1]
<1>0. /\ TypeOK /\ job # <<>> /\ JobOf(j) /\ loop \in {"select", "drain"}
      /\ "client" \in Sides /\ "backend" \in Sides
      /\ j.of \in Sides \cup {"ring"} /\ j.to \in Sides /\ ~peer[j.to].there
  BY JobFields DEF ForwarderInv, JobOK, TypeOK, WriteFails, Sides
<1>1. CASE ~(j.of = "ring" \/ loop = "drain")
  BY <1>0, <1>1, EndMaps DEF WriteFails
<1>2. CASE j.of = "ring" \/ loop = "drain"
  <2>1. job' = <<>> /\ UNCHANGED <<inbox, hand, chan, outbox, peer, loop>>
    BY <1>2 DEF WriteFails
  <2>2. \A s \in Sides :
          IF j.of = s
          THEN Streams[s] # <<>> /\ Streams' = [Streams EXCEPT ![s] = Tail(Streams[s])]
          ELSE Pipe(s)' = Pipe(s)
    BY <1>0, <2>1, DoneFirst
  <2>3. CASE j.of = "ring"
    BY <2>1, <2>2, <2>3, StreamsEqual, Stutter DEF Sides
  <2>4. CASE j.of # "ring"
    <3>1. j.of = "backend" /\ loop = "drain"
      BY <1>0, <1>2, <2>4 DEF JobOf, Sides
    <3> QED
      BY <1>0, <2>1, <2>2, <3>1, Frames DEF Promise!Drop, Promise!Oldest
  <2> QED
    BY <2>3, <2>4
<1> QED
  BY <1>1, <1>2

\* The drain takes a packet of a side: it is dropped, or in hand.
LEMMA DrainMaps ==
  ASSUME TypeOK, DrainBackend \/ DrainClient
  PROVE  UNCHANGED Promise!vars \/ Promise!Drop("backend") \/ Promise!Drop("client")
<1>0. "client" \in Sides /\ "backend" \in Sides
  BY DEF Sides
<1>1. ASSUME NEW s \in Sides, Take(s, "drain"), UNCHANGED <<job, hand, inbox, outbox, loop, peer>>
      PROVE  Promise!Drop(s)
  <2>1. Streams[s] # <<>> /\ Streams' = [Streams EXCEPT ![s] = Tail(Streams[s])]
    BY <1>1, DropsFirst
  <2> QED
    BY <1>1, <2>1, Frames DEF Promise!Drop, Promise!Oldest, Take
<1>2. CASE DrainClient
  BY <1>0, <1>1, <1>2 DEF DrainClient
<1>3. CASE DrainBackend /\ Head(chan["backend"]).kind = "eof"
  BY <1>0, <1>1, <1>3 DEF DrainBackend
<1>4. CASE DrainBackend /\ Head(chan["backend"]).kind # "eof"
  <2>1. /\ Take("backend", "drain") /\ UNCHANGED <<hand, inbox>>
        /\ Start("backend", Head(chan["backend"]), "client", Head(chan["backend"]))
    BY <1>4 DEF DrainBackend
  <2>2. Streams' = Streams
    BY <1>0, <2>1, Started, TakeKeeps
  <2> QED
    BY <1>4, <2>2, Stutter DEF DrainBackend
<1> QED
  BY <1>2, <1>3, <1>4

\* A stream is at its end only when its side has gone.
LEMMA EofMaps ==
  ASSUME ForwarderInv, ClientEof \/ BackendEof
  PROVE  Promise!Close
<1>1. PICK s \in Sides, stage \in {"select", "drain"} : Eofs(s, stage)
  BY DEF ClientEof, BackendEof, Sides
<1>2. chan[s] \in Seq(Packet) /\ chan[s] # <<>> /\ Head(chan[s]).kind = "eof" /\ loop = stage /\ End
  BY <1>1 DEF Eofs, ForwarderInv, TypeOK
<1>3. Head(chan[s]) \in Elems(chan[s])
  BY <1>2, ElemsOf
<1>4. ~peer[s].there
  BY <1>2, <1>3 DEF ForwarderInv, StreamOK, Sound
<1> QED
  BY <1>2, <1>4, EndMaps

-----------------------------------------------------------------------------

\* A session starts as the relay does.
LEMMA InitMaps ==
  ASSUME Init
  PROVE  Promise!Init
<1>1. \A s \in Sides : Pipe(s) = <<>>
  <2>1. \A s \in Sides : Held(s) = <<>> /\ chan[s] = <<>> /\ hand[s] = <<>> /\ inbox[s] = <<>>
    BY DEF Init, Held
  <2>2. <<>> \o <<>> = <<>>
    BY EmptySeq, ConcatEmptySeq
  <2> QED
    BY <2>1, <2>2 DEF Pipe
<1>2. There = Sides /\ Phase = "open"
  BY DEF Init, There, Phase
<1> QED
  BY <1>1, <1>2 DEF Init, Promise!Init, Streams, Promise!Sides, Sides

\* Every step of a session is a step of the relay, or none.
LEMMA StepMaps ==
  ASSUME ForwarderInv, [Next]_vars
  PROVE  [Promise!Next]_(Promise!vars)
<1>0. TypeOK /\ Promise!Sides = Sides
  BY DEF ForwarderInv, Promise!Sides, Sides
<1>1. ASSUME NEW s \in Sides, SideSteps(s)
      PROVE  Promise!Send(s) \/ Promise!Leave(s) \/ Promise!Read(s)
  BY <1>0, <1>1, SendMaps, LeaveMaps, ReceiveMaps DEF SideSteps, HangUp
<1>2. ASSUME NEW s \in Sides, Read(s) \/ HandOver(s)
      PROVE  UNCHANGED Promise!vars
  BY <1>0, <1>2, ReadKeeps, HandOverKeeps, Stutter DEF Read, HandOver
<1>3. ASSUME Post \/ UNCHANGED vars
      PROVE  UNCHANGED Promise!vars
  <2>1. UNCHANGED <<inbox, hand, chan, outbox, loop, job, peer>>
    BY <1>3 DEF Post, vars
  <2> QED
    BY <2>1, StreamsEqual, Stutter DEF Pipe, Held
<1>4. CASE DrainTimeout
  BY <1>4, EndMaps DEF DrainTimeout, Promise!Next
<1>5. "client" \in Sides /\ "backend" \in Sides
  BY DEF Sides
<1> QED
  BY <1>0, <1>1, <1>2, <1>3, <1>4, <1>5, TakeMaps, BroadcastMaps, CommandMaps, WriteMaps,
     WriteFailsMaps, DrainMaps, EofMaps DEF Next, Promise!Next

\* ImplementsRelay: whatever the sizes of channels, sockets and ring, the two readers,
\* the select and the drain lose, double, reorder and make up no packet of a session
\* that lasts, and end a session only for a reason (PacketForwarder::run).
THEOREM RelayKept == Spec => ImplementsRelay
<1>1. Spec => Promise!Init
  BY InitMaps DEF Spec
<1>2. ForwarderInv /\ [Next]_vars => [Promise!Next]_(Promise!vars)
  BY StepMaps
<1> QED
  BY <1>1, <1>2, InvHolds, PTL DEF Spec, ImplementsRelay, Promise!Spec

=============================================================================
