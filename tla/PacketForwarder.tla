--------------------------- MODULE PacketForwarder ---------------------------
(***************************************************************************)
(* One session between a client and its backend, from the end of the       *)
(* backend login on: PacketForwarder::run.  Two reader tasks take packets  *)
(* from the sockets and hand them over bounded channels to the forwarder   *)
(* task, which selects between the channels and the broadcast ring, awaits *)
(* one write at a time, and drains the backend once it has sent a          *)
(* Transfer.                                                               *)
(*                                                                         *)
(* One action is what a task does between two awaits.  Client and backend  *)
(* are external: they follow the protocol, may stop reading, and may leave *)
(* at any moment.                                                          *)
(*                                                                         *)
(* Abstractions.  A packet is its kind, the protocol it is sent in and its *)
(* number in its stream.  A command that waits for the read guard of the   *)
(* registry (RegistryLock) or in start_pr waits for as long as it likes,   *)
(* and what it finds there is a choice.  The entity id and the permission  *)
(* level, which nothing reads, are left out.                               *)
(***************************************************************************)
EXTENDS Integers, Sequences, CommandTree

CONSTANTS
  Capacity,  \* packets a channel holds (32 in the code)
  Buffer,    \* packets a side's socket takes before a write to it waits
  Ring,      \* broadcasts the ring keeps (16 in the code)
  MaxSent,   \* bound, for each side: the packets it sends
  MaxPosted  \* bound: broadcasts

ASSUME BoundsAssumption ==
  /\ {Capacity, Buffer, Ring} \subseteq Nat \ {0}
  /\ MaxSent \in [{"client", "backend"} -> Nat]
  /\ MaxPosted \in Nat

VARIABLES
  inbox,     \* what each side has sent and no reader has taken
  hand,      \* the packet each reader has taken and not handed over, if any
  chan,      \* the channels from the readers, by the side they come from
  outbox,    \* what has been written to each side and it has not read
  loop,      \* what the forwarder does between two packets
  job,       \* the packet in hand and what is awaited for it, if any
  protocol,  \* current_protocol
  posted,    \* broadcasts sent by anybody since the session began
  cursor,    \* broadcasts broadcast_rx is past
  peer,      \* the two sides
  confused   \* history: the kind of packet that came in the wrong protocol

vars == <<inbox, hand, chan, outbox, loop, job, protocol, posted, cursor, peer, confused>>

Sides == {"client", "backend"}
Other(s) == IF s = "client" THEN "backend" ELSE "client"

Protocols == {"Config", "Play"}

Kinds ==
  {"data", "finish", "command", "commands", "eof", "tree", "reply", "transfer", "broadcast"}

None == <<>>

\* text: what a command says.  n: the number of the packet in its stream.
Packet == [kind : Kinds, text : Offered \cup {None}, proto : Protocols, n : Nat]

\* What the proxy itself tells the client is encoded for Play (from_bare).
Own(kind) == [kind |-> kind, text |-> None, proto |-> "Play", n |-> 0]

\* The n-th broadcast, as it is told.
News(n) == [Own("broadcast") EXCEPT !.n = n]

\* The error a reader ends with.
Eof == Own("eof")

\* What is awaited: a write of out to a side or, for a command, the registry's read
\* guard or start_pr (to = "proxy").
Job == [of : Sides \cup {"ring"}, packet : Packet, to : Sides \cup {"proxy"}, out : Packet]

\* "ack": the client is about to acknowledge the end of the configuration.
\* "wait": the backend waits for that.
Peer == [there : BOOLEAN, proto : Protocols \cup {"ack", "wait"}, sent : Nat]

TypeOK ==
  /\ inbox \in [Sides -> Seq(Packet)]
  /\ hand \in [Sides -> Seq(Packet)]
  /\ chan \in [Sides -> Seq(Packet)]
  /\ outbox \in [Sides -> Seq(Packet)]
  /\ \A s \in Sides :
       Len(hand[s]) <= 1 /\ Len(chan[s]) <= Capacity /\ Len(outbox[s]) <= Buffer
  /\ loop \in {"select", "drain", "ended"}
  /\ job \in Seq(Job) /\ Len(job) <= 1
  /\ protocol \in Protocols
  /\ posted \in Nat
  /\ cursor \in 0..posted
  /\ peer \in [Sides -> Peer]
  /\ confused \in {"none"} \cup Kinds

Init ==
  /\ inbox = [s \in Sides |-> <<>>]
  /\ hand = [s \in Sides |-> <<>>]
  /\ chan = [s \in Sides |-> <<>>]
  /\ outbox = [s \in Sides |-> <<>>]
  /\ loop = "select"
  /\ job = <<>>
  /\ protocol = "Config"
  /\ posted = 0
  /\ cursor = 0
  /\ peer = [s \in Sides |-> [there |-> TRUE, proto |-> "Config", sent |-> 0]]
  /\ confused = "none"

-----------------------------------------------------------------------------
(* The two sides and the other players. *)

\* What each side may send next, and the protocol it is in afterwards.
MaySend(s, kind, text, next) ==
  LET proto == peer[s].proto IN
  IF kind = "command"
  THEN s = "client" /\ proto = "Play" /\ text \in Offered /\ next = "Play"
  ELSE /\ text = None
       /\ \/ kind = "data" /\ proto \in Protocols /\ next = proto
          \/ s = "client" /\ kind = "finish" /\ proto = "ack" /\ next = "Play"
          \/ s = "backend" /\ kind = "finish" /\ proto = "Config" /\ next = "wait"
          \/ s = "backend" /\ kind = "commands" /\ proto = "Play" /\ next = "Play"

Send(s, kind, text, next) ==
  /\ peer[s].there
  /\ peer[s].sent < MaxSent[s]
  /\ MaySend(s, kind, text, next)
  /\ inbox' = [inbox EXCEPT ![s] = IF loop = "ended" THEN @ ELSE Append(@,
        [kind |-> kind, text |-> text,
         proto |-> IF peer[s].proto = "Play" THEN "Play" ELSE "Config",
         n |-> peer[s].sent + 1])]
  /\ peer' = [peer EXCEPT ![s].proto = next, ![s].sent = @ + 1]
  /\ UNCHANGED <<hand, chan, outbox, loop, job, protocol, posted, cursor, confused>>

\* The connection is closed: what is under way to that side is lost.
Leave(s) ==
  /\ peer[s].there
  /\ inbox' = [inbox EXCEPT ![s] = IF loop = "ended" THEN @ ELSE Append(@, Eof)]
  /\ outbox' = [outbox EXCEPT ![s] = <<>>]
  /\ peer' = [peer EXCEPT ![s].there = FALSE]
  /\ UNCHANGED <<hand, chan, loop, job, protocol, posted, cursor>>

HangUp(s) == Leave(s) /\ UNCHANGED confused

\* The protocol a side decodes what it reads in.
Decodes(s) == IF peer[s].proto \in {"Config", "wait"} THEN "Config" ELSE "Play"

\* A packet of another protocol is a decoding error, on which a side disconnects.
Receive(s) ==
  /\ outbox[s] # <<>>
  /\ LET p == Head(outbox[s]) IN
     \/ /\ p.proto # Decodes(s)
        /\ Leave(s)
        /\ confused' = p.kind
     \/ /\ p.proto = Decodes(s)
        /\ outbox' = [outbox EXCEPT ![s] = Tail(@)]
        /\ peer' = [peer EXCEPT ![s].proto =
              IF p.kind # "finish" THEN @ ELSE IF s = "client" THEN "ack" ELSE "Play"]
        /\ UNCHANGED <<inbox, hand, chan, loop, job, protocol, posted, cursor, confused>>

\* ProxyServer::broadcast, by any other task.
Post ==
  /\ posted < MaxPosted
  /\ posted' = posted + 1
  /\ UNCHANGED <<inbox, hand, chan, outbox, loop, job, protocol, cursor, peer, confused>>

-----------------------------------------------------------------------------
(* The reader tasks *)

Read(s) ==
  /\ loop # "ended"
  /\ inbox[s] # <<>>
  /\ hand[s] = <<>>
  /\ hand' = [hand EXCEPT ![s] = <<Head(inbox[s])>>]
  /\ inbox' = [inbox EXCEPT ![s] = Tail(@)]
  /\ UNCHANGED <<chan, outbox, loop, job, protocol, posted, cursor, peer, confused>>

\* Mutation: the last place of the channel is never used.
HandOverOffByOne(s) ==
  /\ hand[s] # <<>>
  /\ Len(chan[s]) + 1 < Capacity
  /\ chan' = [chan EXCEPT ![s] = Append(@, hand[s][1])]
  /\ hand' = [hand EXCEPT ![s] = <<>>]
  /\ UNCHANGED <<inbox, outbox, loop, job, protocol, posted, cursor, peer, confused>>

\* Mutation: the channel is unbounded.
HandOverUnbounded(s) ==
  /\ hand[s] # <<>>
  /\ chan' = [chan EXCEPT ![s] = Append(@, hand[s][1])]
  /\ hand' = [hand EXCEPT ![s] = <<>>]
  /\ UNCHANGED <<inbox, outbox, loop, job, protocol, posted, cursor, peer, confused>>

\* Mutation: a reader whose socket fails ends without a word.
HandOverSilent(s) ==
  /\ hand[s] # <<>>
  /\ Len(chan[s]) < Capacity
  /\ chan' = [chan EXCEPT ![s] = IF hand[s] = <<Eof>> THEN @ ELSE Append(@, hand[s][1])]
  /\ hand' = [hand EXCEPT ![s] = <<>>]
  /\ UNCHANGED <<inbox, outbox, loop, job, protocol, posted, cursor, peer, confused>>

\* The send into the channel waits for room.
HandOver(s) ==
  /\ hand[s] # <<>>
  /\ Len(chan[s]) < Capacity
  /\ chan' = [chan EXCEPT ![s] = Append(@, hand[s][1])]
  /\ hand' = [hand EXCEPT ![s] = <<>>]
  /\ UNCHANGED <<inbox, outbox, loop, job, protocol, posted, cursor, peer, confused>>

-----------------------------------------------------------------------------
(* The forwarder task *)

\* The session is over: the readers are aborted, channels and sockets closed.
End ==
  /\ loop' = "ended"
  /\ job' = <<>>
  /\ chan' = [s \in Sides |-> <<>>]
  /\ hand' = [s \in Sides |-> <<>>]
  /\ inbox' = [s \in Sides |-> <<>>]
  /\ UNCHANGED <<outbox, protocol, posted, cursor, peer, confused>>

\* The forwarder takes the next packet from a channel.
Take(s, stage) ==
  /\ loop = stage
  /\ job = <<>>
  /\ chan[s] # <<>>
  /\ chan' = [chan EXCEPT ![s] = Tail(@)]

Start(of, packet, to, out) ==
  job' = <<[of |-> of, packet |-> packet, to |-> to, out |-> out]>>

\* A channel is at its end: backend_rx or client_rx yields an error.
Eofs(s, stage) ==
  /\ loop = stage
  /\ job = <<>>
  /\ chan[s] # <<>>
  /\ Head(chan[s]).kind = "eof"
  /\ End

\* Mutation: the backend's end of the configuration counts, not the client's.
TakeBackendPacketTracks ==
  LET p == Head(chan["backend"]) IN
  /\ Take("backend", "select")
  /\ p.kind # "eof"
  /\ Start("backend", p, "client",
           IF protocol = "Play" /\ p.kind = "commands" THEN [p EXCEPT !.kind = "tree"] ELSE p)
  /\ protocol' = IF p.kind = "finish" THEN "Play" ELSE protocol
  /\ UNCHANGED <<inbox, hand, outbox, loop, posted, cursor, peer, confused>>

\* handle_backend_packet: in Play the client gets the proxy's command tree in place
\* of the backend's.
TakeBackendPacket ==
  LET p == Head(chan["backend"]) IN
  /\ Take("backend", "select")
  /\ p.kind # "eof"
  /\ Start("backend", p, "client",
           IF protocol = "Play" /\ p.kind = "commands" THEN [p EXCEPT !.kind = "tree"] ELSE p)
  /\ UNCHANGED <<inbox, hand, outbox, loop, protocol, posted, cursor, peer, confused>>

\* Mutation: the client's end of the configuration is noted and not passed on.
TakeClientPacketKeepsFinish ==
  LET p == Head(chan["client"]) IN
  /\ Take("client", "select")
  /\ p.kind # "eof"
  /\ protocol = "Config" \/ p.kind # "command" \/ Meaning(p.text) = "forward"
  /\ protocol' = IF p.kind = "finish" THEN "Play" ELSE protocol
  /\ IF p.kind = "finish" THEN UNCHANGED job ELSE Start("client", p, "backend", p)
  /\ UNCHANGED <<inbox, hand, outbox, loop, posted, cursor, peer, confused>>

\* handle_client_packet, of what is not the proxy's: the client's own end of the
\* configuration starts Play.
TakeClientPacket ==
  LET p == Head(chan["client"]) IN
  /\ Take("client", "select")
  /\ p.kind # "eof"
  /\ protocol = "Config" \/ p.kind # "command" \/ Meaning(p.text) = "forward"
  /\ protocol' = IF p.kind = "finish" THEN "Play" ELSE protocol
  /\ Start("client", p, "backend", p)
  /\ UNCHANGED <<inbox, hand, outbox, loop, posted, cursor, peer, confused>>

\* handle_client_packet, of a command.  /server always asks the registry.  /start and
\* /status first look for a number and for the instance, and may answer from that.
TakeCommand ==
  LET p == Head(chan["client"]) IN
  /\ Take("client", "select")
  /\ protocol = "Play" /\ p.kind = "command" /\ Meaning(p.text) # "forward"
  /\ \/ Start("client", p, "proxy", p)
     \/ Meaning(p.text) \in {"start", "status"} /\ Start("client", p, "client", Own("reply"))
  /\ UNCHANGED <<inbox, hand, outbox, loop, protocol, posted, cursor, peer, confused>>

\* The guard is granted, or start_pr returns.  /server with a known name answers with
\* a Transfer, a /start that succeeds has no answer, everything else has a reply.
CommandGoesOn ==
  /\ job # <<>>
  /\ job[1].to = "proxy"
  /\ LET p == job[1].packet IN
     \/ Start("client", p, "client", Own("reply"))
     \/ Meaning(p.text) = "switch" /\ Start("client", p, "client", Own("transfer"))
     \/ Meaning(p.text) = "start" /\ job' = <<>>
  /\ UNCHANGED <<inbox, hand, chan, outbox, loop, protocol, posted, cursor, peer, confused>>

\* Mutation: a receiver that lags skips all there is, also what the ring still keeps.
TakeBroadcastSkips ==
  /\ loop = "select"
  /\ job = <<>>
  /\ cursor < posted
  /\ \/ /\ posted - cursor > Ring
        /\ cursor' = posted
        /\ UNCHANGED job
     \/ /\ posted - cursor <= Ring
        /\ cursor' = cursor + 1
        /\ Start("ring", News(cursor + 1), "client", News(cursor + 1))
  /\ UNCHANGED <<inbox, hand, chan, outbox, loop, protocol, posted, peer, confused>>

\* Mutation: a broadcast cancels the write that is awaited.
TakeBroadcastPreempts ==
  /\ loop = "select"
  /\ cursor < posted
  /\ cursor' = cursor + 1
  /\ Start("ring", News(cursor + 1), "client", News(cursor + 1))
  /\ UNCHANGED <<inbox, hand, chan, outbox, loop, protocol, posted, peer, confused>>

\* broadcast_rx: a receiver that lags skips to what the ring still keeps, without a
\* message.
TakeBroadcast ==
  /\ loop = "select"
  /\ job = <<>>
  /\ cursor < posted
  /\ \/ /\ posted - cursor > Ring
        /\ cursor' = posted - Ring
        /\ UNCHANGED job
     \/ /\ posted - cursor <= Ring
        /\ cursor' = cursor + 1
        /\ Start("ring", News(cursor + 1), "client", News(cursor + 1))
  /\ UNCHANGED <<inbox, hand, chan, outbox, loop, protocol, posted, peer, confused>>

\* The write returns.  A Transfer begins the drain; a write to a side that has left
\* is lost without notice.
Write ==
  /\ job # <<>>
  /\ LET j == job[1] IN
     /\ j.to \in Sides
     /\ peer[j.to].there => Len(outbox[j.to]) < Buffer
     /\ outbox' = IF peer[j.to].there
                  THEN [outbox EXCEPT ![j.to] = Append(@, j.out)] ELSE outbox
     /\ loop' = IF j.out.kind = "transfer" THEN "drain" ELSE loop
  /\ job' = <<>>
  /\ UNCHANGED <<inbox, hand, chan, protocol, posted, cursor, peer, confused>>

\* The write fails.  For a broadcast or in the drain that is ignored.
WriteFails ==
  /\ job # <<>>
  /\ job[1].to \in Sides
  /\ ~peer[job[1].to].there
  /\ IF job[1].of = "ring" \/ loop = "drain"
     THEN /\ job' = <<>>
          /\ UNCHANGED <<inbox, hand, chan, outbox, loop, protocol, posted, cursor, peer,
                         confused>>
     ELSE End

\* The drain passes on what the backend sends, unchanged, and ignores its end.
DrainBackend ==
  LET p == Head(chan["backend"]) IN
  /\ Take("backend", "drain")
  /\ IF p.kind = "eof" THEN UNCHANGED job ELSE Start("backend", p, "client", p)
  /\ UNCHANGED <<inbox, hand, outbox, loop, protocol, posted, cursor, peer, confused>>

\* What the client still sends is ignored.
DrainClient ==
  /\ Take("client", "drain")
  /\ Head(chan["client"]).kind # "eof"
  /\ UNCHANGED <<inbox, hand, outbox, loop, job, protocol, posted, cursor, peer, confused>>

\* Mutation: the timer is only looked at when the backend is silent.
DrainTimeoutIfSilent ==
  /\ loop = "drain"
  /\ job = <<>>
  /\ ~peer["backend"].there
  /\ End

\* Two seconds have passed.  The timer is not polled during a write.
DrainTimeout ==
  /\ loop = "drain"
  /\ job = <<>>
  /\ End

\* The client has closed its connection: the session ends, in the select and the drain.
ClientEof == Eofs("client", "select") \/ Eofs("client", "drain")

\* The drain goes on without the backend.
BackendEof == Eofs("backend", "select")

-----------------------------------------------------------------------------

SideSteps(s) ==
  \/ \E kind \in Kinds, text \in Offered \cup {None}, next \in {"Config", "Play", "wait"} :
        Send(s, kind, text, next)
  \/ HangUp(s)
  \/ Receive(s)

Next ==
  \/ \E s \in Sides : SideSteps(s) \/ Read(s) \/ HandOver(s)
  \/ Post
  \/ TakeBackendPacket \/ TakeClientPacket \/ TakeCommand \/ TakeBroadcast
  \/ CommandGoesOn \/ Write \/ WriteFails
  \/ DrainBackend \/ DrainClient \/ DrainTimeout
  \/ ClientEof \/ BackendEof

\* The readers and the writes go on when they can.  select! chooses at random among the
\* branches that are ready: none is passed over for ever.  The two sides, the holders of
\* the registry's lock, GitHub and Jenkins owe nothing.
Fairness ==
  /\ \A s \in Sides : WF_vars(Read(s)) /\ WF_vars(HandOver(s))
  /\ WF_vars(Write)
  /\ SF_vars(TakeBackendPacket \/ BackendEof \/ DrainBackend)
  /\ SF_vars(TakeClientPacket \/ TakeCommand \/ DrainClient \/ ClientEof)
  /\ SF_vars(TakeBroadcast)
  /\ SF_vars(DrainTimeout)

Spec == Init /\ [][Next]_vars /\ Fairness

-----------------------------------------------------------------------------
(* Safety *)

\* The forwarder reads every packet in the protocol it was sent in: it looks for
\* commands and for the command tree neither too early nor too late, although it
\* learns of the change only from the client's own packet.
ProtocolTracked ==
  loop = "select" /\ job = <<>> =>
    \A s \in Sides : chan[s] # <<>> /\ Head(chan[s]).kind \notin {"eof", "finish"} =>
      Head(chan[s]).proto = protocol

\* No side is ever sent a packet of another protocol than the one it is in, but for
\* the broadcasts, which are sent whatever the protocol is.
OnlyBroadcastsConfuse == confused \in {"none", "broadcast"}

\* No command that the client is offered reaches the backend.
CommandsAreServed ==
  \A i \in 1..Len(outbox["backend"]) : outbox["backend"][i].kind # "command"

-----------------------------------------------------------------------------
(* Liveness *)

\* The forwarder waits for a side that is there and does not read.
Stuck(s) ==
  /\ job # <<>>
  /\ job[1].to = s
  /\ peer[s].there
  /\ Len(outbox[s]) = Buffer

\* It waits for somebody else: for either side to read, for the registry's read guard,
\* which a reply to another client's /status can keep from it (RegistryLock), or for
\* GitHub and Jenkins in start_pr.  None of these waits has a timeout.
Waits == Stuck("client") \/ Stuck("backend") \/ (job # <<>> /\ job[1].to = "proxy")

\* A session ends with its client, unless one of these waits never ends: the end of the
\* client is only looked at between two packets.
EndsWithClient == []<>~Waits => (~peer["client"].there ~> loop = "ended")

\* Unless the client is there and never reads again, a session that has told it to
\* go ends.
DrainOver == []<>~Stuck("client") => (loop = "drain" ~> loop = "ended")

\* What a side has sent and the proxy has not dealt with.
Held(s) == IF job # <<>> /\ job[1].of = s THEN <<job[1].packet>> ELSE <<>>
Pipe(s) == Held(s) \o chan[s] \o hand[s] \o inbox[s]

\* Unless one of these waits never ends, everything sent is dealt with.
DealtWith == []<>~Waits => \A s \in Sides : Pipe(s) # <<>> ~> Pipe(s) = <<>>

\* Unless one of these waits never ends, every single broadcast is written to the
\* client, but for those that Ring later ones have pushed out of the ring and those
\* still unread when the session is transferred or ends.
NewsArrive ==
  []<>~Waits => \A n \in 1..MaxPosted :
    posted >= n /\ cursor < n
      ~> \/ \E i \in 1..Len(outbox["client"]) : outbox["client"][i] = News(n)
         \/ posted - n >= Ring
         \/ loop # "select"

-----------------------------------------------------------------------------
(* What a session promises its two sides (Relay). *)

Streams == [s \in Sides |-> Pipe(s)]
There == {s \in Sides : peer[s].there}
Phase == CASE loop = "select" -> "open" [] loop = "drain" -> "transfer" [] OTHER -> "over"

Promise == INSTANCE Relay WITH
  pipe <- Streams, tray <- outbox, there <- There, phase <- Phase

\* Readers, channels, select and drain together lose nothing, double nothing and keep
\* the order of each stream for as long as the session lasts.
ImplementsRelay == Promise!Spec

-----------------------------------------------------------------------------
(* What a comment says and the code does not do. *)

\* proxy.rs:75 "Broadcast channel for sending messages to all connected players": a
\* connected player can read a broadcast.
BroadcastsAreReadable == confused # "broadcast"

=============================================================================
