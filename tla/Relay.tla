-------------------------------- MODULE Relay --------------------------------
(***************************************************************************)
(* What a proxied session promises to its two sides, whatever tasks and    *)
(* channels it is built from: each side's packets reach the other in their *)
(* order, none lost, none twice, none made up, for as long as the session  *)
(* lasts.  Only three things happen to a packet: it is passed on, replaced *)
(* by the proxy's command tree, or answered by the proxy.  A session ends  *)
(* when a side has gone, and may end once the client was told to transfer. *)
(***************************************************************************)
EXTENDS Sequences

VARIABLES
  pipe,   \* what each side has sent and the proxy has not dealt with
  tray,   \* what the proxy has passed to each side and it has not read
  there,  \* the sides that have not gone
  phase   \* "open", "transfer" or "over"

vars == <<pipe, tray, there, phase>>

Sides == {"client", "backend"}
Other(s) == IF s = "client" THEN "backend" ELSE "client"

Init ==
  /\ pipe = [s \in Sides |-> <<>>]
  /\ tray = [s \in Sides |-> <<>>]
  /\ there = Sides
  /\ phase = "open"

Newest(q) == q[Len(q)]

\* The queue after gets one more packet than the queue before, at its end.
Grows(before, after) == after # <<>> /\ after = Append(before, Newest(after))

\* The stream of a side gets longer, unless the session is over and nobody listens.
Sends(s) ==
  IF phase = "over" THEN UNCHANGED pipe
  ELSE Grows(pipe[s], pipe'[s]) /\ pipe' = [pipe EXCEPT ![s] = pipe'[s]]

Send(s) ==
  /\ s \in there
  /\ Sends(s)
  /\ UNCHANGED <<tray, there, phase>>

Read(s) ==
  /\ tray[s] # <<>>
  /\ tray' = [tray EXCEPT ![s] = Tail(@)]
  /\ UNCHANGED <<pipe, there, phase>>

\* A side goes: its stream ends, and what it has not read is lost.
Leave(s) ==
  /\ s \in there
  /\ there' = there \ {s}
  /\ Sends(s)
  /\ phase # "over" => Newest(pipe'[s]).kind = "eof"
  /\ tray' = [tray EXCEPT ![s] = <<>>]
  /\ UNCHANGED phase

\* What is passed to a side that has gone is lost.
Put(s, p) == tray' = IF s \in there THEN [tray EXCEPT ![s] = Append(@, p)] ELSE tray

Oldest(s) == pipe[s] # <<>> /\ pipe' = [pipe EXCEPT ![s] = Tail(@)]

\* The oldest packet of a stream is passed on.  While the session is open, the client
\* never sees the backend's own command tree.
Forward(s) ==
  LET p == Head(pipe[s]) IN
  /\ Oldest(s)
  /\ phase # "over"
  /\ p.kind # "eof"
  /\ Put(Other(s), IF s = "backend" /\ p.kind = "commands" /\ phase = "open"
                   THEN [p EXCEPT !.kind = "tree"] ELSE p)
  /\ UNCHANGED <<there, phase>>

\* The client is told something of one of these kinds by the proxy itself.
Tell(kinds) ==
  IF "client" \in there
  THEN /\ Grows(tray["client"], tray'["client"])
       /\ tray' = [tray EXCEPT !["client"] = tray'["client"]]
       /\ Newest(tray'["client"]).kind \in kinds
  ELSE UNCHANGED tray

\* A command of the client is taken, and answered or not; the answer may be to transfer.
Answer ==
  /\ Oldest("client")
  /\ phase = "open"
  /\ Head(pipe["client"]).kind = "command"
  /\ \/ UNCHANGED <<tray, phase>>
     \/ Tell({"reply"}) /\ UNCHANGED phase
     \/ Tell({"transfer"}) /\ phase' = "transfer"
  /\ UNCHANGED there

\* The client is told something that neither side has asked for.
Inform ==
  /\ phase = "open"
  /\ Tell({"broadcast"})
  /\ UNCHANGED <<pipe, there, phase>>

\* After the transfer packets are dropped, but never reordered.
Drop(s) ==
  /\ phase = "transfer"
  /\ Oldest(s)
  /\ UNCHANGED <<tray, there, phase>>

\* The session ends: a side has gone or said so, or was told to transfer.
Close ==
  /\ phase = "transfer" \/ (phase = "open" /\ there # Sides)
  /\ phase' = "over"
  /\ pipe' = [s \in Sides |-> <<>>]
  /\ UNCHANGED <<tray, there>>

Next ==
  \/ \E s \in Sides : Send(s) \/ Leave(s) \/ Read(s) \/ Forward(s) \/ Drop(s)
  \/ Answer \/ Inform \/ Close

Spec == Init /\ [][Next]_vars

=============================================================================
