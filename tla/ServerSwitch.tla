---------------------------- MODULE ServerSwitch -----------------------------
(***************************************************************************)
(* How a player gets from one backend to another: ClientHandler::run takes *)
(* a connection from the hello to the backend, PacketForwarder serves it,  *)
(* /server stores the player's target in pending_switches and answers with *)
(* a Transfer, the client comes back on a new connection, and the handler  *)
(* of that one finds the target.                                           *)
(*                                                                         *)
(* One action is one stretch of a handler between two awaits or two locks. *)
(* The client is external: it has at most one connection that it still     *)
(* uses, it may hang up at any time, and the proxy notices late.           *)
(*                                                                         *)
(* Abstractions.  Packets other than the hello, the login acknowledgement, *)
(* /server and the Transfer are left out, and so is the time in which a    *)
(* connection is not yet in Play and cannot carry a command.  One /server  *)
(* may be on its way unread; what follows an accepted one is discarded by  *)
(* the drain.  Server pings end without a trace.  A dynamic backend comes  *)
(* and goes at will, as the lifecycle decides.  Who else holds the         *)
(* registry's lock is left to RegistryLock: here a wait for it may last    *)
(* for ever.  A client that has gone has closed its connection.            *)
(***************************************************************************)

CONSTANTS
  Players,   \* UUIDs
  Sessions,  \* TCP connections, used again when both ends are done
  Servers,   \* backend names
  Default,   \* config.default_server
  None       \* an absent value

\* config.rs:191: the default server is one of the static backends.
ASSUME ServerAssumption == Default \in Servers /\ None \notin Servers \cup Players \cup Sessions

VARIABLES
  registry,  \* names in the BackendRegistry
  pending,   \* ProxyServer.pending_switches
  session,   \* the handler of each connection
  client,    \* each player's client: the connection it uses
  promised,  \* history: the server of the Transfer p received and no login has used up
  late       \* history: players for whom the proxy carried out what they had
             \* asked on a connection that they had already left

vars == <<registry, pending, session, client, promised, late>>

Maybe(S) == S \cup {None}

\* "hello" and "acked": the client's packet waits to be read.  "busy": the forwarder
\* is in an await of other packets and commands.  "check": /server waits for the
\* registry.  "closed": the proxy has closed the connection and the client has not
\* noticed.
Stages == {"free", "hello", "login", "acked", "lookup", "connect", "forward", "busy",
           "check", "store", "transfer", "drain", "closed"}

\* The stages from the choice of a backend to the end of the connection.
Placed == {"lookup", "connect", "forward", "busy", "check", "store", "transfer", "drain"}

Session == [stage : Stages, player : Maybe(Players),
            server : Maybe(Servers), wish : Maybe(Servers), told : BOOLEAN]

Free == [stage |-> "free", player |-> None, server |-> None,
         wish |-> None, told |-> FALSE]

TypeOK ==
  /\ registry \subseteq Servers
  /\ pending \in [Players -> Maybe(Servers)]
  /\ session \in [Sessions -> Session]
  /\ client \in [Players -> Maybe(Sessions)]
  /\ \A s \in Sessions : session[s].stage \in Placed => session[s].server \in Servers
  /\ promised \in [Players -> Maybe(Servers)]
  /\ late \subseteq Players

Init ==
  /\ registry = {Default}
  /\ pending = [p \in Players |-> None]
  /\ session = [s \in Sessions |-> Free]
  /\ client = [p \in Players |-> None]
  /\ promised = [p \in Players |-> None]
  /\ late = {}

-----------------------------------------------------------------------------
(* The clients. *)

\* The client still uses connection s.
Open(s) == \E p \in Players : client[p] = s

GoTo(s, stage) == session' = [session EXCEPT ![s].stage = stage]

\* The TCP connection, the intention and the hello.
Connect(p, s) ==
  /\ client[p] = None
  /\ session[s] = Free
  /\ session' = [session EXCEPT ![s] =
        [Free EXCEPT !.stage = "hello", !.player = p]]
  /\ client' = [client EXCEPT ![p] = s]
  /\ UNCHANGED <<registry, pending, promised, late>>

Acknowledge(s) ==
  /\ Open(s)
  /\ session[s].stage = "login"
  /\ GoTo(s, "acked")
  /\ UNCHANGED <<registry, pending, client, promised, late>>

\* The player types /server name, for any name.
TypeServer(s, name) ==
  /\ Open(s)
  /\ session[s].stage \in {"forward", "busy"}
  /\ session[s].wish = None
  /\ session' = [session EXCEPT ![s].wish = name]
  /\ UNCHANGED <<registry, pending, client, promised, late>>

\* The client of p closes its connection.
Close(p) ==
  LET s == client[p] IN
  /\ s # None
  /\ client' = [client EXCEPT ![p] = None]
  /\ session' = IF session[s].stage = "closed" THEN [session EXCEPT ![s] = Free] ELSE session
  /\ UNCHANGED <<registry, pending, late>>

FollowTransfer(p) ==
  /\ client[p] # None
  /\ session[client[p]].told
  /\ Close(p)
  /\ UNCHANGED promised

\* The player quits or loses the connection; a Transfer that reached it is not followed.
HangUp(p) ==
  /\ Close(p)
  /\ promised' = [promised EXCEPT ![p] = None]

-----------------------------------------------------------------------------
(* ClientHandler::run *)

\* Mutation: the connection is left half closed.
EndHalfClosed(s) == session' = [session EXCEPT ![s].stage = "closed"]

\* The handler returns and its sockets are closed.
End(s) ==
  session' = [session EXCEPT ![s] = IF Open(s) THEN [@ EXCEPT !.stage = "closed"] ELSE Free]

\* The packet that s's client sent is acted upon although the client has left.
NoteLate(s) == late' = IF Open(s) THEN late ELSE late \cup {session[s].player}

\* S_HELLO: login success is sent at once.
HandleHello(s) ==
  /\ session[s].stage = "hello"
  /\ GoTo(s, "login") \/ (~Open(s) /\ End(s))
  /\ UNCHANGED <<registry, pending, client, promised, late>>

\* Mutation: without a pending switch there is no target.
HandleAckNoDefault(s) ==
  LET p == session[s].player IN
  /\ session[s].stage = "acked"
  /\ session' = [session EXCEPT ![s].stage = "lookup", ![s].server = pending[p]]
  /\ pending' = [pending EXCEPT ![p] = None]
  /\ promised' = [promised EXCEPT ![p] = None]
  /\ NoteLate(s)
  /\ UNCHANGED <<registry, client>>

\* Mutation: the pending switch is read and left in the map.
HandleAckPeeks(s) ==
  LET p == session[s].player IN
  /\ session[s].stage = "acked"
  /\ session' = [session EXCEPT ![s].stage = "lookup",
                   ![s].server = IF pending[p] # None THEN pending[p] ELSE Default]
  /\ promised' = [promised EXCEPT ![p] = None]
  /\ NoteLate(s)
  /\ UNCHANGED <<registry, pending, client>>

\* S_LOGIN_ACKNOWLEDGED: get_target_server takes the player's pending switch;
\* without one the player goes to the default server.
HandleAck(s) ==
  LET p == session[s].player IN
  /\ session[s].stage = "acked"
  /\ session' = [session EXCEPT ![s].stage = "lookup",
                   ![s].server = IF pending[p] # None THEN pending[p] ELSE Default]
  /\ pending' = [pending EXCEPT ![p] = None]
  /\ promised' = [promised EXCEPT ![p] = None]
  /\ NoteLate(s)
  /\ UNCHANGED <<registry, client>>

\* The registry's read lock is got.  "Backend server not found" ends the session; the
\* pending switch is gone by then.
Lookup(s) ==
  /\ session[s].stage = "lookup"
  /\ IF session[s].server \in registry THEN GoTo(s, "connect") ELSE End(s)
  /\ UNCHANGED <<registry, pending, client, promised, late>>

\* BackendConnector::connect, and the forwarder starts.
ConnectBackend(s) ==
  /\ session[s].stage = "connect"
  /\ GoTo(s, "forward") \/ End(s)
  /\ UNCHANGED <<registry, pending, client, promised, late>>

-----------------------------------------------------------------------------
(* PacketForwarder *)

\* Mutation: only the login reader notices that the client is gone.
HandleEofInLogin(s) ==
  /\ session[s].stage = "login"
  /\ ~Open(s)
  /\ End(s)
  /\ UNCHANGED <<registry, pending, client, promised, late>>

\* The reader meets the end of the client's stream, behind what was sent before.
HandleEof(s) ==
  /\ \/ session[s].stage \in {"login", "drain"}
     \/ session[s].stage = "forward" /\ session[s].wish = None
  /\ ~Open(s)
  /\ End(s)
  /\ UNCHANGED <<registry, pending, client, promised, late>>

\* The backend closes, or one of its packets cannot be written to the client any more.
BackendCloses(s) ==
  /\ session[s].stage = "forward"
  /\ End(s)
  /\ UNCHANGED <<registry, pending, client, promised, late>>

\* The select loop takes a packet, a broadcast or another command, and awaits what that
\* needs: the registry's lock, the backend that is written to, all of start_pr.
Suspend(s) ==
  /\ session[s].stage = "forward"
  /\ GoTo(s, "busy")
  /\ UNCHANGED <<registry, pending, client, promised, late>>

\* It is done with it, or an error ends the session.
Resume(s) ==
  /\ session[s].stage = "busy"
  /\ GoTo(s, "forward") \/ End(s)
  /\ UNCHANGED <<registry, pending, client, promised, late>>

\* The select loop takes the /server, which waits for the registry's read lock.
TakeServer(s) ==
  /\ session[s].stage = "forward"
  /\ session[s].wish # None
  /\ GoTo(s, "check")
  /\ UNCHANGED <<registry, pending, client, promised, late>>

\* switch_server has the lock and looks the name up.  For an unknown one the player is
\* told so, and the session ends if that fails.
SwitchServer(s) ==
  /\ session[s].stage = "check"
  /\ \/ /\ session[s].wish \in registry
        /\ GoTo(s, "store")
     \/ /\ session[s].wish \notin registry
        /\ session' = [session EXCEPT ![s].stage = "forward", ![s].wish = None]
     \/ /\ session[s].wish \notin registry
        /\ ~Open(s)
        /\ End(s)
  /\ UNCHANGED <<registry, pending, client, promised, late>>

\* Mutation: nothing is stored for the server the player is on.
StoreTargetUnlessCurrent(s) ==
  LET r == session[s] IN
  /\ r.stage = "store"
  /\ pending' = [pending EXCEPT ![r.player] = IF r.wish = r.server THEN @ ELSE r.wish]
  /\ GoTo(s, "transfer")
  /\ NoteLate(s)
  /\ UNCHANGED <<registry, client, promised>>

\* set_target_server
StoreTarget(s) ==
  /\ session[s].stage = "store"
  /\ pending' = [pending EXCEPT ![session[s].player] = session[s].wish]
  /\ GoTo(s, "transfer")
  /\ NoteLate(s)
  /\ UNCHANGED <<registry, client, promised>>

\* The Transfer is written, then the drain begins.  Written to a client that has
\* gone it is lost, or the error ends the session.
SendTransfer(s) ==
  /\ session[s].stage = "transfer"
  /\ \/ /\ Open(s)
        /\ session' = [session EXCEPT ![s].stage = "drain", ![s].told = TRUE]
        /\ promised' = [promised EXCEPT ![session[s].player] = session[s].wish]
     \/ /\ ~Open(s)
        /\ GoTo(s, "drain") \/ End(s)
        /\ UNCHANGED promised
  /\ UNCHANGED <<registry, pending, client, late>>

\* drain_until_client_disconnects: two seconds have passed.
DrainTimeout(s) ==
  /\ session[s].stage = "drain"
  /\ End(s)
  /\ UNCHANGED <<registry, pending, client, promised, late>>

-----------------------------------------------------------------------------
(* The registry, written by the lifecycle. *)

AddDynamic(name) ==
  /\ registry' = registry \cup {name}
  /\ registry' # registry
  /\ UNCHANGED <<pending, session, client, promised, late>>

RemoveDynamic(name) ==
  /\ name \in registry \ {Default}
  /\ registry' = registry \ {name}
  /\ UNCHANGED <<pending, session, client, promised, late>>

-----------------------------------------------------------------------------
(* The proxy *)

\* The proxy stops and starts again.  Handlers and pending_switches are in memory only;
\* recovery registers the dynamic backends anew.  Whom a Transfer was sent to is served
\* like anybody who logs in.
Crash ==
  /\ registry' = {Default}
  /\ pending' = [p \in Players |-> None]
  /\ session' = [s \in Sessions |->
        IF Open(s) THEN [session[s] EXCEPT !.stage = "closed"] ELSE Free]
  /\ promised' = [p \in Players |-> None]
  /\ late' = {}
  /\ UNCHANGED client

-----------------------------------------------------------------------------

ClientSteps ==
  \/ \E p \in Players : FollowTransfer(p) \/ HangUp(p) \/ \E s \in Sessions : Connect(p, s)
  \/ \E s \in Sessions : Acknowledge(s) \/ \E name \in Servers : TypeServer(s, name)

\* The select loop takes what the client's reader has for it.
ReadClient(s) == TakeServer(s) \/ HandleEof(s)

\* What a handler does without waiting for anybody but its client.
HandlerSteps(s) ==
  \/ HandleHello(s)
  \/ HandleAck(s)
  \/ ReadClient(s)
  \/ StoreTarget(s)
  \/ SendTransfer(s)
  \/ DrainTimeout(s)

\* The ends of its waits for others: the registry's lock, the backend, start_pr.
AwaitedSteps(s) ==
  \/ Lookup(s)
  \/ ConnectBackend(s)
  \/ SwitchServer(s)
  \/ Suspend(s) \/ Resume(s)
  \/ BackendCloses(s)

RegistrySteps == \E name \in Servers : AddDynamic(name) \/ RemoveDynamic(name)

Next ==
  \/ ClientSteps
  \/ \E s \in Sessions : HandlerSteps(s) \/ AwaitedSteps(s)
  \/ RegistrySteps
  \/ Crash

\* Once the client has gone, reads from it and writes to it end, and so does the drain,
\* whose timer is polled again when its write fails.  What the reader delivers is taken
\* in the end, however often the select loop, which chooses at random, takes something
\* else.  Nothing is assumed of clients, backends and the lifecycle, nor of a wait for
\* the registry's lock, for the backend or for start_pr.
Fairness == \A s \in Sessions :
  /\ WF_vars(~Open(s) /\ HandlerSteps(s))
  /\ SF_vars(~Open(s) /\ ReadClient(s))

Spec == Init /\ [][Next]_vars /\ Fairness

-----------------------------------------------------------------------------
(* Safety *)

\* What the proxy told the player is still what it will do: until the login that
\* follows a Transfer, pending_switches holds the server the Transfer was sent
\* for, however hang-ups, stale entries and the ends of other connections fall,
\* provided that nothing was done for a connection the player had left and that
\* the proxy was not restarted.
PromiseKept == \A p \in Players \ late : promised[p] # None => pending[p] = promised[p]

\* Who sits at which backend, for the abstract specification: from the moment the
\* target is taken until the connection ends.
Seat(s) ==
  IF session[s].server = None \/ session[s].stage = "closed" THEN None
  ELSE [player |-> session[s].player, server |-> session[s].server]

Board == INSTANCE Switchboard WITH wish <- pending, seat <- [s \in Sessions |-> Seat(s)]

\* Two TCP connections, a lock and a map keep the promise of one sentence: a
\* player is seated at the server last asked for, once for each time of asking,
\* and otherwise at the default one, also after a restart.
ImplementsSwitchboard == Board!Spec

\* The inductive invariant.

\* A handler holds what its stage needs, and one that has ended is there only for
\* its client to notice.
HandlerOK(s) ==
  /\ session[s].stage = "free" => session[s] = Free
  /\ session[s].stage # "free" => session[s].player \in Players
  /\ session[s].stage = "closed" => Open(s)
  /\ session[s].stage \in {"hello", "login", "acked"} => session[s].server = None
  /\ session[s].stage \in {"check", "store", "transfer"} => session[s].wish # None

\* The connection a client uses is a connection of its player.
OwnConnection(p) ==
  LET s == client[p] IN
  s # None => session[s].stage # "free" /\ session[s].player = p

\* Once a login has been acted upon nothing is promised until its own Transfer, and
\* that Transfer is for the server that is stored.
NothingElsePromised(p) ==
  LET s == client[p] IN s # None =>
    /\ session[s].stage \in Placed \ {"drain"} => promised[p] = None
    /\ session[s].stage = "transfer" /\ p \notin late => pending[p] = session[s].wish

SwitchInv ==
  /\ TypeOK
  /\ \A s \in Sessions : HandlerOK(s)
  /\ \A p \in Players : OwnConnection(p) /\ NothingElsePromised(p)
  /\ PromiseKept

(* Liveness *)

\* The handler waits for somebody other than its client: for the registry's lock, which
\* another client's /status may hold (RegistryLock), for a backend to accept the login
\* or to read what it is sent, or for the calls of start_pr.  It does not notice its
\* client's going meanwhile.
Held(s) == session[s].stage \in {"lookup", "connect", "busy", "check"}

\* A connection whose client has gone is given up, whatever its handler was doing,
\* unless one of its waits for others lasts for ever: none of connect, the registry's
\* lock, the write to the backend and start_pr has a timeout.
Released == \A s \in Sessions : []<>~Held(s) =>
  (session[s].stage # "free" /\ ~Open(s) ~> session[s].stage = "free")

=============================================================================
