---------------------------- MODULE RegistryLock ----------------------------
(***************************************************************************)
(* The lock of the backend registry (ProxyServer::backends): sessions read *)
(* under it and the lifecycle loop writes under it.  tokio's RwLock is     *)
(* fair: who asks waits behind everybody who asked before, a reader behind *)
(* a waiting writer too.                                                   *)
(*                                                                         *)
(* One action is what a task does between two awaits.  What is modelled of *)
(* a session is where it takes and drops the read guard and what it awaits *)
(* meanwhile: the lock, a write to its client, or a call that may never    *)
(* return (the login to the backend, GitHub, Jenkins).                     *)
(***************************************************************************)
EXTENDS Integers, Sequences

CONSTANTS
  Clients,   \* players, each with at most one connection
  Backends,  \* dynamic backends the lifecycle registers
  Default,   \* the static backend
  Room       \* packets a client's socket takes before a write to it waits

ASSUME LockAssumption ==
  /\ Default \notin Backends
  /\ Room \in Nat \ {0}

VARIABLES
  queue,     \* the tasks that wait for the lock, the oldest first
  readers,   \* the sessions that hold the read guard
  writing,   \* the lifecycle holds the write guard
  session,   \* the sessions
  unread,    \* what each client has been sent and has not read
  there,     \* the clients whose connection is open
  dynamic,   \* dynamic_backends
  change     \* what the lifecycle is about to register or unregister, if anything

vars == <<queue, readers, writing, session, unread, there, dynamic, change>>

Lifecycle == "lifecycle"
ASSUME TasksAssumption == Lifecycle \notin Clients

Names == Backends \cup {Default}

\* at: out - no connection; idle - forwarding; asks - waits for the guard; holds - has
\* it; calls - awaits another service; writes - awaits a write to its client.
\* found: what the registry said.
Session ==
  [at : {"out", "idle", "asks", "holds", "calls", "writes"},
   op : {"login", "list", "switch", "start", "status", "answer"},
   name : Names, found : BOOLEAN]

NoChange == <<>>
Change == [op : {"add", "remove"}, name : Backends]

Init ==
  /\ queue = <<>>
  /\ readers = {}
  /\ writing = FALSE
  /\ session = [c \in Clients |->
                  [at |-> "out", op |-> "login", name |-> Default, found |-> FALSE]]
  /\ unread = [c \in Clients |-> 0]
  /\ there = {}
  /\ dynamic = {}
  /\ change = NoChange

Contains(name) == name \in dynamic \cup {Default}

-----------------------------------------------------------------------------
(* The lock *)

Request(t) == queue' = Append(queue, t)

Move(c, at) == session' = [session EXCEPT ![c].at = at]

Grant ==
  /\ queue # <<>>
  /\ ~writing
  /\ queue' = Tail(queue)
  /\ LET t == Head(queue) IN
     \/ /\ t = Lifecycle
        /\ readers = {}
        /\ writing' = TRUE
        /\ UNCHANGED <<readers, session>>
     \/ /\ t # Lifecycle
        /\ readers' = readers \cup {t}
        /\ Move(t, "holds")
        /\ UNCHANGED writing
  /\ UNCHANGED <<unread, there, dynamic, change>>

-----------------------------------------------------------------------------
(* The lifecycle loop *)

\* register_backend or unregister_backend asks for the lock.
Decide(op, b) ==
  /\ change = NoChange
  /\ op = IF b \in dynamic THEN "remove" ELSE "add"
  /\ change' = <<[op |-> op, name |-> b]>>
  /\ Request(Lifecycle)
  /\ UNCHANGED <<readers, writing, session, unread, there, dynamic>>

\* add_dynamic or remove_dynamic, and the guard is dropped.
Apply ==
  /\ writing
  /\ writing' = FALSE
  /\ dynamic' = IF change[1].op = "add" THEN dynamic \cup {change[1].name}
                ELSE dynamic \ {change[1].name}
  /\ change' = NoChange
  /\ UNCHANGED <<queue, readers, session, unread, there>>

-----------------------------------------------------------------------------
(* The clients *)

ClientReads(c) ==
  /\ unread[c] > 0
  /\ unread' = [unread EXCEPT ![c] = @ - 1]
  /\ UNCHANGED <<queue, readers, writing, session, there, dynamic, change>>

\* The session learns of it when it next writes or is idle.
Leave(c) ==
  /\ c \in there
  /\ there' = there \ {c}
  /\ unread' = [unread EXCEPT ![c] = 0]
  /\ UNCHANGED <<queue, readers, writing, session, dynamic, change>>

-----------------------------------------------------------------------------
(* The sessions *)

Ask(c, op, name) ==
  /\ session' = [session EXCEPT ![c] = [at |-> "asks", op |-> op, name |-> name,
                                        found |-> FALSE]]
  /\ Request(c)
  /\ UNCHANGED <<readers, writing, dynamic, change>>

\* A login acknowledgement; name is the stored target or the default server.
Login(c, name) ==
  /\ session[c].at = "out"
  /\ there' = there \cup {c}
  /\ unread' = [unread EXCEPT ![c] = 0]
  /\ Ask(c, "login", name)

\* The commands that look into the registry; /start and /status do for a PR that has no
\* instance.
Command(c, op, name) ==
  /\ session[c].at = "idle"
  /\ c \in there
  /\ \/ op = "list" /\ name = Default
     \/ op = "switch"
     \/ op \in {"start", "status"} /\ name \in Backends
  /\ UNCHANGED <<unread, there>>
  /\ Ask(c, op, name)

\* The commands that are answered without a look: /start and /status without a number,
\* and of a PR that has an instance.  /status tells a copy of its state.
Answer(c) ==
  /\ session[c].at = "idle"
  /\ c \in there
  /\ session' = [session EXCEPT ![c].at = "writes", ![c].op = "answer"]
  /\ UNCHANGED <<queue, readers, writing, unread, there, dynamic, change>>

\* What the backend sends.
Forward(c) ==
  /\ session[c].at = "idle"
  /\ c \in there
  /\ unread[c] < Room
  /\ unread' = [unread EXCEPT ![c] = @ + 1]
  /\ UNCHANGED <<queue, readers, writing, session, there, dynamic, change>>

EndIdle(c) ==
  /\ session[c].at = "idle"
  /\ c \notin there
  /\ Move(c, "out")
  /\ UNCHANGED <<queue, readers, writing, unread, there, dynamic, change>>

\* What the session does under its guard, and where it goes from there.
Look(c, op, at, held) ==
  /\ session[c].at = "holds"
  /\ session[c].op = op
  /\ session' = [session EXCEPT ![c].found = Contains(session[c].name), ![c].at = at]
  /\ readers' = IF held THEN readers ELSE readers \ {c}
  /\ UNCHANGED <<queue, writing, unread, dynamic, change>>

\* Mutation: the guard lives as long as the handler.
LookupInHandler(c) ==
  IF Contains(session[c].name)
  THEN Look(c, "login", "calls", TRUE) /\ UNCHANGED there
  ELSE Look(c, "login", "out", FALSE) /\ there' = there \ {c}

\* The login's lookup: without a backend the session ends.
Lookup(c) ==
  IF Contains(session[c].name)
  THEN Look(c, "login", "calls", FALSE) /\ UNCHANGED there
  ELSE Look(c, "login", "out", FALSE) /\ there' = there \ {c}

\* Mutation: the list is sent from inside the block.
ListServersInBlock(c) == Look(c, "list", "writes", TRUE) /\ UNCHANGED there

\* The list is sent when the guard is dropped.
ListServers(c) == Look(c, "list", "writes", FALSE) /\ UNCHANGED there

\* Told of an unknown server, or sent a Transfer.
SwitchServer(c) == Look(c, "switch", "writes", FALSE) /\ UNCHANGED there

\* Mutation: nothing drops the guard before the calls.
StartPrNoDrop(c) ==
  Look(c, "start", IF Contains(session[c].name) THEN "writes" ELSE "calls",
       ~Contains(session[c].name)) /\ UNCHANGED there

\* start_pr returns an error that is told, or drops the guard and calls GitHub.
StartPr(c) ==
  Look(c, "start", IF Contains(session[c].name) THEN "writes" ELSE "calls", FALSE)
  /\ UNCHANGED there

\* /status of a PR without an instance replies under the guard.
Status(c) == Look(c, "status", "writes", TRUE) /\ UNCHANGED there

\* The backend login or start_pr returns; both may fail.  No guard is left.
Returns(c) ==
  /\ session[c].at = "calls"
  /\ \/ Move(c, "idle") /\ UNCHANGED there
     \/ session[c].op = "start" /\ Move(c, "writes") /\ UNCHANGED there
     \/ session[c].op = "login" /\ Move(c, "out") /\ there' = there \ {c}
  /\ readers' = readers \ {c}
  /\ UNCHANGED <<queue, writing, unread, dynamic, change>>

\* Mutation: a write does not wait for room.
WriteUnbounded(c) ==
  /\ session[c].at = "writes"
  /\ readers' = readers \ {c}
  /\ IF c \in there
     THEN unread' = [unread EXCEPT ![c] = @ + 1]
          /\ Move(c, IF session[c].op = "switch" /\ session[c].found THEN "out" ELSE "idle")
     ELSE UNCHANGED unread /\ Move(c, "out")
  /\ UNCHANGED <<queue, writing, there, dynamic, change>>

\* The write is done, or fails and ends the session.  A guard that is still held is
\* dropped.  After a Transfer the session asks for nothing more.
Write(c) ==
  /\ session[c].at = "writes"
  /\ c \in there => unread[c] < Room
  /\ readers' = readers \ {c}
  /\ IF c \in there
     THEN unread' = [unread EXCEPT ![c] = @ + 1]
          /\ Move(c, IF session[c].op = "switch" /\ session[c].found THEN "out" ELSE "idle")
     ELSE UNCHANGED unread /\ Move(c, "out")
  /\ UNCHANGED <<queue, writing, there, dynamic, change>>

-----------------------------------------------------------------------------

SessionSteps(c) ==
  \/ Lookup(c) \/ ListServers(c) \/ SwitchServer(c) \/ StartPr(c) \/ Status(c)
  \/ Write(c)

ClientSteps(c) ==
  \/ \E name \in Names : Login(c, name)
  \/ \E op \in {"list", "switch", "start", "status"}, name \in Names : Command(c, op, name)
  \/ Answer(c) \/ Forward(c) \/ ClientReads(c) \/ Leave(c) \/ EndIdle(c) \/ Returns(c)

Next ==
  \/ Grant \/ Apply
  \/ \E op \in {"add", "remove"}, b \in Backends : Decide(op, b)
  \/ \E c \in Clients : SessionSteps(c) \/ ClientSteps(c)

\* The lock serves whoever is first, and a task that can go on does; an idle session is
\* woken by the end of its client.  Nothing is owed by the clients, GitHub, Jenkins or a
\* backend: none of their calls has a timeout.
Fairness ==
  /\ WF_vars(Grant) /\ WF_vars(Apply)
  /\ \A c \in Clients : WF_vars(SessionSteps(c)) /\ WF_vars(EndIdle(c))

Spec == Init /\ [][Next]_vars /\ Fairness

-----------------------------------------------------------------------------
(* Safety *)

TypeOK ==
  /\ queue \in Seq(Clients \cup {Lifecycle})
  /\ readers \subseteq Clients
  /\ writing \in BOOLEAN
  /\ session \in [Clients -> Session]
  /\ unread \in [Clients -> 0..Room]
  /\ there \subseteq Clients
  /\ dynamic \subseteq Backends
  /\ change = NoChange \/ \E ch \in Change : change = <<ch>>

Waits(t) == \E i \in 1..Len(queue) : queue[i] = t

\* Who holds the guard has asked for it once and asks for it no more: only a session
\* that looks something up, or tells /status what it has found, keeps the lifecycle from writing.
GuardOK ==
  /\ writing => readers = {}
  /\ \A i, j \in 1..Len(queue) : i # j => queue[i] # queue[j]
  /\ \A c \in Clients :
       /\ Waits(c) <=> session[c].at = "asks"
       /\ c \in readers <=>
            session[c].at = "holds" \/ (session[c].at = "writes" /\ session[c].op = "status")
  /\ (Waits(Lifecycle) \/ writing) <=> change # NoChange
  /\ ~(Waits(Lifecycle) /\ writing)

-----------------------------------------------------------------------------
(* Liveness *)

\* A reply to /status, of a PR without an instance, waits for a client that is there and does not read.
Stuck ==
  \E c \in Clients :
    /\ session[c].at = "writes" /\ session[c].op = "status"
    /\ c \in there /\ unread[c] = Room

\* Nothing but such a reply holds the lifecycle loop up for ever: no other slow client,
\* and no call to another service that never returns.
WriteServed == []<>~Stuck => (change # NoChange ~> change = NoChange)

\* The same for the logins and the commands, which wait behind the lifecycle's write.
ReadServed == []<>~Stuck =>
  \A c \in Clients : session[c].at = "asks" ~> session[c].at # "asks"


=============================================================================
