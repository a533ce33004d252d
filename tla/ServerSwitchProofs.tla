------------------------- MODULE ServerSwitchProofs --------------------------
(***************************************************************************)
(* Proofs about ServerSwitch: its inductive invariant, the promise that a  *)
(* Transfer makes to a player, and that it implements Switchboard.         *)
(***************************************************************************)
EXTENDS ServerSwitch, TLAPS

USE ServerAssumption DEF Maybe

-----------------------------------------------------------------------------
(* What the assignments to session do. *)

\* The step changes no connection but s.
Only(s) == \A q \in Sessions \ {s} : session'[q] = session[q]

\* GoTo changes the stage of one connection.
LEMMA GoToAt ==
  ASSUME session \in [Sessions -> Session], NEW s \in Sessions, NEW stage \in Stages,
         GoTo(s, stage)
  PROVE  /\ session' \in [Sessions -> Session]
         /\ Only(s)
         /\ session'[s].stage = stage
         /\ session'[s].player = session[s].player
         /\ session'[s].server = session[s].server
         /\ session'[s].wish = session[s].wish
  BY DEF GoTo, Only, Session

\* End closes one connection for its client, or frees it.
LEMMA EndAt ==
  ASSUME session \in [Sessions -> Session], NEW s \in Sessions, End(s)
  PROVE  /\ session' \in [Sessions -> Session]
         /\ Only(s)
         /\ Open(s) => /\ session'[s].stage = "closed"
                       /\ session'[s].player = session[s].player
                       /\ session'[s].server = session[s].server
                       /\ session'[s].wish = session[s].wish
         /\ ~Open(s) => session'[s] = Free
<1>1. Free \in Session
  BY DEF Free, Session, Stages
<1>2. [session[s] EXCEPT !.stage = "closed"] \in Session
  BY DEF Session, Stages
<1>3. session'[s] = IF Open(s) THEN [session[s] EXCEPT !.stage = "closed"] ELSE Free
  BY DEF End
<1>4. Only(s)
  BY DEF End, Only
<1>5. session' \in [Sessions -> Session]
  BY <1>1, <1>2 DEF End
<1> QED
  BY <1>3, <1>4, <1>5 DEF Session

\* What the invariant says of the sessions alone.
SessionsOK ==
  /\ session \in [Sessions -> Session]
  /\ \A s \in Sessions : HandlerOK(s)
  /\ \A s \in Sessions : session[s].stage \in Placed => session[s].server \in Servers

\* A handler may move on to a stage that it holds the data for.
LEMMA GoToOK ==
  ASSUME SessionsOK, NEW s \in Sessions, NEW stage \in Stages \ {"free", "closed"},
         GoTo(s, stage), client' = client, session[s].stage # "free",
         stage \in {"hello", "login", "acked"} => session[s].server = None,
         stage \in {"check", "store", "transfer"} => session[s].wish # None,
         stage \in Placed => session[s].server \in Servers
  PROVE  SessionsOK'
<1> session \in [Sessions -> Session]
  BY DEF SessionsOK
<1> /\ session' \in [Sessions -> Session]
    /\ Only(s)
    /\ session'[s].stage = stage
    /\ session'[s].player = session[s].player
    /\ session'[s].server = session[s].server
    /\ session'[s].wish = session[s].wish
  BY GoToAt
<1> QED
  BY DEF SessionsOK, Only, HandlerOK, Open

\* A handler may end at any time.
LEMMA EndOK ==
  ASSUME SessionsOK, NEW s \in Sessions, End(s), client' = client, session[s].stage # "free"
  PROVE  SessionsOK'
<1> session \in [Sessions -> Session]
  BY DEF SessionsOK
<1>1. /\ session' \in [Sessions -> Session]
      /\ Only(s)
      /\ Open(s) => session'[s].stage = "closed" /\ session'[s].player = session[s].player
      /\ ~Open(s) => session'[s] = Free
  BY EndAt
<1>2. \A q \in Sessions : HandlerOK(q)'
  BY <1>1 DEF SessionsOK, Only, HandlerOK, Open, Free
<1>3. \A q \in Sessions : session'[q].stage \in Placed => session'[q].server \in Servers
  BY <1>1 DEF SessionsOK, Only, Placed, Free
<1> QED
  BY <1>1, <1>2, <1>3 DEF SessionsOK

\* A restart closes or frees every connection.
LEMMA CrashAt ==
  ASSUME session \in [Sessions -> Session], Crash
  PROVE  /\ session' \in [Sessions -> Session]
         /\ \A s \in Sessions :
              IF Open(s)
              THEN session'[s].stage = "closed" /\ session'[s].player = session[s].player
              ELSE session'[s] = Free
<1>1. Free \in Session
  BY DEF Free, Session, Stages
<1>2. \A s \in Sessions : [session[s] EXCEPT !.stage = "closed"] \in Session
  BY DEF Session, Stages
<1>3. \A s \in Sessions :
        session'[s] = IF Open(s) THEN [session[s] EXCEPT !.stage = "closed"] ELSE Free
  BY DEF Crash
<1>4. session' \in [Sessions -> Session]
  BY <1>1, <1>2 DEF Crash
<1> QED
  BY <1>3, <1>4 DEF Session

\* A restart keeps what holds of the sessions.
LEMMA CrashOK ==
  ASSUME SwitchInv, Crash
  PROVE  SessionsOK'
<1>1. session \in [Sessions -> Session]
  BY DEF SwitchInv, TypeOK
<1>2. /\ session' \in [Sessions -> Session]
      /\ \A s \in Sessions :
           IF Open(s) THEN session'[s].stage = "closed" /\ session'[s].player = session[s].player
           ELSE session'[s] = Free
  BY <1>1, CrashAt
<1>3. \A s \in Sessions : Open(s)' <=> Open(s)
  BY DEF Crash, Open
<1>4. \A s \in Sessions : Open(s) => session[s].player \in Players
  BY DEF SwitchInv, OwnConnection, Open
<1>5. \A s \in Sessions : HandlerOK(s)'
  BY <1>2, <1>3, <1>4 DEF HandlerOK, Free
<1>6. \A s \in Sessions : session'[s].stage \notin Placed
  BY <1>2 DEF Placed, Free
<1> QED
  BY <1>2, <1>5, <1>6 DEF SessionsOK

\* A step that leaves sessions and clients alone keeps what holds of the sessions.
LEMMA RestOK ==
  ASSUME SessionsOK, session' = session, client' = client
  PROVE  SessionsOK'
  BY DEF SessionsOK, HandlerOK, Open

\* An open connection is the one its player's client uses.
LEMMA OpenIsOwn ==
  ASSUME SwitchInv, NEW s \in Sessions, Open(s)
  PROVE  /\ session[s].player \in Players
         /\ client[session[s].player] = s
         /\ session[s].stage # "free"
  BY DEF SwitchInv, OwnConnection, Open

-----------------------------------------------------------------------------
(* Steps *)

\* Every step keeps what holds of the sessions.
LEMMA SessionsStep ==
  ASSUME SwitchInv, [Next]_vars
  PROVE  SessionsOK'
<1>0. SessionsOK /\ TypeOK
  BY DEF SwitchInv, SessionsOK, TypeOK
<1>1. ASSUME NEW p \in Players, NEW s \in Sessions, Connect(p, s)
      PROVE  SessionsOK'
  <2>1. [Free EXCEPT !.stage = "hello", !.player = p] \in Session
    BY <1>0, <1>1 DEF TypeOK, Session, Free, Stages
  <2>2. session' \in [Sessions -> Session] /\ Only(s)
    BY <1>0, <1>1, <2>1 DEF SessionsOK, Connect, Only
  <2>3. session'[s].stage = "hello" /\ session'[s].player = p /\ session'[s].server = None
    BY <1>0, <1>1 DEF SessionsOK, Connect, Session, Free
  <2>4. \A q \in Sessions : Open(q) => Open(q)'
    BY <1>0, <1>1 DEF Connect, Open, TypeOK
  <2> QED
    BY <1>0, <2>2, <2>3, <2>4 DEF SessionsOK, HandlerOK, Only, Placed
<1>2. ASSUME NEW s \in Sessions, Acknowledge(s)
      PROVE  SessionsOK'
  BY <1>0, <1>2, GoToOK DEF Acknowledge, SessionsOK, HandlerOK, Stages, Placed
<1>3. ASSUME NEW s \in Sessions, NEW name \in Servers, TypeServer(s, name)
      PROVE  SessionsOK'
  <2>1. session' \in [Sessions -> Session] /\ Only(s)
    BY <1>0, <1>3 DEF SessionsOK, TypeServer, Session, Only
  <2>2. /\ session'[s].stage = session[s].stage
         /\ session'[s].player = session[s].player
         /\ session'[s].server = session[s].server
    BY <1>0, <1>3 DEF SessionsOK, TypeServer, Session
  <2> QED
    BY <1>0, <1>3, <2>1, <2>2 DEF SessionsOK, TypeServer, HandlerOK, Only, Open, Placed
<1>4. ASSUME NEW p \in Players, Close(p)
      PROVE  SessionsOK'
  <2> DEFINE s == client[p]
  <2>1. s \in Sessions
    BY <1>0, <1>4 DEF TypeOK, Close
  <2>2. Free \in Session
    BY DEF Free, Session, Stages
  <2>3. session' \in [Sessions -> Session] /\ Only(s)
    BY <1>0, <1>4, <2>1, <2>2 DEF SessionsOK, Close, Only
  <2>4. \A q \in Sessions \ {s} : Open(q) => Open(q)'
    BY <1>0, <1>4 DEF Close, Open, TypeOK
  <2>5. session'[s] = IF session[s].stage = "closed" THEN Free ELSE session[s]
    BY <1>0, <1>4, <2>1 DEF SessionsOK, Close
  <2> QED
    BY <1>0, <2>1, <2>3, <2>4, <2>5 DEF SessionsOK, HandlerOK, Only, Placed, Free
<1>5. ASSUME NEW p \in Players, FollowTransfer(p)
      PROVE  SessionsOK'
  BY <1>5, <1>4 DEF FollowTransfer
<1>6. ASSUME NEW p \in Players, HangUp(p)
      PROVE  SessionsOK'
  BY <1>6, <1>4 DEF HangUp
<1>7. ASSUME NEW s \in Sessions, HandleHello(s)
      PROVE  SessionsOK'
  BY <1>0, <1>7, GoToOK, EndOK DEF HandleHello, SessionsOK, HandlerOK, Stages, Placed
<1>8. ASSUME NEW s \in Sessions, HandleAck(s)
      PROVE  SessionsOK'
  <2>1. session' \in [Sessions -> Session] /\ Only(s)
    BY <1>0, <1>8 DEF SessionsOK, TypeOK, HandleAck, HandlerOK, Session, Stages, Only
  <2>2. /\ session'[s].stage = "lookup"
         /\ session'[s].player = session[s].player
         /\ session'[s].server \in Servers
    BY <1>0, <1>8 DEF SessionsOK, TypeOK, HandleAck, HandlerOK, Session
  <2> QED
    BY <1>0, <1>8, <2>1, <2>2 DEF SessionsOK, HandleAck, HandlerOK, Only, Open, Placed
<1>9. ASSUME NEW s \in Sessions, Lookup(s)
      PROVE  SessionsOK'
  BY <1>0, <1>9, GoToOK, EndOK DEF Lookup, SessionsOK, HandlerOK, Stages, Placed
<1>10. ASSUME NEW s \in Sessions, ConnectBackend(s)
      PROVE  SessionsOK'
  BY <1>0, <1>10, GoToOK, EndOK DEF ConnectBackend, SessionsOK, HandlerOK, Stages, Placed
<1>11. ASSUME NEW s \in Sessions, HandleEof(s)
      PROVE  SessionsOK'
  BY <1>0, <1>11, EndOK DEF HandleEof
<1>12. ASSUME NEW s \in Sessions, SwitchServer(s)
      PROVE  SessionsOK'
  <2>1. CASE GoTo(s, "store")
    BY <1>0, <1>12, <2>1, GoToOK DEF SwitchServer, SessionsOK, HandlerOK, Stages, Placed
  <2>2. CASE End(s)
    BY <1>0, <1>12, <2>2, EndOK DEF SwitchServer
  <2>3. CASE session' = [session EXCEPT ![s].stage = "forward", ![s].wish = None]
    <3>0. [session[s] EXCEPT !.stage = "forward", !.wish = None] \in Session
      BY <1>0 DEF SessionsOK, Session, Stages
    <3>1. session' \in [Sessions -> Session] /\ Only(s)
      BY <1>0, <2>3, <3>0 DEF SessionsOK, Only
    <3>2. /\ session'[s].stage = "forward"
          /\ session'[s].player = session[s].player
          /\ session'[s].server = session[s].server
      BY <1>0, <1>12, <2>3 DEF SessionsOK, SwitchServer, Session
    <3> QED
      BY <1>0, <1>12, <3>1, <3>2 DEF SessionsOK, SwitchServer, HandlerOK, Only, Open, Placed
  <2> QED
    BY <1>12, <2>1, <2>2, <2>3 DEF SwitchServer
<1>13. ASSUME NEW s \in Sessions, StoreTarget(s)
      PROVE  SessionsOK'
  BY <1>0, <1>13, GoToOK DEF StoreTarget, SessionsOK, HandlerOK, Stages, Placed
<1>14. ASSUME NEW s \in Sessions, SendTransfer(s)
      PROVE  SessionsOK'
  <2>1. CASE GoTo(s, "drain")
    BY <1>0, <1>14, <2>1, GoToOK DEF SendTransfer, SessionsOK, HandlerOK, Stages, Placed
  <2>2. CASE End(s)
    BY <1>0, <1>14, <2>2, EndOK DEF SendTransfer
  <2>3. CASE session' = [session EXCEPT ![s].stage = "drain", ![s].told = TRUE]
    <3>0. [session[s] EXCEPT !.stage = "drain", !.told = TRUE] \in Session
      BY <1>0 DEF SessionsOK, Session, Stages
    <3>1. session' \in [Sessions -> Session] /\ Only(s)
      <4> DEFINE r == [session[s] EXCEPT !.stage = "drain", !.told = TRUE]
      <4>1. session' = [session EXCEPT ![s] = r]
        BY <2>3
      <4>2. session \in [Sessions -> Session] /\ r \in Session
        BY <1>0, <3>0 DEF SessionsOK
      <4> HIDE DEF r
      <4>3. session' \in [Sessions -> Session]
        BY <4>1, <4>2
      <4>4. \A u \in Sessions \ {s} : session'[u] = session[u]
        BY <4>1, <4>2
      <4> QED
        BY <4>3, <4>4 DEF Only
    <3>2. /\ session'[s].stage = "drain"
          /\ session'[s].player = session[s].player
          /\ session'[s].server = session[s].server
      BY <1>0, <1>14, <2>3 DEF SessionsOK, Session
    <3> QED
      BY <1>0, <1>14, <3>1, <3>2 DEF SessionsOK, SendTransfer, HandlerOK, Only, Open, Placed
  <2> QED
    BY <1>14, <2>1, <2>2, <2>3 DEF SendTransfer
<1>15. ASSUME NEW s \in Sessions, DrainTimeout(s)
      PROVE  SessionsOK'
  BY <1>0, <1>15, EndOK DEF DrainTimeout
<1>16. ASSUME NEW s \in Sessions, BackendCloses(s)
      PROVE  SessionsOK'
  BY <1>0, <1>16, EndOK DEF BackendCloses
<1>17. ASSUME NEW s \in Sessions, TakeServer(s)
      PROVE  SessionsOK'
  BY <1>0, <1>17, GoToOK DEF TakeServer, SessionsOK, HandlerOK, Stages, Placed
<1>18. ASSUME NEW s \in Sessions, Suspend(s)
      PROVE  SessionsOK'
  BY <1>0, <1>18, GoToOK DEF Suspend, SessionsOK, HandlerOK, Stages, Placed
<1>19. ASSUME NEW s \in Sessions, Resume(s)
      PROVE  SessionsOK'
  BY <1>0, <1>19, GoToOK, EndOK DEF Resume, SessionsOK, HandlerOK, Stages, Placed
<1>20. CASE RegistrySteps
  BY <1>0, <1>20, RestOK DEF RegistrySteps, AddDynamic, RemoveDynamic
<1>21. CASE UNCHANGED vars
  BY <1>0, <1>21, RestOK DEF vars
<1>22. CASE Crash
  BY <1>22, CrashOK
<1> QED
  BY <1>1, <1>2, <1>3, <1>5, <1>6, <1>7, <1>8, <1>9, <1>10,
     <1>11, <1>12, <1>13, <1>14, <1>15, <1>16, <1>17, <1>18, <1>19, <1>20, <1>21, <1>22
  DEF Next, ClientSteps, HandlerSteps, ReadClient, AwaitedSteps

-----------------------------------------------------------------------------
(* Players *)

\* What the invariant says of one player.
PlayerOK(p) ==
  /\ OwnConnection(p)
  /\ NothingElsePromised(p)
  /\ p \notin late /\ promised[p] # None => pending[p] = promised[p]

\* A handler that neither takes nor stores a target keeps what holds of the players:
\* it goes from one placed stage to another, or to one where nothing is claimed.
LEMMA QuietOK ==
  ASSUME SwitchInv, NEW s \in Sessions, Only(s),
         UNCHANGED <<client, pending, promised, late>>,
         session[s].stage # "free",
         Open(s) => session'[s].stage # "free" /\ session'[s].player = session[s].player,
         session'[s].stage \in Placed \ {"drain"} => session[s].stage \in Placed \ {"drain"},
         session'[s].stage # "transfer"
  PROVE  \A p \in Players : PlayerOK(p)'
<1> SUFFICES ASSUME NEW p \in Players
             PROVE  PlayerOK(p)'
  OBVIOUS
<1>1. /\ OwnConnection(p) /\ NothingElsePromised(p) /\ PromiseKept
      /\ client[p] \in Maybe(Sessions)
  BY DEF SwitchInv, TypeOK
<1>2. CASE client[p] = s
  BY <1>1, <1>2 DEF PlayerOK, OwnConnection, NothingElsePromised, PromiseKept, Open
<1>3. CASE client[p] # s
  BY <1>1, <1>3 DEF PlayerOK, OwnConnection, NothingElsePromised, PromiseKept, Only
<1> QED
  BY <1>2, <1>3

\* End is such a step.
LEMMA EndQuiet ==
  ASSUME SwitchInv, NEW s \in Sessions, End(s), UNCHANGED <<client, pending, promised, late>>,
         session[s].stage # "free"
  PROVE  \A p \in Players : PlayerOK(p)'
<1>1. session \in [Sessions -> Session]
  BY DEF SwitchInv, TypeOK
<1>2. /\ Only(s)
      /\ Open(s) => session'[s].stage = "closed" /\ session'[s].player = session[s].player
      /\ ~Open(s) => session'[s] = Free
  BY <1>1, EndAt
<1> QED
  BY <1>2, QuietOK DEF Free, Placed

\* So is GoTo, but for the stages named.
LEMMA GoToQuiet ==
  ASSUME SwitchInv, NEW s \in Sessions, NEW stage \in Stages \ {"free", "transfer"},
         GoTo(s, stage), UNCHANGED <<client, pending, promised, late>>,
         session[s].stage # "free",
         stage \in Placed \ {"drain"} => session[s].stage \in Placed \ {"drain"}
  PROVE  \A p \in Players : PlayerOK(p)'
<1>1. session \in [Sessions -> Session]
  BY DEF SwitchInv, TypeOK
<1>2. Only(s) /\ session'[s].stage = stage /\ session'[s].player = session[s].player
  BY <1>1, GoToAt
<1> QED
  BY <1>2, QuietOK

\* Every step keeps what holds of the players.
LEMMA PlayersStep ==
  ASSUME SwitchInv, [Next]_vars
  PROVE  \A p \in Players : PlayerOK(p)'
<1>0. TypeOK /\ session \in [Sessions -> Session]
  BY DEF SwitchInv, TypeOK
<1>1. ASSUME NEW p \in Players, NEW s \in Sessions, Connect(p, s)
      PROVE  \A q \in Players : PlayerOK(q)'
  <2>1. Only(s) /\ session'[s].stage = "hello" /\ session'[s].player = p
    BY <1>0, <1>1 DEF Connect, Only, Session, Free
  <2>2. session[s].stage = "free"
    BY <1>1 DEF Connect, Free
  <2>3. client'[p] = s /\ \A q \in Players \ {p} : client'[q] = client[q]
    BY <1>0, <1>1 DEF Connect, TypeOK
  <2> QED
    BY <1>1, <2>1, <2>2, <2>3
    DEF SwitchInv, PlayerOK, OwnConnection, NothingElsePromised, PromiseKept,
        Connect, Only, Placed, TypeOK
<1>2. ASSUME NEW s \in Sessions, Acknowledge(s)
      PROVE  \A q \in Players : PlayerOK(q)'
  BY <1>0, <1>2, GoToQuiet DEF Acknowledge, Stages, Placed
<1>3. ASSUME NEW s \in Sessions, NEW name \in Servers, TypeServer(s, name)
      PROVE  \A q \in Players : PlayerOK(q)'
  <2>1. /\ Only(s)
        /\ session'[s].stage = session[s].stage
        /\ session'[s].player = session[s].player
    BY <1>0, <1>3 DEF TypeServer, Only, Session
  <2> QED
    BY <1>3, <2>1, QuietOK DEF TypeServer
<1>4. ASSUME NEW p \in Players, Close(p),
             promised' \in {promised, [promised EXCEPT ![p] = None]}
      PROVE  \A q \in Players : PlayerOK(q)'
  <2>1. client[p] \in Sessions /\ Only(client[p])
    BY <1>0, <1>4 DEF TypeOK, Close, Only
  <2>2. client'[p] = None /\ \A q \in Players \ {p} : client'[q] = client[q]
    BY <1>0, <1>4 DEF Close, TypeOK
  <2>3. \A q \in Players \ {p} : client[q] # client[p]
    BY <2>1 DEF SwitchInv, OwnConnection
  <2> QED
    BY <1>0, <1>4, <2>1, <2>2, <2>3
    DEF SwitchInv, PlayerOK, OwnConnection, NothingElsePromised, PromiseKept,
        Close, Only, TypeOK
<1>5. ASSUME NEW p \in Players, FollowTransfer(p)
      PROVE  \A q \in Players : PlayerOK(q)'
  BY <1>5, <1>4 DEF FollowTransfer
<1>6. ASSUME NEW p \in Players, HangUp(p)
      PROVE  \A q \in Players : PlayerOK(q)'
  BY <1>6, <1>4 DEF HangUp
<1>7. ASSUME NEW s \in Sessions, HandleHello(s)
      PROVE  \A q \in Players : PlayerOK(q)'
  BY <1>0, <1>7, GoToQuiet, EndQuiet DEF HandleHello, Stages, Placed
<1>8. ASSUME NEW s \in Sessions, HandleAck(s)
      PROVE  \A q \in Players : PlayerOK(q)'
  <2>1. Only(s) /\ session'[s].stage = "lookup" /\ session'[s].player = session[s].player
    BY <1>0, <1>8 DEF HandleAck, Only, Session
  <2> DEFINE r == session[s].player
  <2>2. r \in Players
    BY <1>8 DEF HandleAck, SwitchInv, HandlerOK
  <2>3. /\ promised'[r] = None
         /\ \A q \in Players \ {r} : promised'[q] = promised[q] /\ pending'[q] = pending[q]
    BY <1>0, <1>8, <2>2 DEF HandleAck, TypeOK
  <2>4. late \subseteq late' /\ (~Open(s) => r \in late')
    BY <1>8 DEF HandleAck, NoteLate
  <2>5. Open(s) => client[r] = s
    BY OpenIsOwn
  <2>6. \A q \in Players \ {r} : client[q] # s
    BY DEF SwitchInv, OwnConnection
  <2> HIDE DEF r
  <2> QED
    BY <1>8, <2>1, <2>2, <2>3, <2>4, <2>5, <2>6
    DEF SwitchInv, PlayerOK, OwnConnection, NothingElsePromised, PromiseKept,
        HandleAck, Only, Placed, TypeOK
<1>9. ASSUME NEW s \in Sessions, Lookup(s)
      PROVE  \A q \in Players : PlayerOK(q)'
  BY <1>0, <1>9, GoToQuiet, EndQuiet DEF Lookup, Stages, Placed
<1>10. ASSUME NEW s \in Sessions, ConnectBackend(s)
      PROVE  \A q \in Players : PlayerOK(q)'
  BY <1>0, <1>10, GoToQuiet, EndQuiet DEF ConnectBackend, Stages, Placed
<1>11. ASSUME NEW s \in Sessions, HandleEof(s)
      PROVE  \A q \in Players : PlayerOK(q)'
  BY <1>11, EndQuiet DEF HandleEof
<1>12. ASSUME NEW s \in Sessions, SwitchServer(s)
      PROVE  \A q \in Players : PlayerOK(q)'
  <2>1. CASE GoTo(s, "store")
    BY <1>12, <2>1, GoToQuiet DEF SwitchServer, Stages, Placed
  <2>2. CASE End(s)
    BY <1>12, <2>2, EndQuiet DEF SwitchServer
  <2>3. CASE session' = [session EXCEPT ![s].stage = "forward", ![s].wish = None]
    <3>1. Only(s) /\ session'[s].stage = "forward" /\ session'[s].player = session[s].player
      BY <1>0, <1>12, <2>3 DEF SwitchServer, Only, Session
    <3> QED
      BY <1>12, <3>1, QuietOK DEF SwitchServer, Placed
  <2> QED
    BY <1>12, <2>1, <2>2, <2>3 DEF SwitchServer
<1>13. ASSUME NEW s \in Sessions, StoreTarget(s)
      PROVE  \A q \in Players : PlayerOK(q)'
  <2> DEFINE r == session[s].player
  <2>1. /\ Only(s)
         /\ session'[s].stage = "transfer"
         /\ session'[s].player = r
         /\ session'[s].wish = session[s].wish
    BY <1>0, <1>13, GoToAt DEF StoreTarget, Stages
  <2>2. r \in Players
    BY <1>13 DEF StoreTarget, SwitchInv, HandlerOK
  <2>3. pending'[r] = session[s].wish /\ \A q \in Players \ {r} : pending'[q] = pending[q]
    BY <1>0, <1>13, <2>2 DEF StoreTarget, TypeOK
  <2>4. late \subseteq late' /\ (~Open(s) => r \in late')
    BY <1>13 DEF StoreTarget, NoteLate
  <2>5. Open(s) => client[r] = s
    BY OpenIsOwn
  <2>6. \A q \in Players \ {r} : client[q] # s
    BY DEF SwitchInv, OwnConnection
  <2> HIDE DEF r
  <2> QED
    BY <1>13, <2>1, <2>2, <2>3, <2>4, <2>5, <2>6
    DEF SwitchInv, PlayerOK, OwnConnection, NothingElsePromised, PromiseKept,
        StoreTarget, Only, Placed, TypeOK
<1>14. ASSUME NEW s \in Sessions, SendTransfer(s)
      PROVE  \A q \in Players : PlayerOK(q)'
  <2>1. CASE GoTo(s, "drain") /\ UNCHANGED promised
    BY <1>14, <2>1, GoToQuiet DEF SendTransfer, Stages, Placed
  <2>2. CASE End(s) /\ UNCHANGED promised
    BY <1>14, <2>2, EndQuiet DEF SendTransfer
  <2>3. CASE /\ Open(s)
           /\ session' = [session EXCEPT ![s].stage = "drain", ![s].told = TRUE]
           /\ promised' = [promised EXCEPT ![session[s].player] = session[s].wish]
    <3> DEFINE r == session[s].player
    <3>1. Only(s) /\ session'[s].stage = "drain" /\ session'[s].player = r
      BY <1>0, <2>3 DEF Only, Session
    <3>2. r \in Players /\ client[r] = s
      BY <2>3, OpenIsOwn
    <3>3. promised'[r] = session[s].wish /\ \A q \in Players \ {r} : promised'[q] = promised[q]
      BY <1>0, <2>3, <3>2 DEF TypeOK
    <3>4. r \notin late => pending[r] = session[s].wish
      BY <1>14, <3>2 DEF SendTransfer, SwitchInv, NothingElsePromised
    <3>5. \A q \in Players \ {r} : client[q] # s
      BY DEF SwitchInv, OwnConnection
    <3> HIDE DEF r
    <3> QED
      BY <1>14, <3>1, <3>2, <3>3, <3>4, <3>5
      DEF SwitchInv, PlayerOK, OwnConnection, NothingElsePromised, PromiseKept,
          SendTransfer, Only, Placed, TypeOK
  <2> QED
    BY <1>14, <2>1, <2>2, <2>3 DEF SendTransfer
<1>15. ASSUME NEW s \in Sessions, DrainTimeout(s)
      PROVE  \A q \in Players : PlayerOK(q)'
  BY <1>15, EndQuiet DEF DrainTimeout
<1>16. ASSUME NEW s \in Sessions, BackendCloses(s)
      PROVE  \A q \in Players : PlayerOK(q)'
  BY <1>16, EndQuiet DEF BackendCloses
<1>17. ASSUME NEW s \in Sessions, TakeServer(s)
      PROVE  \A q \in Players : PlayerOK(q)'
  BY <1>17, GoToQuiet DEF TakeServer, Stages, Placed
<1>18. ASSUME NEW s \in Sessions, Suspend(s)
      PROVE  \A q \in Players : PlayerOK(q)'
  BY <1>18, GoToQuiet DEF Suspend, Stages, Placed
<1>19. ASSUME NEW s \in Sessions, Resume(s)
      PROVE  \A q \in Players : PlayerOK(q)'
  BY <1>19, GoToQuiet, EndQuiet DEF Resume, Stages, Placed
<1>20. CASE RegistrySteps
  BY <1>20 DEF RegistrySteps, AddDynamic, RemoveDynamic, SwitchInv, PlayerOK, OwnConnection,
      NothingElsePromised, PromiseKept
<1>21. CASE UNCHANGED vars
  BY <1>21 DEF vars, SwitchInv, PlayerOK, OwnConnection, NothingElsePromised, PromiseKept
<1>22. CASE Crash
  <2>1. \A s \in Sessions : Open(s) =>
          session'[s].stage = "closed" /\ session'[s].player = session[s].player
    BY <1>0, <1>22, CrashAt
  <2>2. \A q \in Players : client[q] # None => client[q] \in Sessions
    BY <1>0 DEF TypeOK
  <2>3. \A q \in Players : client[q] # None =>
          /\ session'[client[q]].stage = "closed"
          /\ session'[client[q]].player = session[client[q]].player
    BY <2>1, <2>2 DEF Open
  <2>4. client' = client /\ \A q \in Players : promised'[q] = None
    BY <1>22 DEF Crash
  <2> QED
    BY <2>3, <2>4 DEF SwitchInv, PlayerOK, OwnConnection, NothingElsePromised, Placed
<1> QED
  BY <1>1, <1>2, <1>3, <1>5, <1>6, <1>7, <1>8, <1>9, <1>10,
     <1>11, <1>12, <1>13, <1>14, <1>15, <1>16, <1>17, <1>18, <1>19, <1>20, <1>21, <1>22
  DEF Next, ClientSteps, HandlerSteps, ReadClient, AwaitedSteps

-----------------------------------------------------------------------------
(* Theorems *)

\* Every step keeps the types of what is not a session.
LEMMA RestTyped ==
  ASSUME SwitchInv, [Next]_vars
  PROVE  /\ registry' \subseteq Servers
         /\ pending' \in [Players -> Maybe(Servers)]
         /\ client' \in [Players -> Maybe(Sessions)]
         /\ promised' \in [Players -> Maybe(Servers)]
         /\ late' \subseteq Players
<1>1. /\ TypeOK
      /\ \A s \in Sessions : session[s].stage # "free" => session[s].player \in Players
      /\ \A s \in Sessions : session[s].wish \in Maybe(Servers)
  BY DEF SwitchInv, HandlerOK, TypeOK, Session
<1> DEFINE Typed == /\ registry' \subseteq Servers
                    /\ pending' \in [Players -> Maybe(Servers)]
                    /\ client' \in [Players -> Maybe(Sessions)]
                    /\ promised' \in [Players -> Maybe(Servers)]
                    /\ late' \subseteq Players
<1>2. ASSUME NEW p \in Players, NEW s \in Sessions, Connect(p, s)
      PROVE  Typed
  BY <1>1, <1>2 DEF TypeOK, Connect, Maybe
<1>3. ASSUME NEW p \in Players, FollowTransfer(p) \/ HangUp(p)
      PROVE  Typed
  BY <1>1, <1>3 DEF TypeOK, FollowTransfer, HangUp, Close, Maybe
<1>4. ASSUME NEW s \in Sessions, HandleAck(s)
      PROVE  Typed
  BY <1>1, <1>4 DEF TypeOK, HandleAck, NoteLate, Maybe
<1>5. ASSUME NEW s \in Sessions, StoreTarget(s)
      PROVE  Typed
  BY <1>1, <1>5 DEF TypeOK, StoreTarget, NoteLate
<1>6. ASSUME NEW s \in Sessions, SendTransfer(s)
      PROVE  Typed
  BY <1>1, <1>6 DEF TypeOK, SendTransfer
<1>7. CASE RegistrySteps
  BY <1>1, <1>7 DEF TypeOK, RegistrySteps, AddDynamic, RemoveDynamic
<1>8. CASE UNCHANGED <<registry, pending, client, promised, late>>
  BY <1>1, <1>8 DEF TypeOK
<1>9. CASE Crash
  BY <1>1, <1>9 DEF TypeOK, Crash
<1> DEFINE Same == UNCHANGED <<registry, pending, client, promised, late>>
           Changing == \/ Crash
                       \/ \E p \in Players, s \in Sessions : Connect(p, s)
                       \/ \E p \in Players : FollowTransfer(p) \/ HangUp(p)
                       \/ \E s \in Sessions : HandleAck(s) \/ StoreTarget(s) \/ SendTransfer(s)
                       \/ RegistrySteps
<1>10. Changing \/ Same
  <2>1. CASE UNCHANGED vars
    BY <2>1 DEF vars
  <2>2. CASE ClientSteps
    BY <2>2 DEF ClientSteps, Acknowledge, TypeServer
  <2>3. ASSUME NEW s \in Sessions, HandlerSteps(s)
        PROVE  Changing \/ Same
    BY <2>3 DEF HandlerSteps, HandleHello, ReadClient, TakeServer, HandleEof, DrainTimeout
  <2>4. ASSUME NEW s \in Sessions, AwaitedSteps(s)
        PROVE  Same
    BY <2>4 DEF AwaitedSteps, Lookup, ConnectBackend, SwitchServer, Suspend, Resume,
      BackendCloses
  <2> QED
    BY <2>1, <2>2, <2>3, <2>4 DEF Next
<1> QED
  BY <1>2, <1>3, <1>4, <1>5, <1>6, <1>7, <1>8, <1>9, <1>10

\* The invariant holds at first.
THEOREM SwitchInit == Init => SwitchInv
<1> SUFFICES ASSUME Init
             PROVE  SwitchInv
  OBVIOUS
<1>1. Free \in Session
  BY DEF Free, Session, Stages
<1> QED
  BY <1>1 DEF Init, SwitchInv, TypeOK, HandlerOK, OwnConnection, NothingElsePromised, PromiseKept,
    Free, Placed

\* Every step keeps the invariant.
THEOREM SwitchStep == SwitchInv /\ [Next]_vars => SwitchInv'
<1> SUFFICES ASSUME SwitchInv, [Next]_vars
             PROVE  SwitchInv'
  OBVIOUS
<1>1. SessionsOK'
  BY SessionsStep
<1>2. \A p \in Players : PlayerOK(p)'
  BY PlayersStep
<1>3. TypeOK'
  BY <1>1, RestTyped DEF TypeOK, SessionsOK
<1> QED
  BY <1>1, <1>2, <1>3 DEF SwitchInv, SessionsOK, PlayerOK, PromiseKept

\* The invariant of ServerSwitch holds in every reachable state, for any players,
\* connections and servers.
THEOREM SwitchInvariance == Spec => []SwitchInv
  BY SwitchInit, SwitchStep, PTL DEF Spec

\* Every variable keeps its type, and a placed connection has a server.
THEOREM TypeCorrect == Spec => []TypeOK
<1>1. SwitchInv => TypeOK
  BY DEF SwitchInv
<1> QED
  BY <1>1, SwitchInvariance, PTL

\* pending_switches keeps the server a Transfer was sent for until the player logs
\* in again, unless something was done for a connection the player had left.
THEOREM PromisesAreKept == Spec => []PromiseKept
<1>1. SwitchInv => PromiseKept
  BY DEF SwitchInv
<1> QED
  BY <1>1, SwitchInvariance, PTL

-----------------------------------------------------------------------------
(* ServerSwitch implements Switchboard. *)

\* A step that changes no seat and no wish is a stutter of the board.
LEMMA Stutter ==
  ASSUME \A s \in Sessions : Seat(s)' = Seat(s), pending' = pending
  PROVE  UNCHANGED Board!vars
  BY DEF Board!vars

\* Moving on within a connection keeps its seat.
LEMMA GoToKeepsSeats ==
  ASSUME TypeOK, NEW s \in Sessions, NEW stage \in Stages \ {"closed"}, GoTo(s, stage),
         session[s].stage # "closed"
  PROVE  \A q \in Sessions : Seat(q)' = Seat(q)
<1>1. /\ Only(s)
      /\ session'[s].stage = stage
      /\ session'[s].player = session[s].player
      /\ session'[s].server = session[s].server
  BY GoToAt DEF TypeOK
<1> QED
  BY <1>1 DEF Seat, Only

\* The end of a connection is a LeaveSeat.
LEMMA EndLeaves ==
  ASSUME TypeOK, NEW s \in Sessions, End(s), pending' = pending
  PROVE  Board!LeaveSeat(s)
<1>1. /\ Only(s)
      /\ Open(s) => session'[s].stage = "closed"
      /\ ~Open(s) => session'[s] = Free
  BY EndAt DEF TypeOK
<1>2. Seat(s)' = None /\ \A q \in Sessions \ {s} : Seat(q)' = Seat(q)
  BY <1>1 DEF Seat, Only, Free
<1> QED
  BY <1>2 DEF Board!LeaveSeat

\* Every step of the proxy, the clients and the lifecycle is a step of the board or
\* none at all.
LEMMA BoardStep ==
  ASSUME SwitchInv, [Next]_vars
  PROVE  [Board!Next]_Board!vars
<1>0. TypeOK /\ session \in [Sessions -> Session]
  BY DEF SwitchInv, TypeOK
<1>1. ASSUME NEW p \in Players, NEW s \in Sessions, Connect(p, s)
      PROVE  [Board!Next]_Board!vars
  <2>1. Only(s) /\ session'[s].server = None /\ session[s].server = None
    BY <1>0, <1>1 DEF Connect, Only, Session, Free
  <2>2. \A q \in Sessions : Seat(q)' = Seat(q)
    BY <2>1 DEF Seat, Only
  <2> QED
    BY <1>1, <2>2, Stutter DEF Connect
<1>2. ASSUME NEW s \in Sessions, Acknowledge(s)
      PROVE  [Board!Next]_Board!vars
  BY <1>0, <1>2, GoToKeepsSeats, Stutter DEF Acknowledge, Stages
<1>3. ASSUME NEW s \in Sessions, NEW name \in Servers, TypeServer(s, name)
      PROVE  [Board!Next]_Board!vars
  <2>1. /\ Only(s)
         /\ session'[s].stage = session[s].stage
         /\ session'[s].player = session[s].player
         /\ session'[s].server = session[s].server
    BY <1>0, <1>3 DEF TypeServer, Only, Session
  <2>2. \A q \in Sessions : Seat(q)' = Seat(q)
    BY <2>1 DEF Seat, Only
  <2> QED
    BY <1>3, <2>2, Stutter DEF TypeServer
<1>4. ASSUME NEW p \in Players, Close(p)
      PROVE  [Board!Next]_Board!vars
  <2> DEFINE s == client[p]
  <2>1. s \in Sessions /\ Only(s)
    BY <1>0, <1>4 DEF TypeOK, Close, Only
  <2>2. session'[s] = session[s] \/ (session[s].stage = "closed" /\ session'[s] = Free)
    BY <1>0, <1>4, <2>1 DEF Close
  <2>3. \A q \in Sessions : Seat(q)' = Seat(q)
    BY <2>1, <2>2 DEF Seat, Only, Free
  <2> QED
    BY <1>4, <2>3, Stutter DEF Close
<1>5. ASSUME NEW p \in Players, FollowTransfer(p)
      PROVE  [Board!Next]_Board!vars
  BY <1>5, <1>4 DEF FollowTransfer
<1>6. ASSUME NEW p \in Players, HangUp(p)
      PROVE  [Board!Next]_Board!vars
  BY <1>6, <1>4 DEF HangUp
<1>7. ASSUME NEW s \in Sessions, HandleHello(s)
      PROVE  [Board!Next]_Board!vars
  <2>1. CASE End(s)
    BY <1>0, <1>7, <2>1, EndLeaves DEF HandleHello, Board!Next
  <2>2. CASE ~End(s)
    BY <1>0, <1>7, <2>2, GoToKeepsSeats, Stutter DEF HandleHello, Stages
  <2> QED
    BY <2>1, <2>2
<1>8. ASSUME NEW s \in Sessions, HandleAck(s)
      PROVE  [Board!Next]_Board!vars
  <2> DEFINE r == session[s].player
  <2>1. r \in Players /\ session[s].server = None
    BY <1>8 DEF HandleAck, SwitchInv, HandlerOK
  <2>2. /\ Only(s)
         /\ session'[s].stage = "lookup"
         /\ session'[s].player = r
         /\ session'[s].server = IF pending[r] = None THEN Default ELSE pending[r]
    BY <1>0, <1>8 DEF HandleAck, Only, Session
  <2>3. session'[s].server # None
    BY <2>2 DEF TypeOK
  <2>4. /\ Seat(s) = None
         /\ Seat(s)' = [player |-> r, server |-> IF pending[r] = None THEN Default ELSE pending[r]]
         /\ \A q \in Sessions \ {s} : Seat(q)' = Seat(q)
    BY <2>1, <2>2, <2>3 DEF Seat, Only
  <2>5. Board!TakeSeat(s, r)
    BY <1>8, <2>4 DEF HandleAck, Board!TakeSeat
  <2> QED
    BY <2>1, <2>5 DEF Board!Next
<1>9. ASSUME NEW s \in Sessions, Lookup(s)
      PROVE  [Board!Next]_Board!vars
  <2>1. CASE End(s)
    BY <1>0, <1>9, <2>1, EndLeaves DEF Lookup, Board!Next
  <2>2. CASE ~End(s)
    BY <1>0, <1>9, <2>2, GoToKeepsSeats, Stutter DEF Lookup, Stages
  <2> QED
    BY <2>1, <2>2
<1>10. ASSUME NEW s \in Sessions, ConnectBackend(s)
      PROVE  [Board!Next]_Board!vars
  <2>1. CASE End(s)
    BY <1>0, <1>10, <2>1, EndLeaves DEF ConnectBackend, Board!Next
  <2>2. CASE ~End(s)
    BY <1>0, <1>10, <2>2, GoToKeepsSeats, Stutter DEF ConnectBackend, Stages
  <2> QED
    BY <2>1, <2>2
<1>11. ASSUME NEW s \in Sessions, HandleEof(s)
      PROVE  [Board!Next]_Board!vars
  BY <1>0, <1>11, EndLeaves DEF HandleEof, Board!Next
<1>12. ASSUME NEW s \in Sessions, SwitchServer(s)
      PROVE  [Board!Next]_Board!vars
  <2>1. CASE GoTo(s, "store")
    BY <1>0, <1>12, <2>1, GoToKeepsSeats, Stutter DEF SwitchServer, Stages
  <2>2. CASE End(s)
    BY <1>0, <1>12, <2>2, EndLeaves DEF SwitchServer, Board!Next
  <2>3. CASE session' = [session EXCEPT ![s].stage = "forward", ![s].wish = None]
    <3>1. /\ Only(s)
          /\ session'[s].stage = "forward"
          /\ session'[s].player = session[s].player
          /\ session'[s].server = session[s].server
      BY <1>0, <2>3 DEF Only, Session
    <3>2. \A q \in Sessions : Seat(q)' = Seat(q)
      BY <1>12, <3>1 DEF SwitchServer, Seat, Only
    <3> QED
      BY <1>12, <3>2, Stutter DEF SwitchServer
  <2> QED
    BY <1>12, <2>1, <2>2, <2>3 DEF SwitchServer
<1>13. ASSUME NEW s \in Sessions, StoreTarget(s)
      PROVE  [Board!Next]_Board!vars
  <2> DEFINE r == session[s].player
  <2>1. r \in Players /\ session[s].wish \in Servers
    BY <1>0, <1>13 DEF StoreTarget, SwitchInv, HandlerOK, Session
  <2>2. \A q \in Sessions : Seat(q)' = Seat(q)
    BY <1>0, <1>13, GoToKeepsSeats DEF StoreTarget, Stages
  <2>3. Board!Ask(r, session[s].wish)
    BY <1>13, <2>2 DEF StoreTarget, Board!Ask
  <2> QED
    BY <2>1, <2>3 DEF Board!Next
<1>14. ASSUME NEW s \in Sessions, SendTransfer(s)
      PROVE  [Board!Next]_Board!vars
  <2>1. CASE GoTo(s, "drain")
    BY <1>0, <1>14, <2>1, GoToKeepsSeats, Stutter DEF SendTransfer, Stages
  <2>2. CASE End(s)
    BY <1>0, <1>14, <2>2, EndLeaves DEF SendTransfer, Board!Next
  <2>3. CASE session' = [session EXCEPT ![s].stage = "drain", ![s].told = TRUE]
    <3>1. /\ Only(s)
          /\ session'[s].stage = "drain"
          /\ session'[s].player = session[s].player
          /\ session'[s].server = session[s].server
      BY <1>0, <2>3 DEF Only, Session
    <3>2. \A q \in Sessions : Seat(q)' = Seat(q)
      BY <1>14, <3>1 DEF SendTransfer, Seat, Only
    <3> QED
      BY <1>14, <3>2, Stutter DEF SendTransfer
  <2> QED
    BY <1>14, <2>1, <2>2, <2>3 DEF SendTransfer
<1>15. ASSUME NEW s \in Sessions, DrainTimeout(s)
      PROVE  [Board!Next]_Board!vars
  BY <1>0, <1>15, EndLeaves DEF DrainTimeout, Board!Next
<1>16. ASSUME NEW s \in Sessions, BackendCloses(s)
      PROVE  [Board!Next]_Board!vars
  BY <1>0, <1>16, EndLeaves DEF BackendCloses, Board!Next
<1>17. ASSUME NEW s \in Sessions, TakeServer(s)
      PROVE  [Board!Next]_Board!vars
  BY <1>0, <1>17, GoToKeepsSeats, Stutter DEF TakeServer, Stages
<1>18. ASSUME NEW s \in Sessions, Suspend(s)
      PROVE  [Board!Next]_Board!vars
  BY <1>0, <1>18, GoToKeepsSeats, Stutter DEF Suspend, Stages
<1>19. ASSUME NEW s \in Sessions, Resume(s)
      PROVE  [Board!Next]_Board!vars
  <2>1. CASE End(s)
    BY <1>0, <1>19, <2>1, EndLeaves DEF Resume, Board!Next
  <2>2. CASE ~End(s)
    BY <1>0, <1>19, <2>2, GoToKeepsSeats, Stutter DEF Resume, Stages
  <2> QED
    BY <2>1, <2>2
<1>20. CASE RegistrySteps
  BY <1>20, Stutter DEF RegistrySteps, AddDynamic, RemoveDynamic, Seat
<1>21. CASE UNCHANGED vars
  BY <1>21, Stutter DEF vars, Seat
<1>22. CASE Crash
  <2>1. \A s \in Sessions : session'[s].stage = "closed" \/ session'[s] = Free
    BY <1>0, <1>22, CrashAt
  <2>2. \A s \in Sessions : Seat(s)' = None
    BY <2>1 DEF Seat, Free
  <2>3. Board!Reset
    BY <1>22, <2>2 DEF Crash, Board!Reset
  <2> QED
    BY <2>3 DEF Board!Next
<1> QED
  BY <1>1, <1>2, <1>3, <1>5, <1>6, <1>7, <1>8, <1>9, <1>10,
     <1>11, <1>12, <1>13, <1>14, <1>15, <1>16, <1>17, <1>18, <1>19, <1>20, <1>21, <1>22
  DEF Next, ClientSteps, HandlerSteps, ReadClient, AwaitedSteps

\* Two connections, a lock and a map do what Switchboard says: a player is seated at
\* the server last asked for, once for each time of asking, else at the default one.
THEOREM Implements == Spec => ImplementsSwitchboard
<1>1. Init => Board!Init
  BY DEF Init, Board!Init, Seat, Free
<1>2. SwitchInv /\ [Next]_vars => [Board!Next]_Board!vars
  BY BoardStep
<1> QED
  BY <1>1, <1>2, SwitchInvariance, PTL DEF Spec, ImplementsSwitchboard, Board!Spec

=============================================================================
