------------------------- MODULE RegistryLockProofs --------------------------
(***************************************************************************)
(* The guards of the registry for any number of players, backends and      *)
(* packets: nobody who holds the lock waits for it, only a reply to        *)
(* /status is sent under it, and that reply is true when it is sent.       *)
(***************************************************************************)
EXTENDS RegistryLock, SequenceTheorems, TLAPS

Tasks == Clients \cup {Lifecycle}

In(q, t) == \E i \in 1..Len(q) : q[i] = t
Distinct(q) == \A i, j \in 1..Len(q) : i # j => q[i] # q[j]

\* What is in a queue without its first task.
LEMMA InTail ==
  ASSUME NEW S, NEW q \in Seq(S), q # <<>>
  PROVE  /\ Head(q) \in S /\ Tail(q) \in Seq(S) /\ In(q, Head(q))
         /\ \A t : In(q, t) => t = Head(q) \/ In(Tail(q), t)
         /\ \A t : In(Tail(q), t) => In(q, t)
         /\ Distinct(q) => Distinct(Tail(q)) /\ ~In(Tail(q), Head(q))
<1>1. /\ Len(q) \in Nat \ {0} /\ Head(q) = q[1] /\ Head(q) \in S
      /\ Tail(q) \in Seq(S) /\ Len(Tail(q)) = Len(q) - 1
      /\ \A i \in 1..Len(Tail(q)) : Tail(q)[i] = q[i + 1]
  BY HeadTailProperties, EmptySeq
<1>2. \A i \in 1..Len(q) : i = 1 \/ (i - 1 \in 1..Len(Tail(q)) /\ Tail(q)[i - 1] = q[i])
  BY <1>1
<1>3. \A i \in 1..Len(Tail(q)) : i + 1 \in 1..Len(q) /\ i + 1 # 1 /\ Tail(q)[i] = q[i + 1]
  BY <1>1
<1>4. 1 \in 1..Len(q)
  BY <1>1
<1>5. In(q, Head(q))
  BY <1>1, <1>4 DEF In
<1>6. \A t : In(q, t) => t = Head(q) \/ In(Tail(q), t)
  BY <1>1, <1>2 DEF In
<1>7. \A t : In(Tail(q), t) => In(q, t)
  BY <1>3 DEF In
<1>8. Distinct(q) => ~In(Tail(q), Head(q))
  BY <1>1, <1>3, <1>4 DEF In, Distinct
<1>9. Distinct(q) => Distinct(Tail(q))
  <2>1. \A i, j \in 1..Len(Tail(q)) : i # j => i + 1 # j + 1
    BY <1>1
  <2> QED
    BY <1>3, <2>1 DEF Distinct
<1> QED
  BY <1>1, <1>5, <1>6, <1>7, <1>8, <1>9

\* What is in a queue with one more task.
LEMMA InAppend ==
  ASSUME NEW S, NEW q \in Seq(S), NEW x \in S
  PROVE  /\ Append(q, x) \in Seq(S)
         /\ \A t : In(Append(q, x), t) <=> In(q, t) \/ t = x
         /\ Distinct(q) /\ ~In(q, x) => Distinct(Append(q, x))
<1>1. /\ Append(q, x) \in Seq(S) /\ Len(q) \in Nat /\ Len(Append(q, x)) = Len(q) + 1
      /\ \A i \in 1..Len(q) : Append(q, x)[i] = q[i]
      /\ Append(q, x)[Len(q) + 1] = x
  BY AppendProperties, LenProperties
<1>2. \A i \in 1..(Len(q) + 1) : i \in 1..Len(q) \/ i = Len(q) + 1
  BY <1>1
<1>3. \A i \in 1..Len(q) : i \in 1..(Len(q) + 1) /\ Len(q) + 1 \in 1..(Len(q) + 1)
  BY <1>1
<1>4. \A t : In(Append(q, x), t) <=> In(q, t) \/ t = x
  BY <1>1, <1>2 DEF In
<1>5. Distinct(q) /\ ~In(q, x) => Distinct(Append(q, x))
  BY <1>1, <1>2 DEF In, Distinct
<1> QED
  BY <1>1, <1>4, <1>5

-----------------------------------------------------------------------------

LockInv == TypeOK /\ GuardOK

\* The parts of GuardOK, with the queue as In and Distinct.
Excludes == writing => readers = {}
Asking == \A c \in Clients : In(queue, c) <=> session[c].at = "asks"
Holding ==
  \A c \in Clients : c \in readers <=>
    session[c].at = "holds" \/ (session[c].at = "writes" /\ session[c].op = "status")
Changing ==
  /\ (In(queue, Lifecycle) \/ writing) <=> change # NoChange
  /\ ~(In(queue, Lifecycle) /\ writing)

\* GuardOK in the parts that the steps are about.
LEMMA GuardParts ==
  GuardOK <=> Excludes /\ Distinct(queue) /\ Asking /\ Holding /\ Changing
  BY DEF GuardOK, Waits, In, Distinct, Excludes, Asking, Holding, Changing

\* Its parts after a step give it again.
LEMMA GuardAgain ==
  ASSUME Excludes', Distinct(queue'), Asking', Holding', Changing'
  PROVE  GuardOK'
  BY DEF GuardOK, Waits, In, Distinct, Excludes, Asking, Holding, Changing

\* The invariant holds from the start.
LEMMA LockInit == Init => LockInv
<1>1. ASSUME Init
      PROVE  TypeOK
  <2>1. queue \in Seq(Clients \cup {Lifecycle})
    BY <1>1, EmptySeq DEF Init
  <2>2. unread \in [Clients -> 0..Room]
    BY <1>1, LockAssumption DEF Init
  <2> QED
    BY <1>1, <2>1, <2>2 DEF Init, TypeOK, Session, Names
<1>2. ASSUME Init
      PROVE  GuardOK
  <2>1. \A t : ~In(queue, t)
    BY <1>2 DEF Init, In
  <2>2. Distinct(queue)
    BY <1>2 DEF Init, Distinct
  <2> QED
    BY <1>2, <2>1, <2>2, GuardParts
       DEF Init, Excludes, Asking, Holding, Changing
<1> QED
  BY <1>1, <1>2 DEF LockInv

\* The task at the head of the queue is served.
LEMMA GrantKeeps ==
  ASSUME LockInv, Grant
  PROVE  LockInv'
<1> DEFINE t == Head(queue)
<1>0. /\ TypeOK /\ queue # <<>> /\ ~writing /\ queue' = Tail(queue)
      /\ Excludes /\ Distinct(queue) /\ Asking /\ Holding /\ Changing
  BY GuardParts DEF LockInv, Grant
<1>1. /\ t \in Tasks /\ queue' \in Seq(Tasks) /\ In(queue, t)
      /\ \A u : In(queue', u) <=> In(queue, u) /\ u # t
      /\ Distinct(queue')
  <2>1. queue \in Seq(Tasks)
    BY <1>0 DEF TypeOK, Tasks
  <2> QED
    BY <1>0, <2>1, InTail
<1> HIDE DEF t
<1>2. CASE t = Lifecycle
  <2>1. /\ readers = {} /\ writing' = TRUE
        /\ UNCHANGED <<readers, session, unread, there, dynamic, change>>
    BY <1>2, TasksAssumption, <1>0 DEF Grant, t
  <2>2. TypeOK'
    BY <1>0, <1>1, <2>1 DEF TypeOK, Tasks
  <2>3. Excludes' /\ Asking' /\ Holding' /\ Changing'
    BY <1>0, <1>1, <1>2, <2>1, TasksAssumption DEF Excludes, Asking, Holding, Changing
  <2> QED
    BY <1>1, <2>2, <2>3, GuardAgain DEF LockInv
<1>3. CASE t # Lifecycle
  <2>1. /\ t \in Clients /\ session[t].at = "asks" /\ t \notin readers
        /\ readers' = readers \cup {t} /\ session' = [session EXCEPT ![t].at = "holds"]
        /\ UNCHANGED <<writing, unread, there, dynamic, change>>
    BY <1>0, <1>1, <1>3 DEF Grant, t, Move, Tasks, Asking, Holding
  <2>2. /\ session'[t].at = "holds"
        /\ \A c \in Clients \ {t} : session'[c] = session[c]
        /\ session' \in [Clients -> Session]
    <3>1. session \in [Clients -> Session] /\ session[t] \in Session
      BY <1>0, <2>1 DEF TypeOK
    <3>2. /\ [session[t] EXCEPT !.at = "holds"] \in Session
          /\ [session[t] EXCEPT !.at = "holds"].at = "holds"
      BY <3>1 DEF Session
    <3>3. session' = [session EXCEPT ![t] = [session[t] EXCEPT !.at = "holds"]]
      BY <2>1
    <3> QED
      BY <2>1, <3>1, <3>2, <3>3
  <2>3. TypeOK'
    BY <1>0, <1>1, <2>1, <2>2 DEF TypeOK, Tasks
  <2>4. Excludes' /\ Asking' /\ Holding' /\ Changing'
    BY <1>0, <1>1, <1>3, <2>1, <2>2 DEF Excludes, Asking, Holding, Changing
  <2> QED
    BY <1>1, <2>3, <2>4, GuardAgain DEF LockInv
<1> QED
  BY <1>2, <1>3

\* The lifecycle asks for the lock.
LEMMA DecideKeeps ==
  ASSUME LockInv, NEW op \in {"add", "remove"}, NEW b \in Backends, Decide(op, b)
  PROVE  LockInv'
<1>0. /\ TypeOK /\ change = NoChange
      /\ change' = <<[op |-> op, name |-> b]>> /\ queue' = Append(queue, Lifecycle)
      /\ UNCHANGED <<readers, writing, session, unread, there, dynamic>>
      /\ Excludes /\ Distinct(queue) /\ Asking /\ Holding /\ Changing
  BY GuardParts DEF LockInv, Decide, Request
<1>1. /\ queue' \in Seq(Tasks) /\ Distinct(queue')
      /\ \A u : In(queue', u) <=> In(queue, u) \/ u = Lifecycle
  <2>1. queue \in Seq(Tasks) /\ Lifecycle \in Tasks
    BY <1>0 DEF TypeOK, Tasks
  <2>2. ~In(queue, Lifecycle)
    BY <1>0 DEF Changing
  <2> QED
    BY <1>0, <2>1, <2>2, InAppend
<1>2. TypeOK'
  <2>1. [op |-> op, name |-> b] \in Change
    BY DEF Change
  <2> QED
    BY <1>0, <1>1, <2>1 DEF TypeOK, Tasks
<1>3. change' # NoChange
  BY <1>0 DEF NoChange
<1>4. Excludes' /\ Asking' /\ Holding' /\ Changing'
  BY <1>0, <1>1, <1>3, TasksAssumption DEF Excludes, Asking, Holding, Changing
<1> QED
  BY <1>1, <1>2, <1>4, GuardAgain DEF LockInv

\* The lifecycle writes, and nobody reads.
LEMMA ApplyKeeps ==
  ASSUME LockInv, Apply
  PROVE  LockInv'
<1>0. /\ TypeOK /\ writing /\ readers = {} /\ writing' = FALSE /\ change' = NoChange
      /\ UNCHANGED <<queue, readers, session, unread, there>>
      /\ Excludes /\ Distinct(queue) /\ Asking /\ Holding /\ Changing
  BY GuardParts DEF LockInv, Apply, Excludes
<1>1. PICK ch \in Change : change = <<ch>>
  BY <1>0 DEF TypeOK, Changing
<1>2. dynamic' \subseteq Backends
  BY <1>0, <1>1 DEF Apply, TypeOK, Change
<1>3. TypeOK'
  BY <1>0, <1>2 DEF TypeOK
<1>4. Excludes' /\ Asking' /\ Holding' /\ Changing'
  BY <1>0 DEF Excludes, Asking, Holding, Changing
<1> QED
  BY <1>0, <1>3, <1>4, GuardAgain DEF LockInv

\* A step of one session that leaves the queue alone and gives its guard up, unless it
\* is to reply to /status.
LEMMA SessionKeeps ==
  ASSUME LockInv, NEW c \in Clients, NEW r \in Session,
         session' = [session EXCEPT ![c] = r],
         session[c].at # "asks", r.at \notin {"asks", "holds"},
         readers' = IF r.at = "writes" /\ r.op = "status" THEN readers \cup {c}
                    ELSE readers \ {c},
         r.at = "writes" /\ r.op = "status" => c \in readers,
         unread' \in [Clients -> 0..Room], there' \subseteq Clients,
         UNCHANGED <<queue, writing, dynamic, change>>
  PROVE  LockInv'
<1>0. /\ TypeOK /\ session'[c] = r
      /\ \A d \in Clients \ {c} : session'[d] = session[d]
      /\ Excludes /\ Distinct(queue) /\ Asking /\ Holding /\ Changing
  BY GuardParts DEF LockInv, TypeOK
<1>1. TypeOK'
  BY <1>0 DEF TypeOK
<1>2. Excludes' /\ Asking' /\ Holding' /\ Changing'
  BY <1>0 DEF Excludes, Asking, Holding, Changing
<1> QED
  BY <1>0, <1>1, <1>2, GuardAgain DEF LockInv

\* A session asks for the guard.
LEMMA AskKeeps ==
  ASSUME LockInv, NEW c \in Clients,
         NEW op \in {"login", "list", "switch", "start", "status"}, NEW name \in Names,
         session[c].at \in {"out", "idle"}, Ask(c, op, name),
         unread' \in [Clients -> 0..Room], there' \subseteq Clients
  PROVE  LockInv'
<1> DEFINE r == [at |-> "asks", op |-> op, name |-> name, found |-> FALSE]
<1>0. /\ TypeOK /\ queue' = Append(queue, c)
      /\ session' = [session EXCEPT ![c] = r]
      /\ UNCHANGED <<readers, writing, dynamic, change>>
      /\ Excludes /\ Distinct(queue) /\ Asking /\ Holding /\ Changing
  BY GuardParts DEF LockInv, Ask, Request
<1>1. /\ queue' \in Seq(Tasks) /\ Distinct(queue')
      /\ \A u : In(queue', u) <=> In(queue, u) \/ u = c
  <2>1. queue \in Seq(Tasks) /\ c \in Tasks
    BY <1>0 DEF TypeOK, Tasks
  <2>2. ~In(queue, c)
    BY <1>0 DEF Asking
  <2> QED
    BY <1>0, <2>1, <2>2, InAppend
<1>2. /\ r \in Session /\ session'[c] = r
      /\ \A d \in Clients \ {c} : session'[d] = session[d]
      /\ r.at = "asks"
  BY <1>0 DEF TypeOK, Session
<1> HIDE DEF r
<1>3. TypeOK'
  BY <1>0, <1>1, <1>2 DEF TypeOK, Tasks
<1>4. Excludes' /\ Asking' /\ Holding' /\ Changing'
  BY <1>0, <1>1, <1>2, TasksAssumption DEF Excludes, Asking, Holding, Changing
<1> QED
  BY <1>1, <1>3, <1>4, GuardAgain DEF LockInv

\* What a session does under its guard.
LEMMA LookKeeps ==
  ASSUME LockInv, NEW c \in Clients, NEW op, NEW at \in {"out", "calls", "writes"},
         NEW held \in BOOLEAN, Look(c, op, at, held), held <=> (at = "writes" /\ op = "status"),
         there' \subseteq Clients
  PROVE  LockInv'
<1> DEFINE r == [session[c] EXCEPT !.found = Contains(session[c].name), !.at = at]
<1>0. /\ TypeOK /\ session[c].at = "holds" /\ session[c].op = op /\ c \in readers
      /\ readers' = IF held THEN readers ELSE readers \ {c}
      /\ UNCHANGED <<queue, writing, unread, dynamic, change>>
  BY GuardParts DEF LockInv, Look, Holding
<1>1. session[c] \in Session /\ Contains(session[c].name) \in BOOLEAN
  BY <1>0 DEF TypeOK, Contains
<1>2. /\ r \in Session /\ r.at = at /\ r.op = op /\ r.name = session[c].name
      /\ r.found = Contains(session[c].name)
  BY <1>0, <1>1 DEF Session
<1>3. session' = [session EXCEPT ![c] = r]
  BY <1>0 DEF Look, TypeOK
<1> HIDE DEF r
<1>4. unread' \in [Clients -> 0..Room]
  BY <1>0 DEF TypeOK
<1> QED
  BY <1>0, <1>2, <1>3, <1>4, SessionKeeps

\* A session moves on from a call or a write, or ends.
LEMMA MoveKeeps ==
  ASSUME LockInv, NEW c \in Clients, NEW at \in {"out", "idle", "writes"}, Move(c, at),
         session[c].at \notin {"asks", "holds"}, at = "writes" => session[c].op = "start",
         readers' = readers \ {c},
         unread' \in [Clients -> 0..Room], there' \subseteq Clients,
         UNCHANGED <<queue, writing, dynamic, change>>
  PROVE  LockInv'
<1> DEFINE r == [session[c] EXCEPT !.at = at]
<1>1. /\ r \in Session /\ r.at = at /\ r.op = session[c].op
      /\ session' = [session EXCEPT ![c] = r]
  BY DEF Move, LockInv, TypeOK, Session
<1> HIDE DEF r
<1> QED
  BY <1>1, SessionKeeps

\* Steps of a client that the sessions do not see.
LEMMA ClientKeeps ==
  ASSUME LockInv, UNCHANGED <<queue, readers, writing, session, dynamic, change>>,
         unread' \in [Clients -> 0..Room], there' \subseteq Clients
  PROVE  LockInv'
<1>1. TypeOK'
  BY DEF LockInv, TypeOK
<1>2. GuardOK'
  BY DEF LockInv, GuardOK, Waits
<1> QED
  BY <1>1, <1>2 DEF LockInv

\* Every step keeps the invariant.
LEMMA LockStep ==
  ASSUME LockInv, [Next]_vars
  PROVE  LockInv'
<1>0. TypeOK /\ Holding /\ unread \in [Clients -> 0..Room] /\ there \subseteq Clients
      /\ Room \in Nat /\ session \in [Clients -> Session]
  BY GuardParts, LockAssumption DEF LockInv, TypeOK
<1>1. ASSUME NEW c \in Clients, SessionSteps(c)
      PROVE  LockInv'
  <2>1. CASE Lookup(c)
    BY <1>0, <2>1, LookKeeps DEF Lookup
  <2>2. CASE ListServers(c)
    BY <1>0, <2>2, LookKeeps DEF ListServers
  <2>3. CASE SwitchServer(c)
    BY <1>0, <2>3, LookKeeps DEF SwitchServer
  <2>4. CASE StartPr(c)
    BY <1>0, <2>4, LookKeeps DEF StartPr
  <2>5. CASE Status(c)
    BY <1>0, <2>5, LookKeeps DEF Status
  <2>6. CASE Write(c)
    <3>1. unread' \in [Clients -> 0..Room]
      BY <1>0, <2>6 DEF Write
    <3>2. PICK at \in {"out", "idle"} : Move(c, at)
      BY <2>6 DEF Write
    <3> QED
      BY <1>0, <2>6, <3>1, <3>2, MoveKeeps DEF Write
  <2> QED
    BY <1>1, <2>1, <2>2, <2>3, <2>4, <2>5, <2>6 DEF SessionSteps
<1>2. ASSUME NEW c \in Clients, ClientSteps(c)
      PROVE  LockInv'
  <2>1. ASSUME NEW name \in Names, Login(c, name)
        PROVE  LockInv'
    <3>1. unread' \in [Clients -> 0..Room] /\ there' \subseteq Clients
      BY <1>0, <2>1 DEF Login
    <3> QED
      BY <2>1, <3>1, AskKeeps DEF Login
  <2>2. ASSUME NEW op \in {"list", "switch", "start", "status"}, NEW name \in Names,
               Command(c, op, name)
        PROVE  LockInv'
    BY <1>0, <2>2, AskKeeps DEF Command
  <2>3. CASE Answer(c)
    <3> DEFINE r == [session[c] EXCEPT !.at = "writes", !.op = "answer"]
    <3>1. session[c] \in Session
      BY <1>0
    <3>2. /\ r \in Session /\ r.at = "writes" /\ r.op = "answer"
          /\ session' = [session EXCEPT ![c] = r]
      BY <2>3, <3>1 DEF Answer, Session
    <3>3. session[c].at = "idle" /\ readers' = readers \ {c}
      BY <1>0, <2>3 DEF Answer, Holding
    <3> HIDE DEF r
    <3> QED
      BY <1>0, <2>3, <3>2, <3>3, SessionKeeps DEF Answer
  <2>4. CASE Forward(c)
    <3>1. unread' \in [Clients -> 0..Room]
      BY <1>0, <2>4 DEF Forward
    <3> QED
      BY <1>0, <2>4, <3>1, ClientKeeps DEF Forward
  <2>5. CASE ClientReads(c)
    <3>1. unread' \in [Clients -> 0..Room]
      BY <1>0, <2>5 DEF ClientReads
    <3> QED
      BY <1>0, <2>5, <3>1, ClientKeeps DEF ClientReads
  <2>6. CASE Leave(c)
    <3>1. unread' \in [Clients -> 0..Room] /\ there' \subseteq Clients
      BY <1>0, <2>6 DEF Leave
    <3> QED
      BY <2>6, <3>1, ClientKeeps DEF Leave
  <2>7. CASE EndIdle(c)
    <3>1. session[c].at = "idle" /\ readers' = readers \ {c}
      BY <1>0, <2>7 DEF EndIdle, Holding
    <3> QED
      BY <1>0, <2>7, <3>1, MoveKeeps DEF EndIdle
  <2>8. CASE Returns(c)
    <3>1. PICK at \in {"out", "idle", "writes"} :
            Move(c, at) /\ (at = "writes" => session[c].op = "start")
      BY <2>8 DEF Returns
    <3>2. unread' \in [Clients -> 0..Room] /\ there' \subseteq Clients
      BY <1>0, <2>8 DEF Returns
    <3> QED
      BY <2>8, <3>1, <3>2, MoveKeeps DEF Returns
  <2> QED
    BY <1>2, <2>1, <2>2, <2>3, <2>4, <2>5, <2>6, <2>7, <2>8 DEF ClientSteps
<1>3. CASE UNCHANGED vars
  BY <1>0, <1>3, ClientKeeps DEF vars
<1> QED
  BY <1>1, <1>2, <1>3, GrantKeeps, DecideKeeps, ApplyKeeps DEF Next

\* The invariant holds in every reachable state.
LEMMA LockHolds == Spec => []LockInv
  BY LockInit, LockStep, PTL DEF Spec

\* The types of RegistryLock.
THEOREM TypeCorrect == Spec => []TypeOK
  BY LockHolds, PTL DEF LockInv

\* GuardOK: no task waits for a lock it holds, and only a lookup, which awaits nothing,
\* or a reply to /status keeps the lifecycle's register_backend from its turn.
THEOREM GuardsAreShort == Spec => []GuardOK
  BY LockHolds, PTL DEF LockInv

=============================================================================
