-------------------------- MODULE PrLifecycleTypes --------------------------
(***************************************************************************)
(* Type correctness of PrLifecycle, proved: every reachable state satisfies *)
(* TypeOK, for all sets of PRs, commits, ports and clients.  TypeOK is      *)
(* inductive as it stands, because it relates the await the loop is         *)
(* suspended at to the state of the instance it handles, and recovery's     *)
(* work list to the rows it was read from.                                  *)
(***************************************************************************)
EXTENDS PrLifecycle, TLAPS

USE DEF Maybe, clusterVars, buildVars

(* What the operators the handlers share do to the types. *)

\* update_instance_state keeps the map well typed if the new state carries the
\* data that state has.
LEMMA SetStateType ==
  ASSUME TypeOK, NEW pr \in PRs, NEW state, NEW tag, NEW port,
         \A commit \in Commits :
           [state |-> state, commit |-> commit, tag |-> tag, port |-> port] \in Instance,
         SetState(pr, state, tag, port)
  PROVE  instances' \in [PRs -> Instance \cup {NoInstance}]
<1>1. HasInstance(pr) => instances[pr].commit \in Commits
  BY DEF TypeOK, HasInstance, Instance
<1> QED
  BY <1>1 DEF TypeOK, SetState, HasInstance

\* So does marking an instance Failed.
LEMMA FailType ==
  ASSUME TypeOK, NEW pr \in PRs, Fail(pr)
  PROVE  instances' \in [PRs -> Instance \cup {NoInstance}]
<1>1. \A commit \in Commits :
        [state |-> "Failed", commit |-> commit, tag |-> None, port |-> None] \in Instance
  BY DEF Instance
<1> QED
  BY <1>1, SetStateType DEF Fail

\* A handler that returns leaves the loop between two instances.
LEMMA ReturnType ==
  ASSUME TypeOK, NEW pr \in PRs, Return(pr)
  PROVE  /\ snapshot' \in [PRs -> Instance \cup {NoInstance}]
         /\ loop' \in [pc : LoopPcs, pr : Maybe(PRs)]
         /\ loop'.pc = "idle"
  BY DEF TypeOK, Return, Between, LoopPcs

\* Noting an outage keeps the history well typed.
LEMMA OutageType ==
  ASSUME TypeOK, NEW pr \in PRs, Outage(pr)
  PROVE  mishaps' \in [PRs -> SUBSET Mishaps]
  BY DEF TypeOK, Outage, Mishaps

(* The inductive steps. *)

\* The first boot is well typed.
THEOREM TypeInit == Init => TypeOK
  BY DEF Init, TypeOK, Idle, RequestPcs, Between, LoopPcs, Mishaps

\* Every step of start_pr, the lifecycle loop, the recovery, a crash and Jenkins
\* keeps the state well typed.
THEOREM TypeStep == TypeOK /\ [Next]_vars => TypeOK'
<1> SUFFICES ASSUME TypeOK, [Next]_vars PROVE TypeOK'
  OBVIOUS
<1>1. ASSUME NEW c \in Clients, NEW pr \in PRs, StartPr(c, pr) PROVE TypeOK'
  BY <1>1 DEF TypeOK, StartPr, RequestPcs
<1>2. ASSUME NEW c \in Clients, StartCheckBackends(c) PROVE TypeOK'
  BY <1>2 DEF TypeOK, StartCheckBackends, RequestPcs, Advance, EndRequest, Idle
<1>3. ASSUME NEW c \in Clients, StartFetchCommit(c) PROVE TypeOK'
  BY <1>3 DEF TypeOK, StartFetchCommit, RequestPcs, EndRequest, Idle
<1>4. ASSUME NEW c \in Clients, StartLookup(c) PROVE TypeOK'
  BY <1>4 DEF TypeOK, StartLookup, RequestPcs, Advance, EndRequest, Idle
<1>5. ASSUME NEW c \in Clients, StartDeploying(c) PROVE TypeOK'
  BY <1>5 DEF TypeOK, StartDeploying, RequestPcs, Insert, EndRequest, Idle, Instance, Mishaps
<1>6. ASSUME NEW c \in Clients, StartTrigger(c) PROVE TypeOK'
  BY <1>6 DEF TypeOK, StartTrigger, RequestPcs, Advance, EndRequest, Idle
<1>7. ASSUME NEW c \in Clients, StartBuilding(c) PROVE TypeOK'
  BY <1>7 DEF TypeOK, StartBuilding, RequestPcs, Insert, EndRequest, Idle, Instance, Mishaps
<1>8. ASSUME LoopTick PROVE TypeOK'
  BY <1>8 DEF TypeOK, LoopTick
<1>9. ASSUME NEW pr \in PRs, HandleBuildingTimeout(pr) PROVE TypeOK'
  <2>1. instances' \in [PRs -> Instance \cup {NoInstance}]
    BY <1>9, FailType DEF HandleBuildingTimeout
  <2> QED
    BY <1>9, <2>1, ReturnType DEF TypeOK, HandleBuildingTimeout
<1>10. ASSUME NEW pr \in PRs, HandleBuilding(pr) PROVE TypeOK'
  <2>1. snapshot[pr].commit \in Commits
    BY <1>10 DEF TypeOK, HandleBuilding, Visit, Instance, NoInstance
  <2>2. ASSUME SetState(pr, "Deploying", snapshot[pr].commit, None)
        PROVE  instances' \in [PRs -> Instance \cup {NoInstance}]
    <3>1. \A commit \in Commits :
            [state |-> "Deploying", commit |-> commit, tag |-> snapshot[pr].commit,
             port |-> None] \in Instance
      BY <2>1 DEF Instance
    <3> QED
      BY <2>2, <3>1, SetStateType
  <2>3. instances' \in [PRs -> Instance \cup {NoInstance}]
    BY <1>10, <2>2, FailType DEF HandleBuilding, TypeOK
  <2> QED
    BY <1>10, <2>3, ReturnType DEF TypeOK, HandleBuilding
<1>11. ASSUME NEW pr \in PRs, DeleteOldDeployment(pr) PROVE TypeOK'
  <2>1. instances' \in [PRs -> Instance \cup {NoInstance}]
    BY <1>11, FailType DEF TypeOK, DeleteOldDeployment
  <2>2. mishaps' \in [PRs -> SUBSET Mishaps]
    BY <1>11, OutageType DEF TypeOK, DeleteOldDeployment
  <2>3. deployments' \in [PRs -> Maybe(Commits)]
    BY <1>11 DEF TypeOK, DeleteOldDeployment
  <2>4. /\ snapshot' \in [PRs -> Instance \cup {NoInstance}]
        /\ loop' \in [pc : LoopPcs, pr : Maybe(PRs)]
        /\ loop'.pc # "idle" =>
             loop'.pr \in PRs /\ snapshot'[loop'.pr].state = HandledState(loop'.pc)
    <3>1. CASE Return(pr)
      BY <3>1, ReturnType
    <3>2. CASE Await(pr, "create") /\ UNCHANGED snapshot
      BY <1>11, <3>2 DEF TypeOK, DeleteOldDeployment, Visit, Await, LoopPcs, HandledState
    <3> QED
      BY <1>11, <3>1, <3>2 DEF DeleteOldDeployment
  <2> QED
    BY <1>11, <2>1, <2>2, <2>3, <2>4 DEF TypeOK, DeleteOldDeployment
<1>12. ASSUME NEW pr \in PRs, CreateDeployment(pr) PROVE TypeOK'
  <2>1. snapshot[pr].tag \in Commits
    BY <1>12 DEF TypeOK, CreateDeployment, Resume, HandledState, Instance, NoInstance
  <2>2. instances' \in [PRs -> Instance \cup {NoInstance}]
    BY <1>12, FailType DEF TypeOK, CreateDeployment
  <2>3. mishaps' \in [PRs -> SUBSET Mishaps]
    BY <1>12, OutageType DEF TypeOK, CreateDeployment
  <2>4. deployments' \in [PRs -> Maybe(Commits)]
    BY <1>12, <2>1 DEF TypeOK, CreateDeployment
  <2>5. /\ snapshot' \in [PRs -> Instance \cup {NoInstance}]
        /\ loop' \in [pc : LoopPcs, pr : Maybe(PRs)]
        /\ loop'.pc # "idle" =>
             loop'.pr \in PRs /\ snapshot'[loop'.pr].state = HandledState(loop'.pc)
    <3>1. CASE Return(pr)
      BY <3>1, ReturnType
    <3>2. CASE Await(pr, "deleteService") /\ UNCHANGED snapshot
      BY <1>12, <3>2 DEF TypeOK, CreateDeployment, Resume, Await, LoopPcs, HandledState
    <3> QED
      BY <1>12, <3>1, <3>2 DEF CreateDeployment
  <2> QED
    BY <1>12, <2>2, <2>3, <2>4, <2>5 DEF TypeOK, CreateDeployment
<1>13. ASSUME NEW pr \in PRs, DeleteOldService(pr) PROVE TypeOK'
  <2>1. mishaps' \in [PRs -> SUBSET Mishaps]
    BY <1>13, OutageType DEF TypeOK, DeleteOldService
  <2>2. services' \in [PRs -> Maybe(Ports)]
    BY <1>13 DEF TypeOK, DeleteOldService
  <2>3. Await(pr, "createService")
    BY <1>13 DEF DeleteOldService
  <2> QED
    BY <1>13, <2>1, <2>2, <2>3
    DEF TypeOK, DeleteOldService, Resume, Await, LoopPcs, HandledState
<1>14. ASSUME NEW pr \in PRs, CreateService(pr) PROVE TypeOK'
  <2>1. ASSUME NEW port \in Ports, SetState(pr, "Starting", None, port)
        PROVE  instances' \in [PRs -> Instance \cup {NoInstance}]
    <3>1. \A commit \in Commits :
            [state |-> "Starting", commit |-> commit, tag |-> None, port |-> port] \in Instance
      BY DEF Instance
    <3> QED
      BY <2>1, <3>1, SetStateType
  <2>2. instances' \in [PRs -> Instance \cup {NoInstance}]
    BY <1>14, <2>1, FailType DEF CreateService, FreePorts
  <2>3. mishaps' \in [PRs -> SUBSET Mishaps]
    BY <1>14, OutageType DEF TypeOK, CreateService
  <2>4. services' \in [PRs -> Maybe(Ports)]
    BY <1>14 DEF TypeOK, CreateService, FreePorts
  <2> QED
    BY <1>14, <2>2, <2>3, <2>4, ReturnType DEF TypeOK, CreateService
<1>15. ASSUME NEW pr \in PRs, HandleStartingTimeout(pr) PROVE TypeOK'
  <2>1. \A commit \in Commits :
          [state |-> "ShuttingDown", commit |-> commit, tag |-> None, port |-> None] \in Instance
    BY DEF Instance
  <2>2. instances' \in [PRs -> Instance \cup {NoInstance}]
    BY <1>15, <2>1, SetStateType DEF HandleStartingTimeout
  <2> QED
    BY <1>15, <2>2, ReturnType DEF TypeOK, HandleStartingTimeout
<1>16. ASSUME NEW pr \in PRs, HandleStarting(pr) PROVE TypeOK'
  <2>1. CASE Return(pr) /\ UNCHANGED backends
    BY <1>16, <2>1, ReturnType DEF TypeOK, HandleStarting
  <2>2. CASE /\ backends' = [backends EXCEPT ![pr] = snapshot[pr].port]
             /\ Await(pr, "markReady")
             /\ UNCHANGED snapshot
    <3>1. snapshot[pr].port \in Ports
      BY <1>16 DEF TypeOK, HandleStarting, Visit, Instance, NoInstance
    <3> QED
      BY <1>16, <2>2, <3>1 DEF TypeOK, HandleStarting, Visit, Await, LoopPcs, HandledState
  <2> QED
    BY <1>16, <2>1, <2>2 DEF HandleStarting
<1>17. ASSUME NEW pr \in PRs, MarkReady(pr) PROVE TypeOK'
  <2>1. snapshot[pr].state = "Starting" /\ snapshot[pr].port \in Ports
    BY <1>17 DEF TypeOK, MarkReady, Resume, HandledState, Instance, NoInstance
  <2>2. \A commit \in Commits :
          [state |-> "Ready", commit |-> commit, tag |-> None, port |-> snapshot[pr].port]
            \in Instance
    BY <2>1 DEF Instance
  <2>3. instances' \in [PRs -> Instance \cup {NoInstance}]
    BY <1>17, <2>2, SetStateType DEF MarkReady
  <2> QED
    BY <1>17, <2>1, <2>3 DEF TypeOK, MarkReady, Resume, Await, LoopPcs, HandledState
<1>18. ASSUME NEW pr \in PRs, Persist(pr) PROVE TypeOK'
  <2>1. snapshot[pr].commit \in Commits
    BY <1>18 DEF TypeOK, Persist, Resume, HandledState, Instance, NoInstance
  <2> QED
    BY <1>18, <2>1, ReturnType, NoneAssumption DEF TypeOK, Persist
<1>19. ASSUME NEW pr \in PRs, HandleReady(pr) PROVE TypeOK'
  BY <1>19, ReturnType DEF TypeOK, HandleReady
<1>20. ASSUME NEW pr \in PRs, HandleReadyExpired(pr) PROVE TypeOK'
  BY <1>20 DEF TypeOK, HandleReadyExpired, Visit, Await, LoopPcs, HandledState
<1>21. ASSUME NEW pr \in PRs, MarkShuttingDown(pr) PROVE TypeOK'
  <2>1. \A commit \in Commits :
          [state |-> "ShuttingDown", commit |-> commit, tag |-> None, port |-> None] \in Instance
    BY DEF Instance
  <2>2. instances' \in [PRs -> Instance \cup {NoInstance}]
    BY <1>21, <2>1, SetStateType DEF MarkShuttingDown
  <2> QED
    BY <1>21, <2>2, ReturnType DEF TypeOK, MarkShuttingDown
<1>22. ASSUME NEW pr \in PRs, DeleteDeployment(pr) PROVE TypeOK'
  <2>1. instances' \in [PRs -> Instance \cup {NoInstance}]
    BY <1>22 DEF TypeOK, DeleteDeployment, RemoveInstance
  <2>2. mishaps' \in [PRs -> SUBSET Mishaps]
    BY <1>22, OutageType DEF TypeOK, DeleteDeployment
  <2>3. deployments' \in [PRs -> Maybe(Commits)]
    BY <1>22 DEF TypeOK, DeleteDeployment
  <2>4. /\ snapshot' \in [PRs -> Instance \cup {NoInstance}]
        /\ loop' \in [pc : LoopPcs, pr : Maybe(PRs)]
        /\ loop'.pc # "idle" =>
             loop'.pr \in PRs /\ snapshot'[loop'.pr].state = HandledState(loop'.pc)
    <3>1. CASE Return(pr)
      BY <3>1, ReturnType
    <3>2. CASE Await(pr, "teardown") /\ UNCHANGED snapshot
      BY <1>22, <3>2 DEF TypeOK, DeleteDeployment, Visit, Await, LoopPcs, HandledState
    <3> QED
      BY <1>22, <3>1, <3>2 DEF DeleteDeployment
  <2> QED
    BY <1>22, <2>1, <2>2, <2>3, <2>4 DEF TypeOK, DeleteDeployment
<1>23. ASSUME NEW pr \in PRs, DeleteService(pr) PROVE TypeOK'
  <2>1. instances' \in [PRs -> Instance \cup {NoInstance}]
    BY <1>23 DEF TypeOK, DeleteService, RemoveInstance
  <2>2. mishaps' \in [PRs -> SUBSET Mishaps]
    BY <1>23, OutageType DEF TypeOK, DeleteService
  <2> QED
    BY <1>23, <2>1, <2>2, ReturnType DEF TypeOK, DeleteService
<1>24. ASSUME NEW pr \in PRs, HandleFailed(pr) PROVE TypeOK'
  BY <1>24, ReturnType DEF TypeOK, HandleFailed, RemoveInstance
<1>25. ASSUME Crash PROVE TypeOK'
  BY <1>25 DEF TypeOK, Crash, Strand, Idle, RequestPcs, Between, LoopPcs, Mishaps
<1>26. ASSUME RecoverLoad PROVE TypeOK'
  BY <1>26 DEF TypeOK, RecoverLoad, Strand, Mishaps
<1>27. ASSUME NEW pr \in PRs, RecoverReady(pr) PROVE TypeOK'
  BY <1>27 DEF TypeOK, RecoverReady, Recover, Instance, Mishaps
<1>28. ASSUME NEW pr \in PRs, RecoverNoService(pr) PROVE TypeOK'
  BY <1>28 DEF TypeOK, RecoverNoService, Recover, DeleteRow, Strand, Mishaps
<1>29. ASSUME NEW pr \in PRs, RecoverNotReady(pr) PROVE TypeOK'
  BY <1>29 DEF TypeOK, RecoverNotReady, Recover, Strand, Mishaps
<1>30. ASSUME NEW pr \in PRs, RecoverMissing(pr) PROVE TypeOK'
  BY <1>30 DEF TypeOK, RecoverMissing, Recover, DeleteRow, Strand, Mishaps
<1>31. ASSUME RecoverDone PROVE TypeOK'
  BY <1>31 DEF TypeOK, RecoverDone
<1>32. ASSUME FinishBuild PROVE TypeOK'
  BY <1>32 DEF TypeOK, FinishBuild, processVars
<1>33. ASSUME UNCHANGED vars PROVE TypeOK'
  BY <1>33 DEF TypeOK, vars
<1> QED
  BY <1>1, <1>2, <1>3, <1>4, <1>5, <1>6, <1>7, <1>8, <1>9, <1>10, <1>11, <1>12,
     <1>13, <1>14, <1>15, <1>16, <1>17, <1>18, <1>19, <1>20, <1>21, <1>22, <1>23,
     <1>24, <1>25, <1>26, <1>27, <1>28, <1>29, <1>30, <1>31, <1>32, <1>33
  DEF Next, StartSteps, LoopSteps, Handle, RecoverySteps, RecoverRow

\* Type correctness: each instance carries exactly the data of its state, and a
\* handler that is suspended handles an instance it found in that handler's state.
THEOREM TypeCorrect == Spec => []TypeOK
  BY TypeInit, TypeStep, PTL DEF Spec
=============================================================================
