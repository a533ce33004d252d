-------------------------- MODULE PrLifecycleProofs --------------------------
(***************************************************************************)
(* The safety properties of PrLifecycle, proved from the inductive          *)
(* invariant IInv for all sets of PRs, commits, ports and clients.          *)
(*                                                                          *)
(* Almost every conjunct of IInv speaks of one PR, and almost every step    *)
(* belongs to one PR.  So the proof of IInv' falls into two parts: a step   *)
(* that leaves a PR untouched keeps PrInv of that PR (Frame, HandleLocal,   *)
(* RecoverLocal), and a step of a PR keeps its own PrInv (HandleKeeps,      *)
(* StartKeeps, RecoverKeeps).  Each case of the second part first says what *)
(* the step does to that PR's entries of the maps, and then that this keeps *)
(* PrInv.                                                                   *)
(***************************************************************************)
EXTENDS PrLifecycleTypes

USE DEF Maybe, clusterVars, buildVars

(* Steps of other PRs. *)

\* The step changes nothing that PrInv(q) speaks of, but that images may be added.
Untouched(q) ==
  /\ phase' = phase
  /\ q \in todo' <=> q \in todo
  /\ instances'[q] = instances[q]
  /\ snapshot'[q] = snapshot[q]
  /\ backends'[q] = backends[q]
  /\ services'[q] = services[q]
  /\ deployments'[q] = deployments[q]
  /\ db'[q] = db[q]
  /\ mishaps'[q] = mishaps[q]
  /\ images \subseteq images'
  /\ \A pc \in LoopPcs \ {"idle"} : loop' = [pc |-> pc, pr |-> q] <=> loop = [pc |-> pc, pr |-> q]

\* A step that leaves q untouched keeps what holds of q.
LEMMA Frame ==
  ASSUME NEW q \in PRs, PrInv(q), Untouched(q)
  PROVE  PrInv(q)'
  BY DEF PrInv, Untouched, Raced, Resume, LoopPcs, HandledIsCurrent, RegisteredWhileReady,
    PortIsServices, DeploymentIsSnapshots, ImageExists, DeploysOwnCommit, RowIsBuilt,
    DeploymentIsKnown, DeploymentIsOwned, Undisturbed

\* The handler of one PR touches no other PR.
LEMMA HandleLocal ==
  ASSUME TypeOK, NEW p \in PRs, Handle(p), NEW q \in PRs \ {p}
  PROVE  Untouched(q)
<1>1. CASE HandleBuildingTimeout(p)
  BY <1>1 DEF TypeOK, Untouched, HandleBuildingTimeout, Fail, Visit, Return, SetState,
    Between
<1>2. CASE HandleBuilding(p)
  BY <1>2 DEF TypeOK, Untouched, HandleBuilding, SetState, Fail, Visit, Return, Between
<1>3. CASE DeleteOldDeployment(p)
  BY <1>3 DEF TypeOK, Untouched, DeleteOldDeployment, Fail, Outage, Visit, Await, Return,
    SetState, Between
<1>4. CASE CreateDeployment(p)
  BY <1>4 DEF TypeOK, Untouched, CreateDeployment, Fail, Outage, Await, Resume, Return,
    SetState, Between
<1>5. CASE DeleteOldService(p)
  BY <1>5 DEF TypeOK, Untouched, DeleteOldService, Outage, Await, Resume
<1>6. CASE CreateService(p)
  BY <1>6 DEF TypeOK, Untouched, CreateService, SetState, Fail, Outage, Resume, Return,
    Between
<1>7. CASE HandleStartingTimeout(p)
  BY <1>7 DEF TypeOK, Untouched, HandleStartingTimeout, SetState, Visit, Return, Between
<1>8. CASE HandleStarting(p)
  BY <1>8 DEF TypeOK, Untouched, HandleStarting, Visit, Await, Return, Between
<1>9. CASE MarkReady(p)
  BY <1>9 DEF TypeOK, Untouched, MarkReady, SetState, Await, Resume
<1>10. CASE Persist(p)
  BY <1>10 DEF TypeOK, Untouched, Persist, Resume, Return, Between
<1>11. CASE HandleReady(p)
  BY <1>11 DEF TypeOK, Untouched, HandleReady, Visit, Return, Between
<1>12. CASE HandleReadyExpired(p)
  BY <1>12 DEF TypeOK, Untouched, HandleReadyExpired, Visit, Await
<1>13. CASE MarkShuttingDown(p)
  BY <1>13 DEF TypeOK, Untouched, MarkShuttingDown, SetState, Resume, Return, Between
<1>14. CASE DeleteDeployment(p)
  BY <1>14 DEF TypeOK, Untouched, DeleteDeployment, Outage, Visit, Await, Return,
    RemoveInstance, Between
<1>15. CASE DeleteService(p)
  BY <1>15 DEF TypeOK, Untouched, DeleteService, Outage, Resume, Return, RemoveInstance,
    Between
<1>16. CASE HandleFailed(p)
  BY <1>16 DEF TypeOK, Untouched, HandleFailed, Visit, Return, RemoveInstance, Between
<1> QED
  BY <1>1, <1>2, <1>3, <1>4, <1>5, <1>6, <1>7, <1>8, <1>9, <1>10, <1>11, <1>12, <1>13,
    <1>14, <1>15, <1>16
  DEF Handle

(* Steps of the lifecycle loop. *)

\* The instance of p after update_instance_state.
Updated(p, state, tag, port) ==
  IF HasInstance(p)
  THEN [state |-> state, commit |-> instances[p].commit, tag |-> tag, port |-> port]
  ELSE instances[p]

\* What update_instance_state does to the instance itself.
LEMMA SetStateAt ==
  ASSUME TypeOK, NEW p \in PRs, NEW state, NEW tag, NEW port, SetState(p, state, tag, port)
  PROVE  instances'[p] = Updated(p, state, tag, port)
  BY DEF TypeOK, SetState, Updated

\* What marking an instance Failed does to it.
LEMMA FailAt ==
  ASSUME TypeOK, NEW p \in PRs, Fail(p)
  PROVE  instances'[p] = Updated(p, "Failed", None, None)
  BY SetStateAt DEF Fail

\* What a handler's return does to the snapshot entry it worked on.
LEMMA ReturnAt ==
  ASSUME TypeOK, NEW p \in PRs, Return(p)
  PROVE  loop' = Between /\ snapshot'[p] = NoInstance
  BY DEF TypeOK, Return

\* What a failed call leaves in the history of its PR.
LEMMA OutageAt ==
  ASSUME TypeOK, NEW p \in PRs, Outage(p)
  PROVE  mishaps'[p] = mishaps[p] \cup {"outage"}
  BY DEF TypeOK, Outage

\* A handler runs only while the proxy listens.
LEMMA HandleServes ==
  ASSUME IInv, NEW p \in PRs, Handle(p)
  PROVE  phase = "serving" /\ todo = {} /\ UNCHANGED <<phase, todo>>
<1>1. loop # Between \/ snapshot[p] # NoInstance
  BY DEF Handle, HandleBuildingTimeout, HandleBuilding, DeleteOldDeployment,
    CreateDeployment, DeleteOldService, CreateService, HandleStartingTimeout,
    HandleStarting, MarkReady, Persist, HandleReady, HandleReadyExpired, MarkShuttingDown,
    DeleteDeployment, DeleteService, HandleFailed, Visit, Resume, Between, NoInstance
<1>2. UNCHANGED <<phase, todo>>
  BY DEF Handle, HandleBuildingTimeout, HandleBuilding, DeleteOldDeployment,
    CreateDeployment, DeleteOldService, CreateService, HandleStartingTimeout,
    HandleStarting, MarkReady, Persist, HandleReady, HandleReadyExpired, MarkShuttingDown,
    DeleteDeployment, DeleteService, HandleFailed
<1> QED
  BY <1>1, <1>2 DEF IInv, BeforeServing

\* Every handler step keeps what holds of the PR it handles: it works on a snapshot
\* that is still current, so what it writes follows from what is there.
LEMMA HandleKeeps ==
  ASSUME IInv, NEW p \in PRs, Handle(p)
  PROVE  PrInv(p)'
<1>a. phase = "serving" /\ todo = {} /\ UNCHANGED <<phase, todo>>
  BY HandleServes
<1>b. PrInv(p) /\ TypeOK
  BY DEF IInv
<1>c. /\ instances[p] \in Instance \cup {NoInstance}
      /\ snapshot[p] \in Instance \cup {NoInstance}
  BY <1>b DEF TypeOK
<1> USE DEF PrInv, HandledIsCurrent, RegisteredWhileReady, PortIsServices, DeploymentIsSnapshots,
    ImageExists, DeploysOwnCommit, RowIsBuilt, DeploymentIsKnown, DeploymentIsOwned, Raced, Undisturbed,
    Resume, Updated, HasInstance, Between, NoInstance, Instance
<1>d. Undisturbed(p) => ~Raced(p)
  OBVIOUS
<1>1. CASE HandleBuildingTimeout(p)
  <2>1. loop.pc = "idle" /\ snapshot[p].state = "Building"
    BY <1>1, <1>b DEF TypeOK, HandleBuildingTimeout, Visit
  <2>2. /\ instances'[p] = Updated(p, "Failed", None, None)
        /\ snapshot'[p] = NoInstance
        /\ loop' = Between
        /\ UNCHANGED <<backends, db, deployments, services, images, mishaps>>
    BY <1>1, <1>b, FailAt, ReturnAt DEF TypeOK, HandleBuildingTimeout
  <2> QED
    BY <1>a, <1>b, <1>c, <1>d, <2>1, <2>2, NoneAssumption
<1>2. CASE HandleBuilding(p)
  <2>1. loop.pc = "idle" /\ snapshot[p].state = "Building"
    BY <1>2, <1>b DEF TypeOK, HandleBuilding, Visit
  <2>2. /\ \/ instances'[p] = instances[p]
           \/ instances'[p] = Updated(p, "Failed", None, None)
           \/ /\ instances'[p] = Updated(p, "Deploying", snapshot[p].commit, None)
              /\ <<p, snapshot[p].commit>> \in images
        /\ snapshot'[p] = NoInstance
        /\ loop' = Between
        /\ UNCHANGED <<backends, db, deployments, services, images, mishaps>>
    BY <1>2, <1>b, FailAt, SetStateAt, ReturnAt DEF TypeOK, HandleBuilding, PollBuild
  <2> QED
    BY <1>a, <1>b, <1>c, <1>d, <2>1, <2>2, NoneAssumption
<1>3. CASE DeleteOldDeployment(p)
  <2>1. loop.pc = "idle" /\ snapshot[p].state = "Deploying"
    BY <1>3, <1>b DEF TypeOK, DeleteOldDeployment, Visit
  <2>2. /\ \/ /\ deployments'[p] = None
              /\ loop' = [pc |-> "create", pr |-> p]
              /\ UNCHANGED <<instances, snapshot, mishaps>>
           \/ /\ loop' = [pc |-> "create", pr |-> p]
              /\ mishaps'[p] = mishaps[p] \cup {"outage"}
              /\ UNCHANGED <<instances, snapshot>>
           \/ /\ instances'[p] = Updated(p, "Failed", None, None)
              /\ snapshot'[p] = NoInstance
              /\ loop' = Between
              /\ mishaps'[p] = mishaps[p] \cup {"outage"}
        /\ UNCHANGED <<backends, db, services, images>>
    BY <1>3, <1>b, FailAt, ReturnAt, OutageAt DEF TypeOK, DeleteOldDeployment, Await
  <2> QED
    BY <1>a, <1>b, <1>c, <1>d, <2>1, <2>2, NoneAssumption
<1>4. CASE CreateDeployment(p)
  <2>1. loop = [pc |-> "create", pr |-> p] /\ snapshot[p].state = "Deploying"
    BY <1>4, <1>b DEF TypeOK, CreateDeployment, Resume, HandledState
  <2>2. /\ \/ /\ deployments'[p] = snapshot[p].tag
              /\ loop' = [pc |-> "deleteService", pr |-> p]
              /\ UNCHANGED <<instances, snapshot, mishaps>>
           \/ /\ instances'[p] = Updated(p, "Failed", None, None)
              /\ snapshot'[p] = NoInstance
              /\ loop' = Between
              /\ mishaps'[p] = mishaps[p] \cup {"outage"}
        /\ UNCHANGED <<backends, db, services, images>>
    BY <1>4, <1>b, FailAt, ReturnAt, OutageAt DEF TypeOK, CreateDeployment, Await
  <2> QED
    BY <1>a, <1>b, <1>c, <1>d, <2>1, <2>2, NoneAssumption
<1>5. CASE DeleteOldService(p)
  <2>1. loop = [pc |-> "deleteService", pr |-> p] /\ snapshot[p].state = "Deploying"
    BY <1>5, <1>b DEF TypeOK, DeleteOldService, Resume, HandledState
  <2>2. /\ loop' = [pc |-> "createService", pr |-> p]
        /\ mishaps'[p] \in {mishaps[p], mishaps[p] \cup {"outage"}}
        /\ UNCHANGED <<instances, snapshot, backends, db, deployments, images>>
    BY <1>5, <1>b, OutageAt DEF TypeOK, DeleteOldService, Await
  <2> QED
    BY <1>a, <1>b, <1>c, <1>d, <2>1, <2>2, NoneAssumption
<1>6. CASE CreateService(p)
  <2>1. loop = [pc |-> "createService", pr |-> p] /\ snapshot[p].state = "Deploying"
    BY <1>6, <1>b DEF TypeOK, CreateService, Resume, HandledState
  <2>2. /\ \/ /\ services'[p] \in Ports
              /\ instances'[p] = Updated(p, "Starting", None, services'[p])
              /\ UNCHANGED mishaps
           \/ /\ instances'[p] = Updated(p, "Failed", None, None)
              /\ mishaps'[p] = mishaps[p] \cup {"outage"}
        /\ snapshot'[p] = NoInstance
        /\ loop' = Between
        /\ UNCHANGED <<backends, db, deployments, images>>
    BY <1>6, <1>b, FailAt, SetStateAt, ReturnAt, OutageAt DEF TypeOK, CreateService,
      FreePorts
  <2> QED
    BY <1>a, <1>b, <1>c, <1>d, <2>1, <2>2, NoneAssumption
<1>7. CASE HandleStartingTimeout(p)
  <2>1. loop.pc = "idle" /\ snapshot[p].state = "Starting"
    BY <1>7, <1>b DEF TypeOK, HandleStartingTimeout, Visit
  <2>2. /\ instances'[p] = Updated(p, "ShuttingDown", None, None)
        /\ snapshot'[p] = NoInstance
        /\ loop' = Between
        /\ UNCHANGED <<backends, db, deployments, services, images, mishaps>>
    BY <1>7, <1>b, SetStateAt, ReturnAt DEF TypeOK, HandleStartingTimeout
  <2> QED
    BY <1>a, <1>b, <1>c, <1>d, <2>1, <2>2, NoneAssumption
<1>8. CASE HandleStarting(p)
  <2>1. loop.pc = "idle" /\ snapshot[p].state = "Starting"
    BY <1>8, <1>b DEF TypeOK, HandleStarting, Visit
  <2>2. /\ \/ /\ backends'[p] = snapshot[p].port
              /\ loop' = [pc |-> "markReady", pr |-> p]
              /\ UNCHANGED snapshot
           \/ /\ snapshot'[p] = NoInstance
              /\ loop' = Between
              /\ UNCHANGED backends
        /\ UNCHANGED <<instances, db, deployments, services, images, mishaps>>
    BY <1>8, <1>b, ReturnAt DEF TypeOK, HandleStarting, Await
  <2> QED
    BY <1>a, <1>b, <1>c, <1>d, <2>1, <2>2, NoneAssumption
<1>9. CASE MarkReady(p)
  <2>1. loop = [pc |-> "markReady", pr |-> p] /\ snapshot[p].state = "Starting"
    BY <1>9, <1>b DEF TypeOK, MarkReady, Resume, HandledState
  <2>2. /\ instances'[p] = Updated(p, "Ready", None, snapshot[p].port)
        /\ loop' = [pc |-> "persist", pr |-> p]
        /\ UNCHANGED <<snapshot, backends, db, deployments, services, images, mishaps>>
    BY <1>9, <1>b, SetStateAt DEF TypeOK, MarkReady, Await
  <2> QED
    BY <1>a, <1>b, <1>c, <1>d, <2>1, <2>2, NoneAssumption
<1>10. CASE Persist(p)
  <2>1. loop = [pc |-> "persist", pr |-> p] /\ snapshot[p].state = "Starting"
    BY <1>10, <1>b DEF TypeOK, Persist, Resume, HandledState
  <2>2. /\ db'[p] \in {db[p], snapshot[p].commit}
        /\ snapshot'[p] = NoInstance
        /\ loop' = Between
        /\ UNCHANGED <<instances, backends, deployments, services, images, mishaps>>
    BY <1>10, <1>b, ReturnAt DEF TypeOK, Persist
  <2> QED
    BY <1>a, <1>b, <1>c, <1>d, <2>1, <2>2, NoneAssumption
<1>11. CASE HandleReady(p)
  <2>1. loop.pc = "idle" /\ snapshot[p].state = "Ready"
    BY <1>11, <1>b DEF TypeOK, HandleReady, Visit
  <2>2. /\ snapshot'[p] = NoInstance
        /\ loop' = Between
        /\ UNCHANGED <<instances, backends, db, deployments, services, images, mishaps>>
    BY <1>11, <1>b, ReturnAt DEF TypeOK, HandleReady
  <2> QED
    BY <1>a, <1>b, <1>c, <1>d, <2>1, <2>2, NoneAssumption
<1>12. CASE HandleReadyExpired(p)
  <2>1. loop.pc = "idle" /\ snapshot[p].state = "Ready"
    BY <1>12, <1>b DEF TypeOK, HandleReadyExpired, Visit
  <2>2. /\ backends'[p] = None
        /\ loop' = [pc |-> "markShutdown", pr |-> p]
        /\ UNCHANGED <<instances, snapshot, db, deployments, services, images, mishaps>>
    BY <1>12, <1>b DEF TypeOK, HandleReadyExpired, Await
  <2> QED
    BY <1>a, <1>b, <1>c, <1>d, <2>1, <2>2, NoneAssumption
<1>13. CASE MarkShuttingDown(p)
  <2>1. loop = [pc |-> "markShutdown", pr |-> p] /\ snapshot[p].state = "Ready"
    BY <1>13, <1>b DEF TypeOK, MarkShuttingDown, Resume, HandledState
  <2>2. /\ instances'[p] = Updated(p, "ShuttingDown", None, None)
        /\ snapshot'[p] = NoInstance
        /\ loop' = Between
        /\ UNCHANGED <<backends, db, deployments, services, images, mishaps>>
    BY <1>13, <1>b, SetStateAt, ReturnAt DEF TypeOK, MarkShuttingDown
  <2> QED
    BY <1>a, <1>b, <1>c, <1>d, <2>1, <2>2, NoneAssumption
<1>14. CASE DeleteDeployment(p)
  <2>1. loop.pc = "idle" /\ snapshot[p].state = "ShuttingDown"
    BY <1>14, <1>b DEF TypeOK, DeleteDeployment, Visit
  <2>2. /\ \/ /\ deployments'[p] = None
              /\ loop' = [pc |-> "teardown", pr |-> p]
              /\ UNCHANGED <<instances, snapshot, mishaps>>
           \/ /\ instances'[p] = NoInstance
              /\ snapshot'[p] = NoInstance
              /\ loop' = Between
              /\ mishaps'[p] = mishaps[p] \cup {"outage"}
        /\ UNCHANGED <<backends, db, services, images>>
    BY <1>14, <1>b, ReturnAt, OutageAt DEF TypeOK, DeleteDeployment, Await, RemoveInstance
  <2> QED
    BY <1>a, <1>b, <1>c, <1>d, <2>1, <2>2, NoneAssumption
<1>15. CASE DeleteService(p)
  <2>1. loop = [pc |-> "teardown", pr |-> p] /\ snapshot[p].state = "ShuttingDown"
    BY <1>15, <1>b DEF TypeOK, DeleteService, Resume, HandledState
  <2>2. /\ instances'[p] = NoInstance
        /\ snapshot'[p] = NoInstance
        /\ loop' = Between
        /\ mishaps'[p] \in {mishaps[p], mishaps[p] \cup {"outage"}}
        /\ UNCHANGED <<backends, db, deployments, images>>
    BY <1>15, <1>b, ReturnAt, OutageAt DEF TypeOK, DeleteService, RemoveInstance
  <2> QED
    BY <1>a, <1>b, <1>c, <1>d, <2>1, <2>2, NoneAssumption
<1>16. CASE HandleFailed(p)
  <2>1. loop.pc = "idle" /\ snapshot[p].state = "Failed"
    BY <1>16, <1>b DEF TypeOK, HandleFailed, Visit
  <2>2. /\ instances'[p] = NoInstance
        /\ snapshot'[p] = NoInstance
        /\ loop' = Between
        /\ UNCHANGED <<backends, db, deployments, services, images, mishaps>>
    BY <1>16, <1>b, ReturnAt DEF TypeOK, HandleFailed, RemoveInstance
  <2> QED
    BY <1>a, <1>b, <1>c, <1>d, <2>1, <2>2, NoneAssumption
<1> QED
  BY <1>1, <1>2, <1>3, <1>4, <1>5, <1>6, <1>7, <1>8, <1>9, <1>10, <1>11, <1>12, <1>13,
    <1>14, <1>15, <1>16
  DEF Handle

(* Steps of start_pr, of the loop between two handlers, of crash and recovery. *)

\* No step of start_pr disturbs a PR that has not been raced: a request that inserts
\* over a tracked instance marks the PR raced, and any other finds it untracked.
LEMMA StartKeeps ==
  ASSUME IInv, NEW c \in Clients, (\E pr \in PRs : StartPr(c, pr)) \/ StartSteps(c),
         NEW q \in PRs
  PROVE  PrInv(q)'
<1>a. PrInv(q) /\ TypeOK
  BY DEF IInv
<1>b. ASSUME NEW instance \in Instance, instance.state \in {"Building", "Deploying"},
             requests[c].pr \in PRs, Insert(requests[c].pr, instance),
             ~Raced(requests[c].pr) /\ instance.state = "Deploying" =>
               /\ instance.tag = instance.commit
               /\ <<requests[c].pr, instance.commit>> \in images,
             requests[c].pc # "idle",
             UNCHANGED <<phase, todo, backends, snapshot, loop, db, clusterVars, buildVars>>
      PROVE  PrInv(q)'
  <2>1. CASE q # requests[c].pr
    <3>1. Untouched(q)
      BY <1>a, <1>b, <2>1 DEF TypeOK, Insert, Untouched
    <3> QED
      BY <1>a, <3>1, Frame
  <2>2. CASE q = requests[c].pr
    <3>1. phase = "serving"
      BY <1>b DEF IInv, BeforeServing, Idle
    <3>2. /\ instances'[q] = instance
          /\ mishaps'[q] =
               (IF HasInstance(q) THEN mishaps[q] \cup {"race"} ELSE mishaps[q]) \ {"stale"}
      BY <1>a, <1>b, <2>2 DEF TypeOK, Insert
    <3>3. ~Raced(q)' => ~Raced(q) /\ instances[q] = NoInstance
      BY <3>2 DEF Raced, HasInstance
    <3>4. snapshot[q] \in Instance \cup {NoInstance} /\ mishaps[q] \in SUBSET Mishaps
      BY <1>a DEF TypeOK
    <3>5. Undisturbed(q)' => ~Raced(q)' /\ Undisturbed(q)
      BY <3>2 DEF Raced, Undisturbed
    <3>6. \A pc \in LoopPcs : loop = [pc |-> pc, pr |-> q] /\ pc # "idle" => snapshot[q] # NoInstance
      BY <1>a DEF TypeOK, HandledState, NoInstance, LoopPcs
    <3>7. /\ HandledIsCurrent(q)' /\ RegisteredWhileReady(q)' /\ PortIsServices(q)'
          /\ DeploymentIsSnapshots(q)'
      BY <1>a, <1>b, <2>2, <3>2, <3>3, <3>4, <3>6, NoneAssumption
      DEF PrInv, HandledIsCurrent, RegisteredWhileReady, PortIsServices,
        DeploymentIsSnapshots, Resume, NoInstance, Instance, LoopPcs
    <3>8. ImageExists(q)' /\ DeploysOwnCommit(q)' /\ RowIsBuilt(q)'
      BY <1>a, <1>b, <2>2, <3>2, <3>3 DEF PrInv, ImageExists, DeploysOwnCommit, RowIsBuilt
    <3>9. DeploymentIsKnown(q)' /\ DeploymentIsOwned(q)'
      BY <1>a, <1>b, <2>2, <3>1, <3>2, <3>3, <3>5
      DEF PrInv, DeploymentIsKnown, DeploymentIsOwned, Resume, NoInstance, HasInstance
    <3> QED
      BY <3>7, <3>8, <3>9 DEF PrInv
  <2> QED
    BY <2>1, <2>2
<1>1. ASSUME NEW pr \in PRs, StartPr(c, pr) PROVE PrInv(q)'
  BY <1>a, <1>1, Frame DEF StartPr, Untouched
<1>2. CASE StartCheckBackends(c)
  BY <1>a, <1>2, Frame DEF StartCheckBackends, Untouched
<1>3. CASE StartFetchCommit(c)
  BY <1>a, <1>3, Frame DEF StartFetchCommit, Untouched
<1>4. CASE StartLookup(c)
  BY <1>a, <1>4, Frame DEF StartLookup, Untouched
<1>5. CASE StartDeploying(c)
  <2> DEFINE r == requests[c]
             deploying == [state |-> "Deploying", commit |-> r.commit,
                           tag |-> r.commit, port |-> None]
  <2>1. r.pr \in PRs /\ r.pc = "deploy" /\ deploying \in Instance
    BY <1>a, <1>5 DEF TypeOK, StartDeploying, Instance
  <2>2. ~Raced(r.pr) => <<r.pr, r.commit>> \in images
    BY <2>1 DEF IInv, SkipsBuilt
  <2>3. Insert(r.pr, deploying)
    BY <1>5 DEF StartDeploying
  <2> QED
    BY <1>b, <1>5, <2>1, <2>2, <2>3 DEF StartDeploying
<1>6. CASE StartTrigger(c)
  BY <1>a, <1>6, Frame DEF StartTrigger, Untouched
<1>7. CASE StartBuilding(c)
  <2> DEFINE r == requests[c]
             building == [state |-> "Building", commit |-> r.commit,
                          tag |-> None, port |-> None]
  <2>1. r.pr \in PRs /\ r.pc = "insert" /\ building \in Instance
    BY <1>a, <1>7 DEF TypeOK, StartBuilding, Instance
  <2>2. Insert(r.pr, building)
    BY <1>7 DEF StartBuilding
  <2> QED
    BY <1>b, <1>7, <2>1, <2>2 DEF StartBuilding
<1> QED
  BY <1>1, <1>2, <1>3, <1>4, <1>5, <1>6, <1>7 DEF StartSteps

\* A new snapshot is current.
LEMMA TickKeeps ==
  ASSUME IInv, LoopTick, NEW q \in PRs
  PROVE  PrInv(q)'
<1>1. PrInv(q) /\ loop.pc = "idle" /\ snapshot'[q] = instances[q]
  BY DEF IInv, TypeOK, LoopTick
<1>2. UNCHANGED <<phase, todo, instances, backends, loop, db, clusterVars, buildVars, mishaps>>
  BY DEF LoopTick
<1> QED
  BY <1>1, <1>2 DEF PrInv, HandledIsCurrent, RegisteredWhileReady, PortIsServices,
    DeploymentIsSnapshots, ImageExists, DeploysOwnCommit, RowIsBuilt, DeploymentIsKnown,
    DeploymentIsOwned, Undisturbed, Raced, Resume

\* A crash loses the process state, and only that.
LEMMA CrashKeeps ==
  ASSUME IInv, Crash, NEW q \in PRs
  PROVE  PrInv(q)'
<1>1. /\ PrInv(q)
      /\ mishaps'[q] = IF db[q] = None /\ deployments[q] # None
                       THEN mishaps[q] \cup {"outage"} ELSE mishaps[q]
  BY DEF IInv, TypeOK, Crash, Strand
<1>2. /\ phase' = "load"
      /\ instances'[q] = NoInstance
      /\ backends'[q] = None
      /\ snapshot'[q] = NoInstance
      /\ loop' = Between
      /\ UNCHANGED <<db, services, deployments, images>>
  BY DEF Crash
<1> QED
  BY <1>1, <1>2 DEF PrInv, HandledIsCurrent, RegisteredWhileReady, PortIsServices,
    DeploymentIsSnapshots, ImageExists, DeploysOwnCommit, RowIsBuilt, DeploymentIsKnown,
    DeploymentIsOwned, Undisturbed, Raced, Resume, Between, NoInstance

\* Reading the rows strands no Deployment silently.
LEMMA RecoverLoadKeeps ==
  ASSUME IInv, RecoverLoad, NEW q \in PRs
  PROVE  PrInv(q)'
<1>1. /\ PrInv(q)
      /\ loop = Between
      /\ phase = "load"
      /\ phase' = "recover"
      /\ instances[q] = NoInstance
      /\ UNCHANGED <<instances, backends, snapshot, loop, db, deployments, services, images>>
  BY DEF IInv, BeforeServing, RecoverLoad
<1>2. \/ (q \in todo' <=> db[q] # None) /\ mishaps'[q] = mishaps[q]
      \/ mishaps'[q] = IF deployments[q] # None THEN mishaps[q] \cup {"outage"} ELSE mishaps[q]
  BY DEF IInv, TypeOK, RecoverLoad, Strand
<1> QED
  BY <1>1, <1>2 DEF PrInv, HandledIsCurrent, RegisteredWhileReady, PortIsServices,
    DeploymentIsSnapshots, ImageExists, DeploysOwnCommit, RowIsBuilt, DeploymentIsKnown,
    DeploymentIsOwned, Undisturbed, Raced, Resume, Between, NoInstance

\* When recovery is done every row has been visited.
LEMMA RecoverDoneKeeps ==
  ASSUME IInv, RecoverDone, NEW q \in PRs
  PROVE  PrInv(q)'
<1>1. /\ PrInv(q)
      /\ loop = Between
      /\ phase = "recover"
      /\ phase' = "serving"
      /\ todo = {}
      /\ UNCHANGED <<todo, instances, backends, snapshot, loop, db, deployments, services,
                     images, mishaps>>
  BY DEF IInv, BeforeServing, RecoverDone
<1> QED
  BY <1>1 DEF PrInv, HandledIsCurrent, RegisteredWhileReady, PortIsServices,
    DeploymentIsSnapshots, ImageExists, DeploysOwnCommit, RowIsBuilt, DeploymentIsKnown,
    DeploymentIsOwned, Undisturbed, Raced, Resume, Between

\* Recovering one row touches no other PR.
LEMMA RecoverLocal ==
  ASSUME TypeOK, NEW p \in PRs, RecoverRow(p), NEW q \in PRs \ {p}
  PROVE  Untouched(q)
  BY DEF TypeOK, Untouched, RecoverRow, Recover, RecoverReady, RecoverNoService,
    RecoverNotReady, RecoverMissing, DeleteRow, Strand

\* Recovering a row keeps what holds of its PR.
LEMMA RecoverKeeps ==
  ASSUME IInv, NEW p \in PRs, RecoverRow(p)
  PROVE  PrInv(p)'
<1>a. PrInv(p) /\ TypeOK
  BY DEF IInv
<1>b. /\ phase = "recover" /\ UNCHANGED <<phase, loop, snapshot, deployments, services, images>>
      /\ p \in todo /\ p \notin todo'
      /\ loop = Between
      /\ snapshot[p] = NoInstance
      /\ instances[p] = NoInstance
      /\ backends[p] = None
      /\ Undisturbed(p) => ~Raced(p)
  BY DEF IInv, BeforeServing, RecoverRow, Recover, RecoverReady, RecoverNoService,
    RecoverNotReady, RecoverMissing, Raced, Undisturbed
<1>1. CASE RecoverReady(p)
  <2>1. /\ instances'[p] = [state |-> "Ready", commit |-> db[p], tag |-> None,
                            port |-> services[p]]
        /\ backends'[p] = services[p]
        /\ services[p] # None
        /\ db[p] # None
        /\ <<p, deployments[p]>> \in images
        /\ UNCHANGED db
    BY <1>a, <1>b, <1>1 DEF TypeOK, RecoverReady, DeploymentStatus
  <2>2. /\ mishaps'[p] = IF deployments[p] = db[p] THEN mishaps[p] \ {"stale"}
                          ELSE mishaps[p] \cup {"stale"}
        /\ Raced(p)' <=> Raced(p)
        /\ Undisturbed(p)' <=> Undisturbed(p)
        /\ "stale" \in mishaps'[p] \/ deployments[p] = db[p]
    BY <1>a, <1>1 DEF TypeOK, RecoverReady, Raced, Undisturbed
  <2> QED
    BY <1>a, <1>b, <2>1, <2>2 DEF PrInv, HandledIsCurrent, RegisteredWhileReady,
      PortIsServices, DeploymentIsSnapshots, ImageExists, DeploysOwnCommit, RowIsBuilt,
      DeploymentIsKnown, DeploymentIsOwned, Resume, Between
<1>2. CASE RecoverNoService(p) \/ RecoverNotReady(p) \/ RecoverMissing(p)
  <2>1. /\ db'[p] \in {db[p], None}
        /\ mishaps'[p] = IF deployments[p] # None THEN mishaps[p] \cup {"outage"} ELSE mishaps[p]
        /\ UNCHANGED <<instances, backends>>
    BY <1>a, <1>2 DEF TypeOK, RecoverNoService, RecoverNotReady, RecoverMissing, DeleteRow,
      Strand
  <2> QED
    BY <1>a, <1>b, <2>1 DEF PrInv, HandledIsCurrent, RegisteredWhileReady, PortIsServices,
      DeploymentIsSnapshots, ImageExists, DeploysOwnCommit, RowIsBuilt, DeploymentIsKnown,
      DeploymentIsOwned, Undisturbed, Raced, Resume, Between, NoInstance
<1> QED
  BY <1>1, <1>2 DEF RecoverRow

\* A finished build only adds an image.
LEMMA FinishKeeps ==
  ASSUME IInv, FinishBuild, NEW q \in PRs
  PROVE  PrInv(q)'
<1>1. PrInv(q) /\ Untouched(q)
  BY DEF IInv, FinishBuild, processVars, Untouched
<1> QED
  BY <1>1, Frame

\* Every step keeps what holds of each PR.
LEMMA PrInvStep ==
  ASSUME IInv, [Next]_vars, NEW q \in PRs
  PROVE  PrInv(q)'
<1>1. PrInv(q) /\ TypeOK
  BY DEF IInv
<1>2. ASSUME NEW p \in PRs, Handle(p) PROVE PrInv(q)'
  <2>1. CASE q = p
    BY <1>2, <2>1, HandleKeeps
  <2>2. CASE q # p
    BY <1>1, <1>2, <2>2, HandleLocal, Frame
  <2> QED
    BY <2>1, <2>2
<1>3. ASSUME NEW p \in PRs, RecoverRow(p) PROVE PrInv(q)'
  <2>1. CASE q = p
    BY <1>3, <2>1, RecoverKeeps
  <2>2. CASE q # p
    BY <1>1, <1>3, <2>2, RecoverLocal, Frame
  <2> QED
    BY <2>1, <2>2
<1>4. CASE UNCHANGED vars
  BY <1>1, <1>4, Frame DEF vars, Untouched
<1> QED
  BY <1>2, <1>3, <1>4, StartKeeps, TickKeeps, CrashKeeps, RecoverLoadKeeps,
    RecoverDoneKeeps, FinishKeeps
  DEF Next, LoopSteps, RecoverySteps

(* The conjuncts of IInv that do not speak of one PR. *)

\* No request and no handler runs before the proxy listens.
LEMMA BeforeServingStep ==
  ASSUME IInv, [Next]_vars
  PROVE  BeforeServing'
<1>1. ASSUME NEW c \in Clients, NEW pr \in PRs, StartPr(c, pr) PROVE BeforeServing'
  BY <1>1 DEF IInv, BeforeServing, StartPr
<1>2. ASSUME NEW c \in Clients, StartSteps(c) PROVE BeforeServing'
  <2>1. phase = "serving" /\ UNCHANGED <<phase, todo>>
    BY <1>2 DEF IInv, BeforeServing, Idle, StartSteps, StartCheckBackends,
      StartFetchCommit, StartLookup, StartDeploying, StartTrigger, StartBuilding
  <2> QED
    BY <2>1 DEF IInv, BeforeServing
<1>3. CASE LoopTick
  BY <1>3 DEF IInv, BeforeServing, LoopTick
<1>4. ASSUME NEW p \in PRs, Handle(p) PROVE BeforeServing'
  BY <1>4, HandleServes DEF BeforeServing
<1>5. CASE Crash
  BY <1>5 DEF BeforeServing, Crash
<1>6. CASE RecoverLoad
  BY <1>6 DEF IInv, TypeOK, BeforeServing, RecoverLoad
<1>7. ASSUME NEW p \in PRs, RecoverRow(p) PROVE BeforeServing'
  BY <1>7 DEF IInv, TypeOK, BeforeServing, RecoverRow, Recover, RecoverReady,
    RecoverNoService, RecoverNotReady, RecoverMissing
<1>8. CASE RecoverDone
  BY <1>8 DEF IInv, BeforeServing, RecoverDone
<1>9. CASE FinishBuild \/ UNCHANGED vars
  BY <1>9 DEF IInv, BeforeServing, FinishBuild, processVars, vars
<1> QED
  BY <1>1, <1>2, <1>3, <1>4, <1>5, <1>6, <1>7, <1>8, <1>9 DEF Next, LoopSteps, RecoverySteps

\* A NodePort is assigned only while no Service holds it.
LEMMA ServicesDistinctStep ==
  ASSUME IInv, [Next]_vars
  PROVE  ServicesDistinct'
<1>1. ASSUME NEW p \in PRs, services' = [services EXCEPT ![p] = None] PROVE ServicesDistinct'
  BY <1>1 DEF IInv, TypeOK, ServicesDistinct
<1>2. ASSUME NEW p \in PRs, NEW port \in FreePorts, services' = [services EXCEPT ![p] = port]
      PROVE  ServicesDistinct'
  BY <1>2 DEF IInv, TypeOK, ServicesDistinct, FreePorts
<1>3. CASE UNCHANGED services
  BY <1>3 DEF IInv, ServicesDistinct
<1>4. ASSUME NEW p \in PRs, Handle(p) PROVE ServicesDistinct'
  BY <1>1, <1>2, <1>3, <1>4 DEF Handle, HandleBuildingTimeout, HandleBuilding,
    DeleteOldDeployment, CreateDeployment, DeleteOldService, CreateService,
    HandleStartingTimeout, HandleStarting, MarkReady, Persist, HandleReady,
    HandleReadyExpired, MarkShuttingDown, DeleteDeployment, DeleteService, HandleFailed
<1>5. ASSUME NEW c \in Clients, StartSteps(c) \/ \E pr \in PRs : StartPr(c, pr)
      PROVE  ServicesDistinct'
  BY <1>3, <1>5 DEF StartPr, StartSteps, StartCheckBackends, StartFetchCommit, StartLookup,
    StartDeploying, StartTrigger, StartBuilding
<1>6. CASE LoopTick \/ Crash \/ RecoverySteps \/ FinishBuild \/ UNCHANGED vars
  BY <1>3, <1>6 DEF LoopTick, Crash, RecoverySteps, RecoverLoad, RecoverRow, RecoverReady,
    RecoverNoService, RecoverNotReady, RecoverMissing, RecoverDone, FinishBuild, vars
<1> QED
  BY <1>4, <1>5, <1>6 DEF Next, LoopSteps

\* Images are never deleted, and a raced PR stays raced.
LEMMA HistoryGrows ==
  ASSUME IInv, [Next]_vars
  PROVE  images \subseteq images' /\ \A q \in PRs : Raced(q) => Raced(q)'
<1>1. ASSUME NEW p \in PRs, Handle(p) PROVE images \subseteq images' /\ \A q \in PRs : Raced(q) => Raced(q)'
  BY <1>1 DEF IInv, TypeOK, Raced, Outage, Handle, HandleBuildingTimeout, HandleBuilding,
    DeleteOldDeployment, CreateDeployment, DeleteOldService, CreateService,
    HandleStartingTimeout, HandleStarting, MarkReady, Persist, HandleReady,
    HandleReadyExpired, MarkShuttingDown, DeleteDeployment, DeleteService, HandleFailed
<1>2. ASSUME NEW c \in Clients, StartSteps(c) \/ \E pr \in PRs : StartPr(c, pr)
      PROVE  images \subseteq images' /\ \A q \in PRs : Raced(q) => Raced(q)'
  BY <1>2 DEF IInv, TypeOK, Raced, Insert, StartPr, StartSteps, StartCheckBackends,
    StartFetchCommit, StartLookup, StartDeploying, StartTrigger, StartBuilding
<1>3. CASE LoopTick \/ Crash \/ RecoverySteps \/ FinishBuild \/ UNCHANGED vars
  BY <1>3 DEF IInv, TypeOK, Raced, Strand, LoopTick, Crash, RecoverySteps, RecoverLoad,
    RecoverRow, RecoverReady, RecoverNoService, RecoverNotReady, RecoverMissing,
    RecoverDone, FinishBuild, vars
<1> QED
  BY <1>1, <1>2, <1>3 DEF Next, LoopSteps

\* A request decides to skip the build on a row, and a row has its image.
LEMMA SkipsBuiltStep ==
  ASSUME IInv, [Next]_vars
  PROVE  SkipsBuilt'
<1> SUFFICES ASSUME NEW c \in Clients, (requests[c].pc = "deploy")', ~Raced(requests[c].pr)'
             PROVE  (<<requests[c].pr, requests[c].commit>> \in images)'
  BY DEF SkipsBuilt
<1>1. images \subseteq images' /\ \A q \in PRs : Raced(q) => Raced(q)'
  BY HistoryGrows
<1>2. CASE requests'[c] = requests[c]
  <2>1. requests[c].pr \in PRs
    BY <1>2 DEF IInv, TypeOK
  <2>2. ~Raced(requests[c].pr)
    BY <1>1, <1>2, <2>1 DEF Raced
  <2> QED
    BY <1>1, <1>2, <2>2 DEF IInv, SkipsBuilt
<1>3. CASE StartLookup(c)
  <2>1. /\ requests[c].pr \in PRs
        /\ requests[c].commit \in Commits
        /\ requests'[c] = [requests[c] EXCEPT !.pc = "deploy"]
        /\ db[requests[c].pr] = requests[c].commit
    BY <1>3 DEF IInv, TypeOK, StartLookup, Advance, EndRequest, Idle, ExistsWithCommit
  <2>2. RowIsBuilt(requests[c].pr)
    BY <2>1 DEF IInv, PrInv
  <2>3. ~Raced(requests[c].pr)
    BY <1>1, <2>1 DEF Raced
  <2> QED
    BY <1>1, <2>1, <2>2, <2>3, NoneAssumption DEF RowIsBuilt
<1>4. ASSUME NEW d \in Clients, StartSteps(d) \/ \E pr \in PRs : StartPr(d, pr)
      PROVE  requests'[c] = requests[c] \/ StartLookup(c)
  BY <1>4 DEF IInv, TypeOK, StartPr, StartSteps, StartCheckBackends, StartFetchCommit,
    StartLookup, StartDeploying, StartTrigger, StartBuilding, Advance, EndRequest, Idle
<1>5. ASSUME NEW p \in PRs, Handle(p) PROVE requests' = requests
  BY <1>5 DEF Handle, HandleBuildingTimeout, HandleBuilding, DeleteOldDeployment,
    CreateDeployment, DeleteOldService, CreateService, HandleStartingTimeout,
    HandleStarting, MarkReady, Persist, HandleReady, HandleReadyExpired, MarkShuttingDown,
    DeleteDeployment, DeleteService, HandleFailed
<1>6. CASE LoopTick \/ RecoverySteps \/ FinishBuild \/ UNCHANGED vars
  BY <1>2, <1>6 DEF LoopTick, RecoverySteps, RecoverLoad, RecoverRow, RecoverReady,
    RecoverNoService, RecoverNotReady, RecoverMissing, RecoverDone, FinishBuild,
    processVars, vars
<1>7. ~Crash
  BY DEF Crash, Idle
<1> QED
  BY <1>2, <1>3, <1>4, <1>5, <1>6, <1>7 DEF Next, LoopSteps

(* The inductive invariant, and what follows from it. *)

\* The first boot satisfies the inductive invariant.
THEOREM InvInit == Init => IInv
  BY TypeInit DEF Init, IInv, BeforeServing, ServicesDistinct, SkipsBuilt, Idle, Between,
    NoInstance, PrInv, HandledIsCurrent, RegisteredWhileReady, PortIsServices,
    DeploymentIsSnapshots, ImageExists, DeploysOwnCommit, RowIsBuilt, DeploymentIsKnown,
    DeploymentIsOwned, Undisturbed, Resume

\* Every step keeps the inductive invariant.
THEOREM InvStep == IInv /\ [Next]_vars => IInv'
  BY TypeStep, BeforeServingStep, ServicesDistinctStep, SkipsBuiltStep, PrInvStep DEF IInv

\* The inductive invariant always holds.
THEOREM Invariance == Spec => []IInv
  BY InvInit, InvStep, PTL DEF Spec

\* The lifecycle loop never acts on an outdated instance, unless two /start of one
\* PR have raced.
THEOREM LoopActsOnCurrentState == Spec => []SnapshotIsCurrent
<1>1. IInv => SnapshotIsCurrent
  BY DEF IInv, PrInv, SnapshotIsCurrent
<1> QED
  BY <1>1, Invariance, PTL

\* The backend registry and the instance map agree on which PRs can be played, but
\* for the moments between their two locks.
THEOREM RegistryFollowsLifecycle == Spec => []BackendMatchesReady
<1>1. IInv => BackendMatchesReady
  BY DEF IInv, PrInv, BackendMatchesReady
<1> QED
  BY <1>1, Invariance, PTL

\* A player sent to pr-<n> reaches the Service of PR n and no other PR's.
THEOREM RoutingIsOwn == Spec => []RoutesToOwnService
<1>1. IInv => RoutesToOwnService
  BY DEF IInv, PrInv, PortIsServices, ServicesDistinct, RoutesToOwnService
<1> QED
  BY <1>1, Invariance, PTL

\* From the decision to deploy until the server shuts down the Deployment runs an image
\* that exists, of the commit its instance was started for: Starting and Ready included,
\* but for an instance that recovery tracked under the commit of an outdated row.
THEOREM BuiltBeforeDeployed == Spec => []DeploysBuiltImage
<1>1. IInv => DeploysBuiltImage
  BY DEF IInv, PrInv, DeploysBuiltImage
<1> QED
  BY <1>1, Invariance, PTL

\* exists_with_commit never finds a row without an image.
THEOREM RowsAreBuilt == Spec => []RowHasImage
<1>1. IInv => RowHasImage
  BY DEF IInv, PrInv, RowHasImage
<1> QED
  BY <1>1, Invariance, PTL

\* Without failed calls or crashes before the row is written, no Deployment is left
\* without an instance that will delete it.
THEOREM DeploymentsAreOwned == Spec => []NoOrphan
<1>1. IInv => NoOrphan
  BY DEF IInv, PrInv, NoOrphan
<1> QED
  BY <1>1, Invariance, PTL

\* A step that changes an instance moves it to a next state of its life.
LEMMA OrderStep ==
  ASSUME IInv, [Next]_vars, phase = "serving", phase' = "serving",
         NEW q \in PRs, ~Raced(q)', instances'[q] # instances[q]
  PROVE  FollowsLifecycle(q)
<1>a. TypeOK /\ HandledIsCurrent(q) /\ ~Raced(q)
  BY HistoryGrows DEF IInv, PrInv
<1>b. instances[q] \in Instance \cup {NoInstance} /\ instances'[q] \in Instance \cup {NoInstance}
  BY <1>a, TypeStep DEF TypeOK
<1>1. ASSUME NEW c \in Clients, StartSteps(c) PROVE FollowsLifecycle(q)
  <2>1. ASSUME NEW instance, NEW pr \in PRs, Insert(pr, instance),
               instance.state \in {"Building", "Deploying"}
        PROVE  FollowsLifecycle(q)
    <3>1. pr = q /\ instances[q] = NoInstance /\ instances'[q] = instance
      BY <1>a, <2>1 DEF TypeOK, Insert, Raced, HasInstance
    <3> QED
      BY <2>1, <3>1 DEF FollowsLifecycle, Successors, HasInstance, NoInstance
  <2>2. requests[c].pc # "idle" => requests[c].pr \in PRs
    BY <1>a DEF TypeOK
  <2> QED
    BY <1>1, <2>1, <2>2 DEF StartSteps, StartCheckBackends, StartFetchCommit, StartLookup,
      StartDeploying, StartTrigger, StartBuilding
<1>2. ASSUME NEW p \in PRs, Handle(p) PROVE FollowsLifecycle(q)
  <2>1. p = q
    BY <1>2, <1>a, HandleLocal DEF Untouched
  <2>2. ASSUME NEW state \in {"Building", "Deploying", "Starting", "Ready", "ShuttingDown", "Failed"},
               NEW next \in Successors(state), NEW tag, NEW port,
               instances[q].state = state, SetState(q, next, tag, port)
        PROVE  FollowsLifecycle(q)
    <3>1. HasInstance(q)
      BY <2>2 DEF HasInstance, NoInstance
    <3>2. instances'[q] = [state |-> next, commit |-> instances[q].commit, tag |-> tag, port |-> port]
      BY <1>a, <2>2, <3>1, SetStateAt DEF Updated
    <3> QED
      BY <2>2, <3>2 DEF FollowsLifecycle
  <2>3. ASSUME instances[q].state \in {"Building", "Deploying"}, Fail(q)
        PROVE  FollowsLifecycle(q)
    BY <2>2, <2>3 DEF Fail, Successors
  <2>4. ASSUME instances[q].state \in {"ShuttingDown", "Failed"}, instances'[q] = NoInstance
        PROVE  FollowsLifecycle(q)
    BY <2>4 DEF FollowsLifecycle, Successors, NoInstance
  <2>5. loop.pc = "idle" /\ snapshot[q].state # "None" => instances[q] = snapshot[q]
    BY <1>a DEF HandledIsCurrent, Resume, NoInstance
  <2>6. ASSUME NEW pc \in LoopPcs \ {"idle", "persist"}, Resume(q, pc)
        PROVE  instances[q] = snapshot[q] /\ snapshot[q].state = HandledState(pc)
    BY <1>a, <2>6 DEF TypeOK, HandledIsCurrent, Resume, HandledState, NoInstance, LoopPcs
  <2>7. CASE HandleBuildingTimeout(q) \/ HandleBuilding(q)
    <3>1. instances[q].state = "Building"
      BY <2>5, <2>7 DEF HandleBuildingTimeout, HandleBuilding, Visit
    <3>2. Fail(q) \/ SetState(q, "Deploying", snapshot[q].commit, None)
      BY <2>7 DEF HandleBuildingTimeout, HandleBuilding
    <3> QED
      BY <2>2, <2>3, <3>1, <3>2 DEF Successors
  <2>8. CASE DeleteOldDeployment(q)
    BY <2>3, <2>5, <2>8 DEF DeleteOldDeployment, Visit
  <2>9. CASE CreateDeployment(q)
    BY <2>3, <2>6, <2>9 DEF CreateDeployment, HandledState, LoopPcs
  <2>10. CASE CreateService(q)
    <3>1. instances[q].state = "Deploying"
      BY <2>6, <2>10 DEF CreateService, HandledState, LoopPcs
    <3>2. Fail(q) \/ \E port \in FreePorts : SetState(q, "Starting", None, port)
      BY <2>10 DEF CreateService
    <3> QED
      BY <2>2, <2>3, <3>1, <3>2 DEF Successors
  <2>11. CASE HandleStartingTimeout(q)
    BY <2>2, <2>5, <2>11 DEF HandleStartingTimeout, Visit, Successors
  <2>12. CASE MarkReady(q)
    BY <2>2, <2>6, <2>12 DEF MarkReady, HandledState, LoopPcs, Successors
  <2>13. CASE MarkShuttingDown(q)
    BY <2>2, <2>6, <2>13 DEF MarkShuttingDown, HandledState, LoopPcs, Successors
  <2>14. CASE DeleteDeployment(q)
    BY <1>a, <2>4, <2>5, <2>14 DEF DeleteDeployment, Visit, RemoveInstance, TypeOK
  <2>15. CASE DeleteService(q)
    BY <1>a, <2>4, <2>6, <2>15 DEF DeleteService, HandledState, LoopPcs, RemoveInstance,
      TypeOK
  <2>16. CASE HandleFailed(q)
    BY <1>a, <2>4, <2>5, <2>16 DEF HandleFailed, Visit, RemoveInstance, TypeOK
  <2>17. CASE \/ DeleteOldService(q) \/ HandleStarting(q) \/ Persist(q) \/ HandleReady(q)
              \/ HandleReadyExpired(q)
    BY <2>17 DEF DeleteOldService, HandleStarting, Persist, HandleReady, HandleReadyExpired
  <2> QED
    BY <1>2, <2>1, <2>7, <2>8, <2>9, <2>10, <2>11, <2>12, <2>13, <2>14, <2>15, <2>16, <2>17
    DEF Handle
<1>3. ASSUME NEW c \in Clients, NEW pr \in PRs, StartPr(c, pr) PROVE FALSE
  BY <1>3 DEF StartPr
<1>4. ASSUME LoopTick \/ Crash \/ RecoverySteps \/ FinishBuild \/ UNCHANGED vars
      PROVE  FALSE
  BY <1>4 DEF LoopTick, Crash, RecoverySteps, RecoverLoad, RecoverRow, Recover,
    RecoverReady, RecoverNoService, RecoverNotReady, RecoverMissing, RecoverDone,
    FinishBuild, processVars, vars
<1> QED
  BY <1>1, <1>2, <1>3, <1>4 DEF Next, LoopSteps

\* Instances go through their states in order and keep their commit.
THEOREM OrderIsKept == Spec => LifecycleOrder
<1>1. IInv /\ [Next]_vars =>
        [phase = "serving" /\ phase' = "serving" =>
           \A pr \in PRs : ~Raced(pr)' /\ instances'[pr] # instances[pr] =>
             FollowsLifecycle(pr)]_vars
  BY OrderStep
<1> QED
  BY <1>1, Invariance, PTL DEF Spec, LifecycleOrder

(* The contract. *)

\* The step is about the server of p and no other.
Only(p) ==
  /\ phase' = phase
  /\ images' = images
  /\ \A q \in PRs \ {p} : Server(q)' = Server(q)

\* A step that does not touch a PR leaves its server as it is.
LEMMA SameServer ==
  ASSUME NEW q \in PRs, Untouched(q)
  PROVE  Server(q)' = Server(q)
  BY DEF Untouched, Server, Stage, Raced, HasInstance

\* A step about one server is a step of the contract if what it makes of that server is.
LEMMA BecomesServer ==
  ASSUME NEW p \in PRs, Only(p), NEW s, Server(p)' = s
  PROVE  Contract!Become(p, s)
<1>1. \A q \in PRs : Server(q)' = IF q = p THEN s ELSE Server(q)
  BY DEF Only
<1>2. [q \in PRs |-> Server(q)'] = [[q \in PRs |-> Server(q)] EXCEPT ![p] = s]
  BY <1>1
<1> QED
  BY <1>2 DEF Only, Contract!Become

\* A step about one server that leaves it as it is does nothing in the contract.
LEMMA StaysServer ==
  ASSUME NEW p \in PRs, Only(p), Server(p)' = Server(p)
  PROVE  UNCHANGED Contract!vars
<1>1. \A q \in PRs : Server(q)' = Server(q)
  BY DEF Only
<1>2. [q \in PRs |-> Server(q)'] = [q \in PRs |-> Server(q)]
  BY <1>1
<1> QED
  BY <1>2 DEF Only, Contract!vars

\* Nothing is promised of a raced PR, ever after.
LEMMA VoidStays ==
  ASSUME IInv, [Next]_vars, NEW q \in PRs, Raced(q)
  PROVE  Server(q)' = Server(q)
  BY HistoryGrows DEF Server

\* No two PRs, unless raced, are offered at one port.
LEMMA PortIsUnused ==
  ASSUME IInv, NEW p \in PRs, NEW port \in Ports, services[p] = port, backends[p] = None
  PROVE  \A q \in PRs : Server(q).port # port
<1> SUFFICES ASSUME NEW q \in PRs, ~Raced(q), backends[q] = port PROVE FALSE
  BY NoneAssumption DEF Server
<1>1. q # p /\ services[q] = port
  BY NoneAssumption DEF IInv, PrInv, PortIsServices
<1> QED
  BY <1>1, NoneAssumption DEF IInv, ServicesDistinct

\* What a handler's step does to the rest of what the contract speaks of.
LEMMA HandleEffects ==
  ASSUME IInv, NEW p \in PRs, Handle(p)
  PROVE  /\ HandleStarting(p) \/ HandleReadyExpired(p) \/ backends' = backends
         /\ Persist(p) \/ db' = db
         /\ HandleReadyExpired(p) \/ ~Resume(p, "markShutdown")'
         /\ DeleteOldDeployment(p) \/ CreateDeployment(p) \/ DeleteDeployment(p)
              \/ deployments' = deployments
         /\ images' = images
         /\ Raced(p)' => Raced(p)
<1>1. TypeOK
  BY DEF IInv
<1>2. /\ HandleStarting(p) \/ HandleReadyExpired(p) \/ backends' = backends
      /\ Persist(p) \/ db' = db
      /\ DeleteOldDeployment(p) \/ CreateDeployment(p) \/ DeleteDeployment(p)
           \/ deployments' = deployments
      /\ images' = images
  BY DEF Handle, HandleBuildingTimeout, HandleBuilding, DeleteOldDeployment,
    CreateDeployment, DeleteOldService, CreateService, HandleStartingTimeout,
    HandleStarting, MarkReady, Persist, HandleReady, HandleReadyExpired, MarkShuttingDown,
    DeleteDeployment, DeleteService, HandleFailed
<1>3. HandleReadyExpired(p) \/ ~Resume(p, "markShutdown")'
  BY DEF Handle, HandleBuildingTimeout, HandleBuilding, DeleteOldDeployment,
    CreateDeployment, DeleteOldService, CreateService, HandleStartingTimeout,
    HandleStarting, MarkReady, Persist, HandleReady, MarkShuttingDown, DeleteDeployment,
    DeleteService, HandleFailed, Await, Resume, Return, Between
<1>4. mishaps' = mishaps \/ Outage(p)
  BY DEF Handle, HandleBuildingTimeout, HandleBuilding, DeleteOldDeployment,
    CreateDeployment, DeleteOldService, CreateService, HandleStartingTimeout,
    HandleStarting, MarkReady, Persist, HandleReady, HandleReadyExpired, MarkShuttingDown,
    DeleteDeployment, DeleteService, HandleFailed
<1>5. Raced(p)' => Raced(p)
  BY <1>1, <1>4, OutageAt DEF Raced
<1> QED
  BY <1>2, <1>3, <1>5

\* An instance that moves on while its backend stays as it is: the server is asked for,
\* given up or forgotten, or nothing the contract speaks of happens.
LEMMA InstanceMoves ==
  ASSUME IInv, IInv', NEW p \in PRs, Only(p), phase = "serving", ~Raced(p), ~Raced(p)',
         backends'[p] = backends[p], db'[p] = db[p], deployments'[p] = deployments[p],
         ~Resume(p, "markShutdown")',
         instances'[p] = instances[p] \/ FollowsLifecycle(p)
  PROVE  Contract!Life(p) \/ UNCHANGED Contract!vars
<1>1. /\ RegisteredWhileReady(p) /\ RegisteredWhileReady(p)'
      /\ deployments[p] \in Commits \cup {None}
      /\ instances[p] \in Instance \cup {NoInstance}
      /\ instances'[p] \in Instance \cup {NoInstance}
  BY DEF IInv, PrInv, TypeOK
<1> DEFINE now  == instances[p]
           next == instances'[p]
<1>2. /\ Server(p) = [stage |-> Stage(p), commit |-> now.commit, port |-> backends[p],
                      row |-> db[p], image |-> deployments[p]]
      /\ Server(p)' = [stage |-> Stage(p)', commit |-> next.commit, port |-> backends[p],
                       row |-> db[p], image |-> deployments[p]]
  BY DEF Server
<1>3. CASE Stage(p)' = Stage(p) /\ next.commit = now.commit
  BY <1>2, <1>3, StaysServer
<1>4. CASE backends[p] # None
  <2>1. now.state \in {"Ready", "Starting"} /\ next.state \in {"Ready", "Starting"}
    BY <1>1, <1>4 DEF RegisteredWhileReady
  <2>2. now # NoInstance /\ next # NoInstance
    BY <2>1 DEF NoInstance
  <2>3. next.commit = now.commit
    BY <2>2 DEF FollowsLifecycle, HasInstance
  <2> QED
    BY <1>3, <1>4, <2>3 DEF Stage
<1>5. ASSUME backends[p] = None, now = NoInstance, next # NoInstance
      PROVE  Contract!Life(p)
  <2>1. next.state \in {"Building", "Deploying"} /\ next.commit \in Commits
    BY <1>1, <1>5 DEF FollowsLifecycle, Successors, NoInstance, Instance
  <2>2. Stage(p) = "absent" /\ Stage(p)' = "wanted"
    BY <1>5, <2>1 DEF Stage, HasInstance
  <2>3. Server(p)' = [stage |-> "wanted", commit |-> next.commit, port |-> None,
                      row |-> Server(p).row, image |-> Server(p).image]
    BY <1>2, <1>5, <2>2
  <2>4. Contract!Start(p, next.commit)
    BY <1>2, <2>2, <2>3, BecomesServer DEF Contract!Start
  <2> QED
    BY <2>1, <2>4 DEF Contract!Life
<1>6. ASSUME backends[p] = None, now # NoInstance, next # NoInstance, next # now
      PROVE  Contract!Life(p) \/ UNCHANGED Contract!vars
  <2>1. next.commit = now.commit /\ next.state \in Successors(now.state)
    BY <1>6 DEF FollowsLifecycle, HasInstance
  <2>2. next.state # "Ready"
    BY <1>1, <1>6 DEF RegisteredWhileReady
  <2>3. \/ Stage(p)' = Stage(p)
        \/ Stage(p) = "wanted" /\ Stage(p)' = "leaving"
    BY <1>1, <1>6, <2>1, <2>2 DEF Successors, Stage, HasInstance, Instance
  <2>4. ASSUME Stage(p) = "wanted", Stage(p)' = "leaving" PROVE Contract!Life(p)
    <3>1. Server(p)' = [stage |-> "leaving", commit |-> Server(p).commit, port |-> None,
                        row |-> Server(p).row, image |-> Server(p).image]
      BY <1>2, <1>6, <2>1, <2>4
    <3>2. Contract!GiveUp(p, deployments[p])
      BY <1>2, <2>4, <3>1, BecomesServer DEF Contract!GiveUp
    <3> QED
      BY <1>1, <3>2 DEF Contract!Life
  <2> QED
    BY <1>3, <2>1, <2>3, <2>4
<1>7. ASSUME backends[p] = None, now # NoInstance, next = NoInstance
      PROVE  Contract!Life(p)
  <2>1. now.state \in {"ShuttingDown", "Failed"}
    BY <1>1, <1>7 DEF FollowsLifecycle, Successors, NoInstance, Instance
  <2>2. Stage(p) = "leaving" /\ Stage(p)' = "absent"
    BY <1>7, <2>1 DEF Stage, HasInstance
  <2>3. Server(p)' = Contract!Absent(Server(p).row, Server(p).image)
    BY <1>2, <1>7, <2>2 DEF Contract!Absent, NoInstance
  <2>4. Contract!Forget(p, deployments[p])
    BY <1>2, <2>2, <2>3, BecomesServer DEF Contract!Forget
  <2> QED
    BY <1>1, <2>4 DEF Contract!Life
<1>8. next = now => Stage(p)' = Stage(p) /\ next.commit = now.commit
  BY DEF Stage, HasInstance
<1> QED
  BY <1>3, <1>4, <1>5, <1>6, <1>7, <1>8

\* A handler's step is a step of the contract: a backend that is registered is an
\* offer, one that is unregistered a withdrawal, and a row is written for what is on
\* offer.
LEMMA HandleMeets ==
  ASSUME IInv, IInv', NEW p \in PRs, Handle(p)
  PROVE  Contract!Life(p) \/ UNCHANGED Contract!vars
<1>a. TypeOK /\ PrInv(p) /\ PrInv(p)'
  BY DEF IInv
<1>b. phase = "serving" /\ phase' = phase
  BY HandleServes
<1>c. Only(p)
  <2>1. \A q \in PRs \ {p} : Server(q)' = Server(q)
    BY <1>a, HandleLocal, SameServer
  <2> QED
    BY <1>b, <2>1, HandleEffects DEF Only
<1>d. [Next]_vars
  BY DEF Next, LoopSteps
<1>1. CASE Raced(p)
  BY <1>1, <1>c, <1>d, VoidStays, StaysServer
<1> SUFFICES ASSUME ~Raced(p) PROVE Contract!Life(p) \/ UNCHANGED Contract!vars
  BY <1>1
<1>e. ~Raced(p)' /\ images' = images
  BY HandleEffects
<1>f. /\ Server(p) = [stage |-> Stage(p), commit |-> instances[p].commit,
                      port |-> backends[p], row |-> db[p], image |-> deployments[p]]
      /\ Server(p)' = [stage |-> Stage(p)', commit |-> instances'[p].commit,
                       port |-> backends'[p], row |-> db'[p], image |-> deployments'[p]]
  BY <1>e DEF Server
<1>g. deployments[p] \in Commits \cup {None}
  BY <1>a DEF TypeOK
<1>2. CASE HandleStarting(p)
  <2>1. /\ instances[p] = snapshot[p]
        /\ instances[p].state = "Starting"
        /\ instances[p].port \in Ports
        /\ loop.pc = "idle"
    BY <1>2, <1>a DEF TypeOK, PrInv, HandledIsCurrent, HandleStarting, Visit, Resume,
      NoInstance, Instance
  <2>2. backends[p] = None
    BY <1>a, <2>1 DEF PrInv, RegisteredWhileReady, Resume
  <2>3. /\ services[p] = instances[p].port
        /\ <<p, instances[p].commit>> \in images
        /\ deployments[p] = instances[p].commit
    BY <1>a, <2>1 DEF PrInv, PortIsServices, ImageExists, DeploysOwnCommit
  <2>4. /\ UNCHANGED <<instances, db, deployments>>
        /\ backends' = backends \/ backends'[p] = instances[p].port
    BY <1>2, <1>a, <2>1 DEF TypeOK, HandleStarting
  <2>5. HasInstance(p) /\ HasInstance(p)'
    BY <2>1, <2>4 DEF HasInstance, NoInstance
  <2>6. CASE backends' = backends
    BY <1>c, <1>f, <2>4, <2>5, <2>6, StaysServer DEF Stage, HasInstance
  <2>7. CASE backends'[p] = instances[p].port
    <3>1. Stage(p) = "wanted" /\ Stage(p)' = "offered"
      BY <2>1, <2>2, <2>5, <2>7, NoneAssumption DEF Stage
    <3>2. Server(p)' = [stage |-> "offered", commit |-> Server(p).commit,
                        port |-> instances[p].port, row |-> Server(p).row,
                        image |-> Server(p).image]
      BY <1>f, <2>4, <2>7, <3>1
    <3>3. \A q \in PRs : Server(q).port # instances[p].port
      BY <2>1, <2>2, <2>3, PortIsUnused
    <3>4. Contract!Offer(p, instances[p].port)
      BY <1>b, <1>c, <1>f, <2>3, <3>1, <3>2, <3>3, BecomesServer
      DEF Contract!Offer, Contract!Unused
    <3> QED
      BY <2>1, <3>4 DEF Contract!Life
  <2> QED
    BY <2>4, <2>6, <2>7
<1>3. CASE HandleReadyExpired(p)
  <2>1. /\ instances[p] = snapshot[p]
        /\ instances[p].state = "Ready"
        /\ loop.pc = "idle"
    BY <1>3, <1>a DEF TypeOK, PrInv, HandledIsCurrent, HandleReadyExpired, Visit, Resume,
      NoInstance
  <2>2. backends[p] # None
    BY <1>a, <2>1 DEF PrInv, RegisteredWhileReady, Resume
  <2>3. /\ UNCHANGED <<instances, db, deployments>>
        /\ backends'[p] = None
    BY <1>3, <1>a DEF TypeOK, HandleReadyExpired
  <2>4. Stage(p) = "offered" /\ Stage(p)' = "leaving"
    BY <2>1, <2>2, <2>3 DEF Stage, HasInstance, NoInstance
  <2>5. Server(p)' = [stage |-> "leaving", commit |-> Server(p).commit, port |-> None,
                      row |-> Server(p).row, image |-> Server(p).image]
    BY <1>f, <2>3, <2>4
  <2>6. Contract!Withdraw(p)
    BY <1>b, <1>c, <1>f, <2>4, <2>5, BecomesServer DEF Contract!Withdraw
  <2> QED
    BY <2>6 DEF Contract!Life
<1>4. CASE Persist(p)
  <2>1. /\ loop = [pc |-> "persist", pr |-> p]
        /\ snapshot[p].state = "Starting"
    BY <1>4, <1>a DEF TypeOK, Persist, Resume, HandledState
  <2>2. /\ instances[p].state = "Ready"
        /\ instances[p].commit = snapshot[p].commit
    BY <1>a, <2>1 DEF TypeOK, PrInv, HandledIsCurrent, Resume, NoInstance, Instance
  <2>3. backends[p] # None
    BY <1>a, <2>1, <2>2 DEF PrInv, RegisteredWhileReady, Resume
  <2>4. /\ UNCHANGED <<instances, backends, deployments>>
        /\ db' = db \/ db'[p] = instances[p].commit
    BY <1>4, <1>a, <2>2 DEF TypeOK, Persist
  <2>5. Stage(p) = "offered" /\ Stage(p)' = "offered"
    BY <2>3, <2>4 DEF Stage
  <2>6. CASE db' = db
    BY <1>c, <1>f, <2>4, <2>5, <2>6, StaysServer
  <2>7. CASE db'[p] = instances[p].commit
    <3>1. Server(p)' = [Server(p) EXCEPT !.row = instances[p].commit]
      BY <1>f, <2>4, <2>5, <2>7
    <3>2. Contract!Note(p)
      BY <1>b, <1>c, <1>f, <2>5, <3>1, BecomesServer DEF Contract!Note
    <3> QED
      BY <3>2 DEF Contract!Life
  <2> QED
    BY <2>4, <2>6, <2>7
<1>5. CASE DeleteOldDeployment(p) \/ CreateDeployment(p)
  <2>1. instances[p] = snapshot[p] /\ instances[p].state = "Deploying"
    BY <1>5, <1>a DEF TypeOK, PrInv, HandledIsCurrent, DeleteOldDeployment,
      CreateDeployment, Visit, Resume, HandledState, NoInstance
  <2>2. /\ snapshot[p].tag = instances[p].commit
        /\ <<p, instances[p].commit>> \in images
        /\ backends[p] = None
        /\ instances[p].commit \in Commits
    BY <1>a, <2>1 DEF TypeOK, PrInv, DeploysOwnCommit, RegisteredWhileReady, Instance,
      NoInstance
  <2>3. /\ UNCHANGED <<backends, db>>
        /\ deployments' = deployments \/ deployments'[p] \in {None, instances[p].commit}
        /\ deployments'[p] = None /\ deployments' # deployments => DeleteOldDeployment(p)
        /\ \/ instances' = instances
           \/ instances'[p] = Updated(p, "Failed", None, None) /\ deployments' = deployments
           \/ instances'[p] = Updated(p, "Failed", None, None) /\ CreateDeployment(p)
    BY <1>5, <1>a, <2>2, FailAt DEF TypeOK, DeleteOldDeployment, CreateDeployment
  <2>4. HasInstance(p) /\ Stage(p) = "wanted"
    BY <2>1, <2>2 DEF Stage, HasInstance, NoInstance
  <2>5. CASE instances' = instances
    <3>1. Stage(p)' = "wanted"
      BY <2>3, <2>4, <2>5 DEF Stage, HasInstance
    <3>2. CASE deployments' = deployments
      BY <1>c, <1>f, <2>3, <2>4, <2>5, <3>1, <3>2, StaysServer
    <3>3. CASE deployments'[p] \in {None, instances[p].commit}
      <4>1. Server(p)' = [Server(p) EXCEPT !.image = deployments'[p]]
        BY <1>f, <2>3, <2>4, <2>5, <3>1
      <4>2. Contract!Deploy(p, deployments'[p])
        BY <1>b, <1>c, <1>f, <2>2, <2>4, <3>3, <4>1, BecomesServer DEF Contract!Deploy
      <4> QED
        BY <2>2, <3>3, <4>2 DEF Contract!Life
    <3> QED
      BY <2>3, <3>2, <3>3
  <2>6. CASE instances'[p] = Updated(p, "Failed", None, None)
    <3>1. /\ instances'[p].commit = instances[p].commit
          /\ Stage(p)' = "leaving"
      BY <2>2, <2>3, <2>4, <2>6 DEF Updated, Stage, HasInstance, NoInstance
    <3>2. deployments'[p] \in {deployments[p], instances[p].commit}
      BY <1>5, <1>a, <2>1, <2>2, <2>3, <2>4, <2>6 DEF TypeOK, CreateDeployment, Updated, HasInstance
    <3>3. Server(p)' = [stage |-> "leaving", commit |-> Server(p).commit, port |-> None,
                        row |-> Server(p).row, image |-> deployments'[p]]
      BY <1>f, <2>2, <2>3, <3>1
    <3>4. Contract!GiveUp(p, deployments'[p])
      BY <1>b, <1>c, <1>f, <2>2, <2>4, <3>2, <3>3, BecomesServer DEF Contract!GiveUp
    <3> QED
      BY <1>g, <2>2, <3>2, <3>4 DEF Contract!Life
  <2> QED
    BY <2>3, <2>5, <2>6
<1>6. CASE DeleteDeployment(p)
  <2>1. instances[p].state = "ShuttingDown"
    BY <1>6, <1>a DEF PrInv, HandledIsCurrent, DeleteDeployment, Visit, Resume, NoInstance
  <2>2. backends[p] = None
    BY <1>a, <2>1 DEF PrInv, RegisteredWhileReady
  <2>3. /\ UNCHANGED <<backends, db>>
        /\ deployments'[p] \in {None, deployments[p]}
        /\ \/ instances' = instances /\ deployments'[p] = None
           \/ instances'[p] = NoInstance
    BY <1>6, <1>a DEF TypeOK, DeleteDeployment, RemoveInstance
  <2>4. HasInstance(p) /\ Stage(p) = "leaving"
    BY <2>1, <2>2 DEF Stage, HasInstance, NoInstance
  <2>5. CASE instances' = instances /\ deployments'[p] = None
    <3>1. Stage(p)' = "leaving"
      BY <2>3, <2>4, <2>5 DEF Stage, HasInstance
    <3>2. Server(p)' = [Server(p) EXCEPT !.image = None]
      BY <1>f, <2>3, <2>4, <2>5, <3>1
    <3>3. Contract!Remove(p)
      BY <1>b, <1>c, <1>f, <2>4, <3>2, BecomesServer DEF Contract!Remove
    <3> QED
      BY <3>3 DEF Contract!Life
  <2>6. CASE instances'[p] = NoInstance
    <3>1. Server(p)' = Contract!Absent(Server(p).row, deployments'[p])
      BY <1>f, <2>2, <2>3, <2>6 DEF Stage, HasInstance, NoInstance, Contract!Absent
    <3>2. Contract!Forget(p, deployments'[p])
      BY <1>b, <1>c, <1>f, <2>3, <2>4, <3>1, BecomesServer DEF Contract!Forget
    <3> QED
      BY <1>g, <2>3, <3>2 DEF Contract!Life
  <2> QED
    BY <2>3, <2>5, <2>6
<1>7. CASE /\ ~HandleStarting(p) /\ ~HandleReadyExpired(p) /\ ~Persist(p)
           /\ ~DeleteOldDeployment(p) /\ ~CreateDeployment(p) /\ ~DeleteDeployment(p)
  <2>1. /\ backends' = backends /\ db' = db /\ deployments' = deployments
        /\ ~Resume(p, "markShutdown")'
    BY <1>7, HandleEffects
  <2>2. instances'[p] = instances[p] \/ FollowsLifecycle(p)
    BY <1>b, <1>d, <1>e, OrderStep
  <2> QED
    BY <1>b, <1>c, <1>e, <2>1, <2>2, InstanceMoves
<1> QED
  BY <1>2, <1>3, <1>4, <1>5, <1>6, <1>7

\* An insert asks for a server, or spoils the one there is.
LEMMA InsertMeets ==
  ASSUME IInv, IInv', NEW p \in PRs, NEW instance \in Instance, Insert(p, instance),
         instance.state \in {"Building", "Deploying"}, phase = "serving",
         UNCHANGED <<phase, backends, db, deployments, images>>
  PROVE  Contract!Life(p) \/ UNCHANGED Contract!vars
<1>a. TypeOK /\ PrInv(p)
  BY DEF IInv
<1>b. /\ instances'[p] = instance
      /\ mishaps'[p] =
           (IF HasInstance(p) THEN mishaps[p] \cup {"race"} ELSE mishaps[p]) \ {"stale"}
  BY <1>a DEF TypeOK, Insert
<1>c. Only(p)
  <2>1. ASSUME NEW q \in PRs \ {p} PROVE Server(q)' = Server(q)
    <3>1. instances'[q] = instances[q] /\ mishaps'[q] = mishaps[q]
      BY <1>a DEF TypeOK, Insert
    <3> QED
      BY <3>1 DEF Server, Stage, Raced, HasInstance
  <2> QED
    BY <2>1 DEF Only
<1>1. CASE Raced(p)
  <2>1. Server(p)' = Server(p)
    BY <1>1, <1>b DEF Server, Raced
  <2> QED
    BY <1>c, <2>1, StaysServer
<1>2. CASE ~Raced(p) /\ HasInstance(p)
  <2>1. Server(p).stage \in {"wanted", "offered", "leaving"}
    BY <1>2 DEF Server, Stage
  <2>2. Server(p)' = Contract!Void
    BY <1>2, <1>b DEF Server, Raced, Contract!Void
  <2>3. Contract!Spoil(p)
    BY <1>c, <2>1, <2>2, BecomesServer DEF Contract!Spoil
  <2> QED
    BY <2>3 DEF Contract!Life
<1>3. CASE ~Raced(p) /\ ~HasInstance(p)
  <2>1. instances[p] = NoInstance /\ backends[p] = None
    BY <1>3, <1>a DEF HasInstance, PrInv, RegisteredWhileReady, NoInstance
  <2>2. ~Raced(p)' /\ HasInstance(p)'
    BY <1>3, <1>b DEF Raced, HasInstance, NoInstance
  <2>3. Stage(p) = "absent" /\ Stage(p)' = "wanted"
    BY <1>3, <1>b, <2>1, <2>2 DEF Stage
  <2>4. /\ Server(p).stage = "absent"
        /\ Server(p)' = [stage |-> "wanted", commit |-> instance.commit, port |-> None,
                         row |-> Server(p).row, image |-> Server(p).image]
    BY <1>3, <1>b, <2>1, <2>2, <2>3 DEF Server
  <2>5. Contract!Start(p, instance.commit)
    BY <1>c, <2>4, BecomesServer DEF Contract!Start
  <2>6. instance.commit \in Commits
    BY DEF Instance
  <2> QED
    BY <2>5, <2>6 DEF Contract!Life
<1> QED
  BY <1>1, <1>2, <1>3

\* A step that changes nothing the contract speaks of.
LEMMA ContractStutters ==
  ASSUME UNCHANGED <<phase, instances, backends, db, deployments, images, mishaps>>
  PROVE  UNCHANGED Contract!vars
<1>1. \A q \in PRs : Server(q)' = Server(q)
  BY DEF Server, Stage, Raced, HasInstance
<1> QED
  BY <1>1 DEF Contract!vars

\* A request does nothing the contract speaks of until it inserts.
LEMMA StartMeets ==
  ASSUME IInv, IInv', NEW c \in Clients, (\E pr \in PRs : StartPr(c, pr)) \/ StartSteps(c)
  PROVE  (\E pr \in PRs : Contract!Life(pr)) \/ UNCHANGED Contract!vars
<1>a. TypeOK /\ (requests[c].pc # "idle" => phase = "serving")
  BY DEF IInv, BeforeServing, Idle
<1>1. CASE StartDeploying(c)
  <2> DEFINE r == requests[c]
             deploying == [state |-> "Deploying", commit |-> r.commit,
                           tag |-> r.commit, port |-> None]
  <2>1. r.pr \in PRs /\ r.pc = "deploy" /\ deploying \in Instance
    BY <1>a, <1>1 DEF TypeOK, StartDeploying, Instance
  <2>2. /\ Insert(r.pr, deploying)
        /\ UNCHANGED <<phase, backends, db, deployments, images>>
    BY <1>1 DEF StartDeploying
  <2>3. Contract!Life(r.pr) \/ UNCHANGED Contract!vars
    BY <1>a, <2>1, <2>2, InsertMeets
  <2> QED
    BY <2>1, <2>3
<1>2. CASE StartBuilding(c)
  <2> DEFINE r == requests[c]
             building == [state |-> "Building", commit |-> r.commit,
                          tag |-> None, port |-> None]
  <2>1. r.pr \in PRs /\ r.pc = "insert" /\ building \in Instance
    BY <1>a, <1>2 DEF TypeOK, StartBuilding, Instance
  <2>2. /\ Insert(r.pr, building)
        /\ UNCHANGED <<phase, backends, db, deployments, images>>
    BY <1>2 DEF StartBuilding
  <2>3. Contract!Life(r.pr) \/ UNCHANGED Contract!vars
    BY <1>a, <2>1, <2>2, InsertMeets
  <2> QED
    BY <2>1, <2>3
<1>3. CASE ~StartDeploying(c) /\ ~StartBuilding(c)
  <2>1. UNCHANGED <<phase, instances, backends, db, deployments, images, mishaps>>
    BY <1>3 DEF StartPr, StartSteps, StartCheckBackends, StartFetchCommit, StartLookup,
      StartTrigger
  <2> QED
    BY <2>1, ContractStutters
<1> QED
  BY <1>1, <1>2, <1>3

\* A crash is the contract's restart: the database is what stays of a server.
LEMMA CrashMeets ==
  ASSUME IInv, Crash
  PROVE  Contract!Restart
<1>1. ASSUME NEW q \in PRs
      PROVE  Server(q)' = IF Server(q) = Contract!Void THEN Contract!Void
                          ELSE Contract!Absent(Server(q).row, Server(q).image)
  <2>1. /\ instances'[q] = NoInstance
        /\ backends'[q] = None
        /\ db'[q] = db[q]
        /\ deployments'[q] = deployments[q]
        /\ Raced(q)' <=> Raced(q)
    BY DEF Crash, Strand, Raced
  <2>2. ~Raced(q) => /\ Server(q).stage # "void"
                     /\ Server(q).row = db[q]
                     /\ Server(q).image = deployments[q]
    BY DEF Server, Stage
  <2>3. ~Raced(q) => Server(q)' = Contract!Absent(db[q], deployments[q])
    BY <2>1 DEF Server, Stage, HasInstance, NoInstance, Contract!Absent
  <2>4. Raced(q) => Server(q) = Contract!Void /\ Server(q)' = Contract!Void
    BY <2>1 DEF Server, Contract!Void
  <2> QED
    BY <2>2, <2>3, <2>4 DEF Contract!Void
<1>2. phase' = "load" /\ images' = images
  BY DEF Crash
<1> QED
  BY <1>1, <1>2 DEF Contract!Restart

\* Recovery brings a server back or strikes it out, or leaves it as it is.
LEMMA RecoverMeets ==
  ASSUME IInv, IInv', NEW p \in PRs, RecoverRow(p)
  PROVE  Contract!Life(p) \/ UNCHANGED Contract!vars
<1>a. TypeOK /\ PrInv(p)
  BY DEF IInv
<1>b. /\ phase = "recover"
      /\ p \in todo
      /\ UNCHANGED <<phase, services, deployments, images>>
  BY DEF RecoverRow, Recover, RecoverReady, RecoverNoService, RecoverNotReady,
    RecoverMissing
<1>c. instances[p] = NoInstance /\ backends[p] = None /\ db[p] # None
  BY <1>a, <1>b DEF TypeOK, IInv, BeforeServing
<1>d. Only(p)
  <2>1. \A q \in PRs \ {p} : Server(q)' = Server(q)
    BY <1>a, RecoverLocal, SameServer
  <2> QED
    BY <1>b, <2>1 DEF Only
<1>e. [Next]_vars
  BY DEF Next, RecoverySteps
<1>1. CASE Raced(p)
  BY <1>1, <1>d, <1>e, VoidStays, StaysServer
<1> SUFFICES ASSUME ~Raced(p) PROVE Contract!Life(p) \/ UNCHANGED Contract!vars
  BY <1>1
<1>f. ~Raced(p)'
  BY <1>a DEF TypeOK, RecoverRow, RecoverReady, RecoverNoService, RecoverNotReady,
    RecoverMissing, Strand, Raced
<1>g. /\ Server(p) = [stage |-> "absent", commit |-> None, port |-> None, row |-> db[p],
                      image |-> deployments[p]]
      /\ Server(p)' = [stage |-> Stage(p)', commit |-> instances'[p].commit,
                       port |-> backends'[p], row |-> db'[p], image |-> deployments[p]]
  BY <1>b, <1>c, <1>f DEF Server, Stage, HasInstance, NoInstance
<1>2. CASE RecoverReady(p)
  <2>1. /\ instances'[p].commit = db[p]
        /\ backends'[p] = services[p]
        /\ services[p] # None
        /\ db' = db
    BY <1>2, <1>a DEF TypeOK, RecoverReady
  <2>2. services[p] \in Ports /\ <<p, db[p]>> \in images
    BY <1>a, <1>c, <2>1 DEF TypeOK, PrInv, RowIsBuilt
  <2>3. <<p, deployments[p]>> \in images
    BY <1>2 DEF RecoverReady, DeploymentStatus
  <2>4. Server(p)' = [stage |-> "offered", commit |-> Server(p).row,
                      port |-> services[p], row |-> Server(p).row,
                      image |-> Server(p).image]
    BY <1>g, <2>1 DEF Stage
  <2>5. \A q \in PRs : Server(q).port # services[p]
    BY <1>c, <2>2, PortIsUnused
  <2>6. Contract!BringBack(p, services[p])
    BY <1>b, <1>d, <1>g, <2>2, <2>3, <2>4, <2>5, BecomesServer
    DEF Contract!BringBack, Contract!Unused
  <2> QED
    BY <2>2, <2>6 DEF Contract!Life
<1>3. CASE RecoverNoService(p) \/ RecoverNotReady(p) \/ RecoverMissing(p)
  <2>1. /\ UNCHANGED <<instances, backends>>
        /\ db' = db \/ db'[p] = None
    BY <1>3, <1>a DEF TypeOK, RecoverNoService, RecoverNotReady, RecoverMissing, DeleteRow
  <2>2. Server(p)' = [Server(p) EXCEPT !.row = db'[p]]
    BY <1>c, <1>g, <2>1 DEF Stage, HasInstance, NoInstance
  <2>3. CASE db' = db
    BY <1>d, <1>g, <2>2, <2>3, StaysServer
  <2>4. CASE db'[p] = None
    <3>1. Server(p)' = Contract!Absent(None, Server(p).image)
      BY <1>g, <2>2, <2>4 DEF Contract!Absent
    <3>2. Contract!Erase(p)
      BY <1>b, <1>d, <1>g, <3>1, BecomesServer DEF Contract!Erase
    <3> QED
      BY <3>2 DEF Contract!Life
  <2> QED
    BY <2>1, <2>3, <2>4
<1> QED
  BY <1>2, <1>3 DEF RecoverRow

\* Every step of the code is a step of the contract, or none.
LEMMA ContractStep ==
  ASSUME IInv, IInv', [Next]_vars
  PROVE  [Contract!Next]_Contract!vars
<1>1. ASSUME NEW p \in PRs, Contract!Life(p) \/ UNCHANGED Contract!vars
      PROVE  [Contract!Next]_Contract!vars
  BY <1>1 DEF Contract!Next
<1>2. ASSUME NEW c \in Clients, (\E pr \in PRs : StartPr(c, pr)) \/ StartSteps(c)
      PROVE  [Contract!Next]_Contract!vars
  BY <1>2, StartMeets DEF Contract!Next
<1>3. CASE LoopTick \/ UNCHANGED vars
  <2>1. UNCHANGED <<phase, instances, backends, db, deployments, images, mishaps>>
    BY <1>3 DEF LoopTick, vars, buildVars
  <2> QED
    BY <2>1, ContractStutters
<1>4. ASSUME NEW p \in PRs, Handle(p) PROVE [Contract!Next]_Contract!vars
  BY <1>1, <1>4, HandleMeets
<1>5. CASE Crash
  BY <1>5, CrashMeets DEF Contract!Next
<1>6. CASE RecoverLoad
  <2>1. phase = "load" /\ phase' = "recover"
    BY <1>6 DEF RecoverLoad
  <2>2. ASSUME NEW q \in PRs PROVE Server(q)' = Server(q)
    BY <1>6 DEF RecoverLoad, Strand, Server, Stage, Raced, HasInstance
  <2>3. images' = images
    BY <1>6 DEF RecoverLoad
  <2> QED
    BY <2>1, <2>2, <2>3 DEF Contract!vars
<1>7. ASSUME NEW p \in PRs, RecoverRow(p) PROVE [Contract!Next]_Contract!vars
  BY <1>1, <1>7, RecoverMeets
<1>8. CASE RecoverDone
  <2>1. phase = "recover" /\ phase' = "serving" /\ images' = images
    BY <1>8 DEF RecoverDone
  <2>2. ASSUME NEW q \in PRs PROVE Server(q)' = Server(q)
    BY <1>8 DEF RecoverDone, Server, Stage, Raced, HasInstance
  <2>3. Contract!Listen
    BY <2>1, <2>2 DEF Contract!Listen
  <2> QED
    BY <2>3 DEF Contract!Next
<1>9. CASE FinishBuild
  <2>1. PICK build \in requested : images' \in {images, images \cup {build}}
    BY <1>9 DEF FinishBuild
  <2>2. build \in PRs \X Commits
    BY <2>1 DEF IInv, TypeOK
  <2>3. phase' = phase /\ \A q \in PRs : Server(q)' = Server(q)
    BY <1>9 DEF FinishBuild, processVars, Server, Stage, Raced, HasInstance
  <2>4. CASE images' = images
    BY <2>3, <2>4 DEF Contract!vars
  <2>5. CASE images' = images \cup {build}
    BY <2>2, <2>3, <2>5 DEF Contract!Next, Contract!Publish
  <2> QED
    BY <2>1, <2>4, <2>5
<1> QED
  BY <1>2, <1>3, <1>4, <1>5, <1>6, <1>7, <1>8, <1>9 DEF Next, LoopSteps, RecoverySteps

\* The first boot is the contract's beginning.
LEMMA ContractInit ==
  ASSUME Init
  PROVE  Contract!Init
<1>1. ASSUME NEW q \in PRs PROVE Server(q) = Contract!Absent(None, None)
  BY DEF Init, Server, Stage, Raced, HasInstance, NoInstance, Contract!Absent
<1> QED
  BY <1>1 DEF Init, Contract!Init

\* Requests, loop, cluster, database and recovery together keep the contract: what runs
\* in the cluster while a PR is on offer is what the contract says, a restart included.
THEOREM ContractKept == Spec => ImplementsContract
<1>1. IInv /\ IInv' /\ [Next]_vars => [Contract!Next]_Contract!vars
  BY ContractStep
<1> QED
  BY <1>1, ContractInit, Invariance, PTL DEF Spec, ImplementsContract, Contract!Spec

==============================================================================
