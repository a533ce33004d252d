----------------------------- MODULE PrLifecycle -----------------------------
(***************************************************************************)
(* The life of the pull-request servers that Steel Proxy manages: the      *)
(* /start command (ProxyServer::start_pr), the lifecycle loop              *)
(* (k8s/lifecycle.rs), the recovery that runs before the proxy listens     *)
(* (K8sManager::recover_from_db), the database row that lets a build be    *)
(* skipped, and the crashes that may fall between any two steps.           *)
(*                                                                         *)
(* One action is one stretch of code between two points where another task *)
(* can run: an .await on the network, or the release of one lock before    *)
(* another is taken.  Kubernetes, Jenkins, GitHub and SQLite are external: *)
(* every call may fail, and a failed call may have taken effect.           *)
(*                                                                         *)
(* Abstractions.  A commit stands for its short hash; the image tag        *)
(* "pr-<n>-<hash>" of PR pr is the commit it ends in; a queue URL is the   *)
(* pair of the PR and the commit its build was asked for, so two builds of *)
(* one commit are one build.  Deadlines are not clocks: a visit of the     *)
(* loop may find a deadline passed, and fairness makes it pass at last.    *)
(* A pod is ready only if its image exists, and may be not ready at any    *)
(* time.  GitHub, Jenkins and Kubernetes are all configured, and no static *)
(* backend is called pr-<n>.                                               *)
(***************************************************************************)

CONSTANTS
  PRs,      \* pull-request numbers
  Commits,  \* commits a pull request may have as its head
  Ports,    \* NodePorts the cluster can assign
  Clients,  \* connected players, each able to run one /start at a time
  None      \* an absent value (Option::None, a missing key, no object)

ASSUME NoneAssumption == None \notin PRs \cup Commits \cup Ports

VARIABLES
  (* The proxy process: lost in a crash. *)
  phase,        \* "load" and "recover" before the proxy listens, then "serving"
  todo,         \* rows that recover_from_db has still to look at
  instances,    \* K8sManager.instances; NoInstance where the map has no key
  backends,     \* BackendRegistry.dynamic_backends: the port registered for pr-<n>
  requests,     \* where each client's start_pr stands
  snapshot,     \* what is left of the lifecycle loop's current snapshot
  loop,         \* the await the lifecycle loop is suspended at
  (* Outside the process: survive a crash. *)
  db,           \* pr_builds: the commit of the row (state 'Ready') of each PR
  deployments,  \* Kubernetes: image tag of the Deployment steel-pr-<n>
  services,     \* Kubernetes: NodePort of the Service steel-pr-<n>
  requested,    \* Jenkins: builds accepted and not finished, as <<pr, commit>>
  images,       \* registry: images that exist, as <<pr, commit>>
  (* History. *)
  mishaps       \* what went wrong so far for each PR: see Mishaps

processVars == <<phase, todo, instances, backends, requests, snapshot, loop>>
clusterVars == <<deployments, services>>
buildVars   == <<requested, images>>
vars == <<phase, todo, instances, backends, requests, snapshot, loop,
          db, deployments, services, requested, images, mishaps>>

-----------------------------------------------------------------------------
(* Types *)

Maybe(S) == S \cup {None}

\* A PrInstance: its commit, and the data that its state carries.
Instance ==
  [state : {"Building", "ShuttingDown", "Failed"}, commit : Commits,
   tag : {None}, port : {None}]
    \cup [state : {"Deploying"}, commit : Commits, tag : Commits, port : {None}]
    \cup [state : {"Starting", "Ready"}, commit : Commits, tag : {None}, port : Ports]

NoInstance == [state |-> "None", commit |-> None, tag |-> None, port |-> None]

RequestPcs == {"idle", "backends", "fetch", "lookup", "deploy", "trigger", "insert"}
Idle == [pc |-> "idle", pr |-> None, commit |-> None]

LoopPcs == {"idle", "create", "deleteService", "createService",
            "markReady", "persist", "markShutdown", "teardown"}
Between == [pc |-> "idle", pr |-> None]

\* The state whose handler suspends at pc.
HandledState(pc) ==
  CASE pc \in {"create", "deleteService", "createService"} -> "Deploying"
    [] pc \in {"markReady", "persist"} -> "Starting"
    [] pc = "markShutdown" -> "Ready"
    [] pc = "teardown" -> "ShuttingDown"

\* "race": create_*_instance replaced an instance that was already tracked.
\* "outage": a Kubernetes or database call failed, or a crash or a restart
\* came at a moment from which the code cannot pick the deployment up again.
\* "stale": recovery tracked the PR's present instance under another commit than
\* the one deployed.
Mishaps == {"race", "outage", "stale"}

TypeOK ==
  /\ phase \in {"load", "recover", "serving"}
  /\ todo \subseteq {pr \in PRs : db[pr] # None}
  /\ instances \in [PRs -> Instance \cup {NoInstance}]
  /\ backends \in [PRs -> Maybe(Ports)]
  /\ requests \in [Clients ->
        [pc : RequestPcs, pr : Maybe(PRs), commit : Maybe(Commits)]]
  /\ \A c \in Clients :
        /\ requests[c].pc # "idle" => requests[c].pr \in PRs
        /\ requests[c].pc \in {"lookup", "deploy", "trigger", "insert"}
              => requests[c].commit \in Commits
  /\ snapshot \in [PRs -> Instance \cup {NoInstance}]
  /\ loop \in [pc : LoopPcs, pr : Maybe(PRs)]
  /\ loop.pc # "idle" =>
       loop.pr \in PRs /\ snapshot[loop.pr].state = HandledState(loop.pc)
  /\ db \in [PRs -> Maybe(Commits)]
  /\ deployments \in [PRs -> Maybe(Commits)]
  /\ services \in [PRs -> Maybe(Ports)]
  /\ requested \subseteq PRs \X Commits
  /\ images \subseteq PRs \X Commits
  /\ mishaps \in [PRs -> SUBSET Mishaps]

-----------------------------------------------------------------------------
(* Initial state: the first boot, with an empty database and cluster. *)

Init ==
  /\ phase = "load"
  /\ todo = {}
  /\ instances = [pr \in PRs |-> NoInstance]
  /\ backends = [pr \in PRs |-> None]
  /\ requests = [c \in Clients |-> Idle]
  /\ snapshot = [pr \in PRs |-> NoInstance]
  /\ loop = Between
  /\ db = [pr \in PRs |-> None]
  /\ deployments = [pr \in PRs |-> None]
  /\ services = [pr \in PRs |-> None]
  /\ requested = {}
  /\ images = {}
  /\ mishaps = [pr \in PRs |-> {}]

-----------------------------------------------------------------------------
(* Operators on the shared maps. *)

HasInstance(pr) == instances[pr] # NoInstance

\* create_building_instance and create_deploying_instance: a map insert, which
\* replaces what is there.
Insert(pr, instance) ==
  /\ instances' = [instances EXCEPT ![pr] = instance]
  /\ mishaps' = [mishaps EXCEPT ![pr] =
        (IF HasInstance(pr) THEN @ \cup {"race"} ELSE @) \ {"stale"}]

\* update_instance_state: replaces the state of whatever instance is in the map
\* now, keeps its commit, and does nothing if the PR is no longer there.
SetState(pr, state, tag, port) ==
  instances' = IF HasInstance(pr)
               THEN [instances EXCEPT ![pr] =
                      [state |-> state, commit |-> @.commit, tag |-> tag, port |-> port]]
               ELSE instances

Fail(pr) == SetState(pr, "Failed", None, None)

Outage(pr) == mishaps' = [mishaps EXCEPT ![pr] = @ \cup {"outage"}]

\* PrBuild::exists_with_commit.
ExistsWithCommit(pr, commit) == db[pr] = commit

\* get_build_url and get_build_status for the build of (pr, commit): "pending"
\* stands for a build still queued or running, a queue item that Jenkins no
\* longer serves and a failed call; "failed" for a failed, aborted, unstable
\* or deleted build.
PollBuild(pr, commit) ==
  {"pending", "failed"} \cup (IF <<pr, commit>> \in images THEN {"success"} ELSE {})

\* is_deployment_ready: a missing Deployment and a failed call are both Err.
DeploymentStatus(pr) ==
  {"error"}
    \cup (IF deployments[pr] # None THEN {"notReady"} ELSE {})
    \cup (IF deployments[pr] # None /\ <<pr, deployments[pr]>> \in images
          THEN {"ready"} ELSE {})

\* Ports no Service holds: what the API server may assign.
FreePorts == {port \in Ports : \A pr \in PRs : services[pr] # port}

-----------------------------------------------------------------------------
(* ProxyServer::start_pr, run by the packet forwarder of client c. *)

Advance(c, pc) == requests' = [requests EXCEPT ![c].pc = pc]
EndRequest(c)  == requests' = [requests EXCEPT ![c] = Idle]

\* The instance check passes; the task then waits for the backends' read lock.
\* (When it does not pass the command only reports an error.)
StartPr(c, pr) ==
  /\ phase = "serving"
  /\ requests[c].pc = "idle"
  /\ ~HasInstance(pr)
  /\ requests' = [requests EXCEPT ![c] = [pc |-> "backends", pr |-> pr, commit |-> None]]
  /\ UNCHANGED <<phase, todo, instances, backends, snapshot, loop, db,
                 clusterVars, buildVars, mishaps>>

StartCheckBackends(c) ==
  /\ requests[c].pc = "backends"
  /\ IF backends[requests[c].pr] # None THEN EndRequest(c) ELSE Advance(c, "fetch")
  /\ UNCHANGED <<phase, todo, instances, backends, snapshot, loop, db,
                 clusterVars, buildVars, mishaps>>

\* Mutation: the error of get_pr_head_commit is swallowed.
StartFetchCommitUnchecked(c) ==
  /\ requests[c].pc = "fetch"
  /\ \E commit \in Maybe(Commits) :
       requests' = [requests EXCEPT ![c].pc = "lookup", ![c].commit = commit]
  /\ UNCHANGED <<phase, todo, instances, backends, snapshot, loop, db,
                 clusterVars, buildVars, mishaps>>

\* get_pr_head_commit: the head may be any commit, as the author may push at
\* any time.
StartFetchCommit(c) ==
  /\ requests[c].pc = "fetch"
  /\ \/ \E commit \in Commits :
          requests' = [requests EXCEPT ![c].pc = "lookup", ![c].commit = commit]
     \/ EndRequest(c)
  /\ UNCHANGED <<phase, todo, instances, backends, snapshot, loop, db,
                 clusterVars, buildVars, mishaps>>

StartLookup(c) ==
  /\ requests[c].pc = "lookup"
  /\ \/ Advance(c, IF ExistsWithCommit(requests[c].pr, requests[c].commit)
                   THEN "deploy" ELSE "trigger")
     \/ EndRequest(c)
  /\ UNCHANGED <<phase, todo, instances, backends, snapshot, loop, db,
                 clusterVars, buildVars, mishaps>>

\* The image exists: create_deploying_instance.
StartDeploying(c) ==
  LET r == requests[c] IN
  /\ r.pc = "deploy"
  /\ Insert(r.pr, [state |-> "Deploying", commit |-> r.commit,
                   tag |-> r.commit, port |-> None])
  /\ EndRequest(c)
  /\ UNCHANGED <<phase, todo, backends, snapshot, loop, db, clusterVars, buildVars>>

\* trigger_build: if the call fails Jenkins may have queued the build all the same.
StartTrigger(c) ==
  LET build == <<requests[c].pr, requests[c].commit>> IN
  /\ requests[c].pc = "trigger"
  /\ \/ /\ requested' = requested \cup {build}
        /\ Advance(c, "insert")
     \/ /\ requested' \in {requested, requested \cup {build}}
        /\ EndRequest(c)
  /\ UNCHANGED <<phase, todo, instances, backends, snapshot, loop, db,
                 clusterVars, images, mishaps>>

\* The build is queued: create_building_instance.
StartBuilding(c) ==
  LET r == requests[c] IN
  /\ r.pc = "insert"
  /\ Insert(r.pr, [state |-> "Building", commit |-> r.commit,
                   tag |-> None, port |-> None])
  /\ EndRequest(c)
  /\ UNCHANGED <<phase, todo, backends, snapshot, loop, db, clusterVars, buildVars>>

StartSteps(c) ==
  \/ StartCheckBackends(c)
  \/ StartFetchCommit(c)
  \/ StartLookup(c)
  \/ StartDeploying(c)
  \/ StartTrigger(c)
  \/ StartBuilding(c)

-----------------------------------------------------------------------------
(* run_lifecycle_loop: take a snapshot, then visit its instances in any order. *)

LoopTick ==
  /\ phase = "serving"
  /\ loop.pc = "idle"
  /\ \A pr \in PRs : snapshot[pr] = NoInstance
  /\ \E pr \in PRs : HasInstance(pr)
  /\ snapshot' = instances
  /\ UNCHANGED <<phase, todo, instances, backends, requests, loop, db,
                 clusterVars, buildVars, mishaps>>

\* The loop picks the snapshot's instance of pr, found in the given state.
Visit(pr, state) == loop.pc = "idle" /\ snapshot[pr].state = state

\* The handler of pr awaits at pc.
Await(pr, pc) == loop' = [pc |-> pc, pr |-> pr]

\* The loop is back from the await at pc in the handler of pr.
Resume(pr, pc) == loop = [pc |-> pc, pr |-> pr]

\* The handler of pr returns: the loop moves on to the rest of its snapshot.
Return(pr) ==
  /\ loop' = Between
  /\ snapshot' = [snapshot EXCEPT ![pr] = NoInstance]

(* handle_building *)

\* Mutation: the timeout does not return, and the poll that follows uses the same snapshot.
HandleBuildingTimeoutFallsThrough(pr) ==
  /\ Visit(pr, "Building")
  /\ Fail(pr)
  /\ UNCHANGED <<phase, todo, backends, requests, snapshot, loop, db,
                 clusterVars, buildVars, mishaps>>

HandleBuildingTimeout(pr) ==
  /\ Visit(pr, "Building")
  /\ Fail(pr)
  /\ Return(pr)
  /\ UNCHANGED <<phase, todo, backends, requests, db, clusterVars, buildVars, mishaps>>

HandleBuilding(pr) ==
  LET item == snapshot[pr] IN
  /\ Visit(pr, "Building")
  /\ \E outcome \in PollBuild(pr, item.commit) :
        \/ outcome = "pending" /\ UNCHANGED instances
        \/ outcome = "failed" /\ Fail(pr)
        \/ outcome = "success" /\ SetState(pr, "Deploying", item.commit, None)
  /\ Return(pr)
  /\ UNCHANGED <<phase, todo, backends, requests, db, clusterVars, buildVars, mishaps>>

(* handle_deploying, with create_deployment and create_service inlined. *)

\* The old Deployment is deleted if there is one; a failure to delete it is only
\* logged.  Without a Kubernetes client the handler gives up.
DeleteOldDeployment(pr) ==
  /\ Visit(pr, "Deploying")
  /\ \/ /\ deployments' = [deployments EXCEPT ![pr] = None]
        /\ Await(pr, "create")
        /\ UNCHANGED <<instances, snapshot, mishaps>>
     \/ /\ deployments' \in {deployments, [deployments EXCEPT ![pr] = None]}
        /\ Outage(pr)
        /\ Await(pr, "create")
        /\ UNCHANGED <<instances, snapshot>>
     \/ /\ UNCHANGED deployments
        /\ Outage(pr)
        /\ Fail(pr)
        /\ Return(pr)
  /\ UNCHANGED <<phase, todo, backends, requests, db, services, buildVars>>

\* Mutation: a Deployment that has the name already is taken for the one to create.
CreateDeploymentUnlessThere(pr) ==
  /\ Resume(pr, "create")
  /\ deployments' = [deployments EXCEPT ![pr] = IF @ = None THEN snapshot[pr].tag ELSE @]
  /\ Await(pr, "deleteService")
  /\ UNCHANGED <<phase, todo, instances, backends, requests, snapshot, db, services,
                 buildVars, mishaps>>

\* The API server refuses to create a Deployment whose name is still taken.
CreateDeployment(pr) ==
  LET created == [deployments EXCEPT ![pr] = snapshot[pr].tag] IN
  /\ Resume(pr, "create")
  /\ \/ /\ deployments[pr] = None
        /\ deployments' = created
        /\ Await(pr, "deleteService")
        /\ UNCHANGED <<instances, snapshot, mishaps>>
     \/ /\ deployments' \in {deployments} \cup (IF deployments[pr] = None THEN {created} ELSE {})
        /\ Outage(pr)
        /\ Fail(pr)
        /\ Return(pr)
  /\ UNCHANGED <<phase, todo, backends, requests, db, services, buildVars>>

\* The client exists by now, so only the deletion can fail, and that is only logged.
DeleteOldService(pr) ==
  /\ Resume(pr, "deleteService")
  /\ \/ /\ services' = [services EXCEPT ![pr] = None]
        /\ Await(pr, "createService")
        /\ UNCHANGED mishaps
     \/ /\ services' \in {services, [services EXCEPT ![pr] = None]}
        /\ Outage(pr)
        /\ Await(pr, "createService")
  /\ UNCHANGED <<phase, todo, instances, backends, requests, snapshot, db,
                 deployments, buildVars>>

\* Creation fails when the name is taken, when no NodePort is free, or at will;
\* the Deployment made before stays.
CreateService(pr) ==
  /\ Resume(pr, "createService")
  /\ \/ \E port \in FreePorts :
          /\ services[pr] = None
          /\ services' = [services EXCEPT ![pr] = port]
          /\ SetState(pr, "Starting", None, port)
          /\ UNCHANGED mishaps
     \/ /\ \/ UNCHANGED services
           \/ \E port \in FreePorts :
                /\ services[pr] = None
                /\ services' = [services EXCEPT ![pr] = port]
        /\ Outage(pr)
        /\ Fail(pr)
  /\ Return(pr)
  /\ UNCHANGED <<phase, todo, backends, requests, db, deployments, buildVars>>

(* handle_starting *)

\* Mutation: a startup that timed out is marked Failed, not torn down.
HandleStartingTimeoutFails(pr) ==
  /\ Visit(pr, "Starting")
  /\ Fail(pr)
  /\ Return(pr)
  /\ UNCHANGED <<phase, todo, backends, requests, db, clusterVars, buildVars, mishaps>>

\* Mutation: the timeout does not return, and the readiness check that follows uses the
\* same snapshot.
HandleStartingTimeoutFallsThrough(pr) ==
  /\ Visit(pr, "Starting")
  /\ SetState(pr, "ShuttingDown", None, None)
  /\ UNCHANGED <<phase, todo, backends, requests, snapshot, loop, db,
                 clusterVars, buildVars, mishaps>>

HandleStartingTimeout(pr) ==
  /\ Visit(pr, "Starting")
  /\ SetState(pr, "ShuttingDown", None, None)
  /\ Return(pr)
  /\ UNCHANGED <<phase, todo, backends, requests, db, clusterVars, buildVars, mishaps>>

\* Mutation: the instance is marked Ready without registering the backend.
HandleStartingUnregistered(pr) ==
  /\ Visit(pr, "Starting")
  /\ \/ /\ "ready" \in DeploymentStatus(pr)
        /\ Await(pr, "markReady")
        /\ UNCHANGED snapshot
     \/ Return(pr)
  /\ UNCHANGED <<phase, todo, instances, backends, requests, db,
                 clusterVars, buildVars, mishaps>>

\* When the pod is ready the backend is registered, under the registry's lock.
HandleStarting(pr) ==
  /\ Visit(pr, "Starting")
  /\ \E status \in DeploymentStatus(pr) :
        \/ /\ status = "ready"
           /\ backends' = [backends EXCEPT ![pr] = snapshot[pr].port]
           /\ Await(pr, "markReady")
           /\ UNCHANGED snapshot
        \/ /\ status # "ready"
           /\ UNCHANGED backends
           /\ Return(pr)
  /\ UNCHANGED <<phase, todo, instances, requests, db, clusterVars, buildVars, mishaps>>

\* Then the instance becomes Ready, under the lock of the instance map.
MarkReady(pr) ==
  /\ Resume(pr, "markReady")
  /\ SetState(pr, "Ready", None, snapshot[pr].port)
  /\ Await(pr, "persist")
  /\ UNCHANGED <<phase, todo, backends, requests, snapshot, db,
                 clusterVars, buildVars, mishaps>>

\* Mutation: the row records the head the PR has now, not the commit that runs.
PersistHead(pr) ==
  /\ Resume(pr, "persist")
  /\ \E head \in Commits : db' = [db EXCEPT ![pr] = head]
  /\ Return(pr)
  /\ UNCHANGED <<phase, todo, instances, backends, requests,
                 clusterVars, buildVars, mishaps>>

\* PrBuild::upsert of the snapshot's commit; a failure is only logged.
Persist(pr) ==
  /\ Resume(pr, "persist")
  /\ db' \in {db, [db EXCEPT ![pr] = snapshot[pr].commit]}
  /\ Return(pr)
  /\ UNCHANGED <<phase, todo, instances, backends, requests,
                 clusterVars, buildVars, mishaps>>

(* handle_ready *)

HandleReady(pr) ==
  /\ Visit(pr, "Ready")
  /\ Return(pr)
  /\ UNCHANGED <<phase, todo, instances, backends, requests, db,
                 clusterVars, buildVars, mishaps>>

\* Mutation: the instance shuts down and the backend stays registered.
HandleReadyExpiredKeeps(pr) ==
  /\ Visit(pr, "Ready")
  /\ Await(pr, "markShutdown")
  /\ UNCHANGED <<phase, todo, instances, backends, requests, snapshot, db,
                 clusterVars, buildVars, mishaps>>

\* shutdown_at has passed: the backend is unregistered first ...
HandleReadyExpired(pr) ==
  /\ Visit(pr, "Ready")
  /\ backends' = [backends EXCEPT ![pr] = None]
  /\ Await(pr, "markShutdown")
  /\ UNCHANGED <<phase, todo, instances, requests, snapshot, db,
                 clusterVars, buildVars, mishaps>>

\* ... and then the instance changes state.
MarkShuttingDown(pr) ==
  /\ Resume(pr, "markShutdown")
  /\ SetState(pr, "ShuttingDown", None, None)
  /\ Return(pr)
  /\ UNCHANGED <<phase, todo, backends, requests, db, clusterVars, buildVars, mishaps>>

(* handle_shutting_down, with delete_instance inlined. *)

RemoveInstance(pr) == instances' = [instances EXCEPT ![pr] = NoInstance]

\* A failure ends delete_instance before it reaches the Service; the instance is
\* dropped from the map all the same.
DeleteDeployment(pr) ==
  /\ Visit(pr, "ShuttingDown")
  /\ \/ /\ deployments' = [deployments EXCEPT ![pr] = None]
        /\ Await(pr, "teardown")
        /\ UNCHANGED <<instances, snapshot, mishaps>>
     \/ /\ deployments' \in {deployments, [deployments EXCEPT ![pr] = None]}
        /\ Outage(pr)
        /\ RemoveInstance(pr)
        /\ Return(pr)
  /\ UNCHANGED <<phase, todo, backends, requests, db, services, buildVars>>

DeleteService(pr) ==
  /\ Resume(pr, "teardown")
  /\ \/ services' = [services EXCEPT ![pr] = None] /\ UNCHANGED mishaps
     \/ UNCHANGED services /\ Outage(pr)
  /\ RemoveInstance(pr)
  /\ Return(pr)
  /\ UNCHANGED <<phase, todo, backends, requests, db, deployments, buildVars>>

\* Mutation: a Failed instance is only logged.
HandleFailedLogs(pr) ==
  /\ Visit(pr, "Failed")
  /\ Return(pr)
  /\ UNCHANGED <<phase, todo, instances, backends, requests, db,
                 clusterVars, buildVars, mishaps>>

\* A Failed instance is dropped; what it left in the cluster is not deleted.
HandleFailed(pr) ==
  /\ Visit(pr, "Failed")
  /\ RemoveInstance(pr)
  /\ Return(pr)
  /\ UNCHANGED <<phase, todo, backends, requests, db, clusterVars, buildVars, mishaps>>

\* The step of the handler that the state of pr's instance selects.
Handle(pr) ==
  \/ HandleBuildingTimeout(pr)
  \/ HandleBuilding(pr)
  \/ DeleteOldDeployment(pr)
  \/ CreateDeployment(pr)
  \/ DeleteOldService(pr)
  \/ CreateService(pr)
  \/ HandleStartingTimeout(pr)
  \/ HandleStarting(pr)
  \/ MarkReady(pr)
  \/ Persist(pr)
  \/ HandleReady(pr)
  \/ HandleReadyExpired(pr)
  \/ MarkShuttingDown(pr)
  \/ DeleteDeployment(pr)
  \/ DeleteService(pr)
  \/ HandleFailed(pr)

LoopSteps == LoopTick \/ \E pr \in PRs : Handle(pr)

-----------------------------------------------------------------------------
(* A crash, and recover_from_db on the next start. *)

\* The PRs of S whose Deployment the code will not pick up again.
Strand(S) ==
  mishaps' = [pr \in PRs |-> IF pr \in S /\ deployments[pr] # None
                             THEN mishaps[pr] \cup {"outage"} ELSE mishaps[pr]]

\* The process dies at any moment; what Kubernetes, Jenkins and the database
\* hold stays.
Crash ==
  /\ phase' = "load"
  /\ todo' = {}
  /\ instances' = [pr \in PRs |-> NoInstance]
  /\ backends' = [pr \in PRs |-> None]
  /\ requests' = [c \in Clients |-> Idle]
  /\ snapshot' = [pr \in PRs |-> NoInstance]
  /\ loop' = Between
  /\ Strand({pr \in PRs : db[pr] = None})
  /\ UNCHANGED <<db, clusterVars, buildVars>>

\* get_active_builds: every row, or nothing at all if the query fails.
RecoverLoad ==
  /\ phase = "load"
  /\ phase' = "recover"
  /\ \/ todo' = {pr \in PRs : db[pr] # None} /\ UNCHANGED mishaps
     \/ todo' = {} /\ Strand(PRs)
  /\ UNCHANGED <<instances, backends, requests, snapshot, loop, db, clusterVars, buildVars>>

\* Recovery looks at the row of pr.
Recover(pr) == phase = "recover" /\ pr \in todo /\ todo' = todo \ {pr}

\* `let _ = PrBuild::delete(..)`: a failure is ignored.
DeleteRow(pr) == db' \in {db, [db EXCEPT ![pr] = None]}

\* Mutation: a recovered instance is tracked and its backend not registered.
RecoverReadyUnregistered(pr) ==
  /\ Recover(pr)
  /\ "ready" \in DeploymentStatus(pr)
  /\ services[pr] # None
  /\ instances' = [instances EXCEPT ![pr] =
        [state |-> "Ready", commit |-> db[pr], tag |-> None, port |-> services[pr]]]
  /\ UNCHANGED <<phase, backends, requests, snapshot, loop, db,
                 clusterVars, buildVars, mishaps>>

\* Mutation: a recovered backend is registered and its instance not tracked.
RecoverReadyUntracked(pr) ==
  /\ Recover(pr)
  /\ "ready" \in DeploymentStatus(pr)
  /\ services[pr] # None
  /\ backends' = [backends EXCEPT ![pr] = services[pr]]
  /\ UNCHANGED <<phase, instances, requests, snapshot, loop, db,
                 clusterVars, buildVars, mishaps>>

\* Deployment and Service found: tracked as Ready again, with a fresh shutdown
\* deadline, and registered.  Which image the Deployment runs is not looked at.
RecoverReady(pr) ==
  /\ Recover(pr)
  /\ "ready" \in DeploymentStatus(pr)
  /\ services[pr] # None
  /\ instances' = [instances EXCEPT ![pr] =
        [state |-> "Ready", commit |-> db[pr], tag |-> None, port |-> services[pr]]]
  /\ backends' = [backends EXCEPT ![pr] = services[pr]]
  /\ mishaps' = [mishaps EXCEPT ![pr] =
        IF deployments[pr] = db[pr] THEN @ \ {"stale"} ELSE @ \cup {"stale"}]
  /\ UNCHANGED <<phase, requests, snapshot, loop, db, clusterVars, buildVars>>

\* Deployment found; Service not found, or the call for it failed.
RecoverNoService(pr) ==
  /\ Recover(pr)
  /\ "ready" \in DeploymentStatus(pr)
  /\ DeleteRow(pr)
  /\ Strand({pr})
  /\ UNCHANGED <<phase, instances, backends, requests, snapshot, loop, clusterVars, buildVars>>

\* Deployment found, pod not ready: nothing is done.
RecoverNotReady(pr) ==
  /\ Recover(pr)
  /\ "notReady" \in DeploymentStatus(pr)
  /\ Strand({pr})
  /\ UNCHANGED <<phase, instances, backends, requests, snapshot, loop, db, clusterVars, buildVars>>

\* Any error of the Deployment's call is taken for "not found".
RecoverMissing(pr) ==
  /\ Recover(pr)
  /\ "error" \in DeploymentStatus(pr)
  /\ DeleteRow(pr)
  /\ Strand({pr})
  /\ UNCHANGED <<phase, instances, backends, requests, snapshot, loop, clusterVars, buildVars>>

\* The lifecycle loop is spawned and the proxy listens.
RecoverDone ==
  /\ phase = "recover"
  /\ todo = {}
  /\ phase' = "serving"
  /\ UNCHANGED <<todo, instances, backends, requests, snapshot, loop, db,
                 clusterVars, buildVars, mishaps>>

RecoverRow(pr) ==
  \/ RecoverReady(pr)
  \/ RecoverNoService(pr)
  \/ RecoverNotReady(pr)
  \/ RecoverMissing(pr)

RecoverySteps == RecoverLoad \/ (\E pr \in PRs : RecoverRow(pr)) \/ RecoverDone

-----------------------------------------------------------------------------
(* Jenkins finishes an accepted build, and pushes its image if it succeeds. *)
FinishBuild ==
  /\ \E build \in requested :
        /\ requested' = requested \ {build}
        /\ images' \in {images, images \cup {build}}
  /\ UNCHANGED <<processVars, db, clusterVars, mishaps>>

Next ==
  \/ \E c \in Clients : (\E pr \in PRs : StartPr(c, pr)) \/ StartSteps(c)
  \/ LoopSteps
  \/ Crash
  \/ RecoverySteps
  \/ FinishBuild

\* Every network call returns at last, so the loop, the recovery and a /start
\* under way go on; a deadline that the loop checks again and again passes at
\* last.  Players, Jenkins and crashes are under no obligation.
Fairness ==
  /\ WF_vars(LoopSteps)
  /\ WF_vars(RecoverySteps)
  /\ \A c \in Clients : WF_vars(StartSteps(c))
  /\ \A pr \in PRs : /\ SF_vars(HandleBuildingTimeout(pr))
                     /\ SF_vars(HandleStartingTimeout(pr))
                     /\ SF_vars(HandleReadyExpired(pr))

Spec == Init /\ [][Next]_vars /\ Fairness

-----------------------------------------------------------------------------
(* Safety.  start_pr checks has_instance and inserts several awaits later, so  *)
(* two requests can both insert; most of what follows is promised for the PRs  *)
(* this has not happened to.                                                   *)

Raced(pr) == "race" \in mishaps[pr]
Undisturbed(pr) == mishaps[pr] \cap {"race", "outage"} = {}

HandledIsCurrent(pr) ==
  ~Raced(pr) /\ snapshot[pr] # NoInstance =>
    IF Resume(pr, "persist")
    THEN instances[pr] = [snapshot[pr] EXCEPT !.state = "Ready"]
    ELSE instances[pr] = snapshot[pr]

\* While its handler runs, the state the loop read from the snapshot is still
\* the instance's state, up to what the handler itself has written: the loop
\* never acts on, or overwrites, an instance other than the one it looked at
\* (lifecycle.rs: the snapshot is taken once and used across many awaits).
SnapshotIsCurrent == \A pr \in PRs : HandledIsCurrent(pr)

RegisteredWhileReady(pr) ==
  ~Raced(pr) =>
    /\ backends[pr] # None =>
         \/ instances[pr].state = "Ready" /\ ~Resume(pr, "markShutdown")
         \/ instances[pr].state = "Starting" /\ Resume(pr, "markReady")
    /\ instances[pr].state = "Ready" =>
         backends[pr] # None \/ Resume(pr, "markShutdown")

\* A PR is in the backend registry exactly while its instance is Ready, but for
\* the moments between the two locks that MarkReady and MarkShuttingDown need;
\* so a dead PR never keeps a backend that makes /start refuse it.
BackendMatchesReady == \A pr \in PRs : RegisteredWhileReady(pr)

\* Players sent to pr-<n> reach the NodePort of the Service of PR n, which
\* belongs to no other PR, although Services are deleted and ports reassigned.
RoutesToOwnService ==
  \A pr \in PRs : ~Raced(pr) /\ backends[pr] # None =>
    /\ services[pr] = backends[pr]
    /\ \A other \in PRs \ {pr} : services[other] # backends[pr]

DeploysOwnCommit(pr) ==
  ~Raced(pr) =>
    /\ instances[pr].state = "Deploying" =>
         /\ instances[pr].tag = instances[pr].commit
         /\ <<pr, instances[pr].commit>> \in images
    /\ instances[pr].state = "Starting" => deployments[pr] = instances[pr].commit
    /\ instances[pr].state \in {"Starting", "Ready"} => <<pr, deployments[pr]>> \in images
    /\ instances[pr].state = "Ready" =>
         deployments[pr] = instances[pr].commit \/ "stale" \in mishaps[pr]

\* From the decision to deploy until the server shuts down, what is deployed is the
\* commit the instance was started for, and its image exists: whether it was built
\* now or the build was skipped, and whatever an earlier failure left in the cluster
\* under the same name.  Recovery alone may track an instance under another commit,
\* that of a row which no upsert has brought up to date (k8s/mod.rs:68); what runs
\* then was built for this PR too.
DeploysBuiltImage == \A pr \in PRs : DeploysOwnCommit(pr)

RowIsBuilt(pr) == ~Raced(pr) /\ db[pr] # None => <<pr, db[pr]>> \in images

\* A database row promises an image: exists_with_commit skips the build on it.
RowHasImage == \A pr \in PRs : RowIsBuilt(pr)

DeploymentIsOwned(pr) ==
  phase = "serving" /\ Undisturbed(pr) /\ deployments[pr] # None =>
    instances[pr].state \in {"Deploying", "Starting", "Ready", "ShuttingDown"}

\* Unless a call failed, or a crash or restart found a Deployment not yet in the
\* database or not ready, every Deployment belongs to an instance whose handlers
\* will delete it: nothing is left running in the cluster by the proxy's own
\* doing.
NoOrphan == \A pr \in PRs : DeploymentIsOwned(pr)

\* The states that may follow each state of a PR while the proxy runs.
Successors(state) ==
  CASE state = "None"         -> {"Building", "Deploying"}
    [] state = "Building"     -> {"Deploying", "Failed"}
    [] state = "Deploying"    -> {"Starting", "Failed"}
    [] state = "Starting"     -> {"Ready", "ShuttingDown"}
    [] state = "Ready"        -> {"ShuttingDown"}
    [] state = "ShuttingDown" -> {"None"}
    [] state = "Failed"       -> {"None"}

FollowsLifecycle(pr) ==
  /\ instances'[pr].state \in Successors(instances[pr].state)
  /\ HasInstance(pr) /\ instances'[pr] # NoInstance =>
       instances'[pr].commit = instances[pr].commit

\* An instance goes through its states in the order of instance.rs, and keeps
\* its commit: no late answer moves it back or past a state.
LifecycleOrder ==
  [][phase = "serving" /\ phase' = "serving" =>
       \A pr \in PRs : ~Raced(pr)' /\ instances'[pr] # instances[pr] => FollowsLifecycle(pr)]_vars

(* The contract that PrLifecycle implements. *)

\* A server is on offer while its backend is registered, whatever the instance map
\* says meanwhile.
Stage(pr) ==
  IF backends[pr] # None THEN "offered"
  ELSE IF ~HasInstance(pr) THEN "absent"
  ELSE IF instances[pr].state \in {"Building", "Deploying", "Starting"} THEN "wanted"
  ELSE "leaving"

Server(pr) ==
  IF Raced(pr)
  THEN [stage |-> "void", commit |-> None, port |-> None, row |-> None, image |-> None]
  ELSE [stage |-> Stage(pr), commit |-> instances[pr].commit,
        port |-> backends[pr], row |-> db[pr], image |-> deployments[pr]]

Contract == INSTANCE PrContract WITH
  serving <- phase = "serving", built <- images, server <- [pr \in PRs |-> Server(pr)]

\* To the players a PR's server is asked for, offered, withdrawn and forgotten, in that
\* order and each in one step, though two locks, the cluster and the database are written
\* one after the other.  It is offered on a port of its own once the Deployment is that
\* of the commit that was asked for, and the Deployment is not touched while it is on
\* offer; after a crash what comes back is the Deployment that was left, under the
\* commit of the row, be they the same or not.
ImplementsContract == Contract!Spec

(* The inductive invariant: what the safety properties above rest on. *)

\* Nothing but recovery runs before the proxy listens, and recovery visits a row
\* of a PR that is not tracked yet.
BeforeServing ==
  /\ phase # "serving" =>
       /\ loop = Between
       /\ \A pr \in PRs : snapshot[pr] = NoInstance
       /\ \A c \in Clients : requests[c] = Idle
  /\ phase = "load" => \A pr \in PRs : instances[pr] = NoInstance /\ backends[pr] = None
  /\ phase # "recover" => todo = {}
  /\ \A pr \in todo : instances[pr] = NoInstance /\ backends[pr] = None

\* No two Services hold one NodePort.
ServicesDistinct ==
  \A pr \in PRs : services[pr] # None =>
    \A other \in PRs \ {pr} : services[other] # services[pr]

\* A request skips the build only if the image exists.
SkipsBuilt ==
  \A c \in Clients : LET r == requests[c] IN
    r.pc = "deploy" /\ ~Raced(r.pr) => <<r.pr, r.commit>> \in images

\* An instance that has a port has the port of its PR's Service, so has the backend
\* of the PR, and there is one by the time the loop marks the instance Ready.
PortIsServices(pr) ==
  ~Raced(pr) =>
    /\ instances[pr].state \in {"Starting", "Ready"} => services[pr] = instances[pr].port
    /\ backends[pr] # None => backends[pr] = services[pr]
    /\ Resume(pr, "markReady") => backends[pr] # None

\* The Deployment that CreateDeployment made is there until the loop deletes it.
DeploymentIsSnapshots(pr) ==
  ~Raced(pr) /\ (Resume(pr, "deleteService") \/ Resume(pr, "createService")) =>
    deployments[pr] = snapshot[pr].tag

\* From the decision to deploy until the instance shuts down, its image exists.
ImageExists(pr) ==
  ~Raced(pr) /\ instances[pr].state \in {"Deploying", "Starting", "Ready"} =>
    <<pr, instances[pr].commit>> \in images

\* Until the proxy listens, a Deployment that nothing went wrong with has a row
\* that recovery has yet to visit or a recovered instance; and DeleteService
\* runs only once the Deployment is gone.
DeploymentIsKnown(pr) ==
  Undisturbed(pr) =>
    /\ phase = "load" /\ deployments[pr] # None => db[pr] # None
    /\ phase = "recover" /\ deployments[pr] # None =>
         pr \in todo \/ instances[pr].state = "Ready"
    /\ Resume(pr, "teardown") => deployments[pr] = None

\* What holds of each PR.
PrInv(pr) ==
  /\ HandledIsCurrent(pr)
  /\ RegisteredWhileReady(pr)
  /\ PortIsServices(pr)
  /\ DeploymentIsSnapshots(pr)
  /\ ImageExists(pr)
  /\ DeploysOwnCommit(pr)
  /\ RowIsBuilt(pr)
  /\ DeploymentIsKnown(pr)
  /\ DeploymentIsOwned(pr)

\* The inductive invariant: the six safety invariants above follow from it.
IInv ==
  /\ TypeOK
  /\ BeforeServing
  /\ ServicesDistinct
  /\ SkipsBuilt
  /\ \A pr \in PRs : PrInv(pr)

(* Liveness. *)

\* No instance is tracked for ever: builds and startups that hang time out,
\* servers that run are shut down, failures of the cleanup are not retried.
InstanceDrains == \A pr \in PRs : HasInstance(pr) ~> ~HasInstance(pr)

\* instance_timeout_minutes: a server offered to players is withdrawn at last,
\* even across crashes.
AutoShutdown == \A pr \in PRs : backends[pr] # None ~> backends[pr] = None \/ Raced(pr)

-----------------------------------------------------------------------------
(* What the code's comments say and the code does not do. *)

\* proxy.rs:203 "Check if we already have an image with this commit": a build is
\* skipped only if the image exists.
SkipOnlyBuilt ==
  \A c \in Clients : requests[c].pc = "deploy" =>
    <<requests[c].pr, requests[c].commit>> \in images

\* k8s/mod.rs:107 "deployment exists but not ready, will be handled by
\* lifecycle": the lifecycle loop handles what is in the instance map.
NotReadyIsHandedOver ==
  [][\A pr \in PRs : RecoverNotReady(pr) => instances'[pr] # NoInstance]_vars

=============================================================================
