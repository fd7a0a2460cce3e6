--------------------------- MODULE DeployPipeline ---------------------------
(***************************************************************************)
(* The operations of pipeline/deploy-core.ts on one existing project: its  *)
(* row, its production environment row, its Docker container, the deploy   *)
(* lock, and the monitors that write the same rows.                        *)
(*                                                                         *)
(*   start     startDeploy: returns at once and runs deploy() in the       *)
(*             background, with a lock session of its own; the old         *)
(*             container is removed before the build                       *)
(*   redeploy  redeployResolvedService with strategy force: the live       *)
(*             container is preserved until the new image is built         *)
(*   rollback  RollbackExecutor.rollbackToImage                            *)
(*   stop      ContainerLifecycle.stop, which does not take the deploy     *)
(*             lock                                                        *)
(*                                                                         *)
(* A step is a Docker call or the write of one row: transitionProjectState *)
(* (read the status, write it, write the other columns) is one step.  To   *)
(* run a container is two calls, create and start, and so is to stop and   *)
(* to remove it.                                                           *)
(*                                                                         *)
(* Writes of the database do not fail.  The project, its environment row   *)
(* and its source are there throughout.  Deploys of compose files and of   *)
(* monorepos are not here.                                                 *)
(***************************************************************************)
EXTENDS Integers, FiniteSets, ProjectStatus

CONSTANTS Ops,             \* the operations that will be requested
          Kind,            \* [Ops -> Kinds]
          None,            \* NULL
          InitialStatuses, \* the project may begin running, or stopped
          ManagedTraefik,  \* config.traefik.mode = 'managed'
          MaxCancels,      \* bound on cancel requests of the operator
          MaxVanish,       \* bound on containers that end behind OpenLander
          MaxCrashes       \* bound on crashes of the server process

Kinds == {"start", "redeploy", "rollback", "stop"}

ASSUME KindAssumption == Kind \in [Ops -> Kinds]
ASSUME NoneAssumption == None \notin Ops
ASSUME BoundAssumption ==
    /\ InitialStatuses \subseteq {"running", "stopped"}
    /\ ManagedTraefik \in BOOLEAN
    /\ {MaxCancels, MaxVanish, MaxCrashes} \subseteq Nat

VARIABLES
    status,     \* status of the project row
    ref,        \* container_id of the project row
    envStatus,  \* status of the production environment row
    envRef,     \* container_id of the production environment row
    container,  \* the container Docker has under the project's name
    halted,     \* that container is there but does not run
    lock,       \* deploy_lock_session of the project row
    pc,         \* the next step of every operation
    live,       \* the container id a stop read; for a deploy (history), the
                \* container it found running when it entered
    swapped,    \* liveContainerRemovedForSwap
    restored,   \* outcome of restoreLiveContainerAfterSwapFailure
    result,     \* how the operation ended
    terminal,   \* number of deploy:success and deploy:failed events published
    releases,   \* lock releases asked of the listeners of routes.ts
    snapshot,   \* what a pass of the reconciler has read
    up,         \* the server process is running
    budget,     \* what is left of the bounds
    foundHalted \* history: the last start of the server found the container
                \* there but not running, and no deploy marked the row since

docker == <<container, halted>>
rows == <<status, ref, envStatus, envRef>>
locals == <<live, swapped, restored, result, terminal>>
others == <<snapshot, up, budget, foundHalted>>
vars == <<rows, docker, lock, pc, locals, releases, others>>

(* A container is known by who created it.                                 *)
Old == <<"old">>
Fresh(o) == <<"run", o>>
Restored(o) == <<"restored", o>>
Containers == {Old} \cup {Fresh(o) : o \in Ops} \cup {Restored(o) : o \in Ops}

(* What a pass of the reconciler read: nothing yet, or a row without a     *)
(* container id, so that it will ask Docker by name.                       *)
NoPass == <<"idle">>
ByName == <<"byName">>

PCs == {"idle", "lock", "enter", "markEnv", "markProject", "build", "swap", "run",
        "created", "health", "syncRunning", "syncError", "route", "cleanup",
        "restore", "restoring",
        "failEnv", "failProject", "failEmit", "cancelEnv", "cancelProject",
        "cancelEmit", "release", "bgProject", "bgEnv",
        "rbMark", "rbClean", "rbRemove", "rbRun", "rbCreated", "rbProject", "rbEnv",
        "rbErrProject", "rbErrEnv", "stopHalt", "stopRemove", "stopProject", "stopEnv",
        "done"}

Results == {"none", "success", "failed", "cancelled", "threw", "refused",
            "blocked", "crashed"}

TypeOK ==
    /\ status \in Statuses
    /\ envStatus \in Statuses \ {"recovering"}
    /\ {ref, envRef, container} \subseteq Containers \cup {None}
    /\ halted \in BOOLEAN
    /\ lock \in Ops \cup {None}
    /\ pc \in [Ops -> PCs]
    /\ live \in [Ops -> Containers \cup {None}]
    /\ swapped \in [Ops -> BOOLEAN]
    /\ restored \in [Ops -> {"untried", "ok", "failed"}]
    /\ result \in [Ops -> Results]
    /\ terminal \in [Ops -> Nat]
    /\ releases \subseteq Ops \cup {None}
    /\ snapshot \in {NoPass, ByName} \cup Containers
    /\ up \in BOOLEAN /\ foundHalted \in BOOLEAN
    /\ budget \in [cancel : 0..MaxCancels, vanish : 0..MaxVanish, crash : 0..MaxCrashes]

(* The project has been deployed before and is running, or was stopped.    *)
Init ==
    /\ status \in InitialStatuses
    /\ \/ /\ status = "running" /\ envStatus = "running"
          /\ ref = Old /\ envRef = Old /\ container = Old
       \/ /\ status = "stopped" /\ envStatus = "stopped"
          /\ ref = None /\ envRef = Old /\ container = None
    /\ halted = FALSE /\ foundHalted = FALSE
    /\ lock = None
    /\ pc = [o \in Ops |-> "idle"]
    /\ live = [o \in Ops |-> None]
    /\ swapped = [o \in Ops |-> FALSE]
    /\ restored = [o \in Ops |-> "untried"]
    /\ result = [o \in Ops |-> "none"]
    /\ terminal = [o \in Ops |-> 0]
    /\ releases = {}
    /\ snapshot = NoPass
    /\ up = TRUE
    /\ budget = [cancel |-> MaxCancels, vanish |-> MaxVanish, crash |-> MaxCrashes]

-----------------------------------------------------------------------------
At(o, l) == up /\ pc[o] = l
Goto(o, l) == pc' = [pc EXCEPT ![o] = l]
Ends(o, r) == result' = [result EXCEPT ![o] = r]

Preserves(o) == Kind[o] = "redeploy"

(* What a call does to the container.  A removal whose error is swallowed  *)
(* may leave it where it was.                                              *)
Gone == container' = None /\ halted' = FALSE
MayBeGone == Gone \/ UNCHANGED docker
Created(c) == container' = c /\ halted' = TRUE
Started == halted' = FALSE /\ UNCHANGED container
Serving == container # None /\ ~halted

Publish(o, session) ==
    /\ terminal' = [terminal EXCEPT ![o] = @ + 1]
    /\ releases' = releases \cup {session}

(* The local variables of an operation end when the function returns.      *)
Forgotten(ended) ==
    /\ live' = [o \in Ops |-> IF o \in ended THEN None ELSE live[o]]
    /\ swapped' = [o \in Ops |-> o \notin ended /\ swapped[o]]
    /\ restored' = [o \in Ops |-> IF o \in ended THEN "untried" ELSE restored[o]]

-----------------------------------------------------------------------------
(* Entry points.                                                           *)

(* startDeploy: the policy check, then the row is marked before the lock   *)
(* is asked for; a row in error loses its container reference first.       *)
StartDeploy(o) ==
    /\ At(o, "idle") /\ Kind[o] = "start" /\ Mutable(status)
    /\ ref' = IF status = "error" THEN None ELSE ref
    /\ status' = Moved(status, "building")
    /\ foundHalted' = FALSE
    /\ Goto(o, "lock")
    /\ UNCHANGED <<envStatus, envRef, docker, lock, locals, releases, snapshot, up, budget>>

(* redeployResolvedService and rollback check the policy before the lock.  *)
CheckMutable(o) ==
    /\ At(o, "idle") /\ Kind[o] \in {"redeploy", "rollback"} /\ Mutable(status)
    /\ Goto(o, "lock")
    /\ UNCHANGED <<rows, docker, lock, locals, releases, others>>

Blocked(o) ==
    /\ At(o, "idle") /\ Kind[o] # "stop" /\ ~Mutable(status)
    /\ Goto(o, "done")
    /\ Ends(o, "blocked")
    /\ UNCHANGED <<rows, docker, lock, live, swapped, restored, terminal,
                   releases, others>>

(* Mutant: the lock is taken whoever holds it.                             *)
AcquireAnyway(o) ==
    /\ At(o, "lock")
    /\ lock' = o
    /\ Goto(o, IF Kind[o] = "rollback" THEN "rbMark" ELSE "enter")
    /\ UNCHANGED <<rows, docker, locals, releases, others>>

AcquireLock(o) ==
    /\ At(o, "lock") /\ lock = None
    /\ lock' = o
    /\ Goto(o, IF Kind[o] = "rollback" THEN "rbMark" ELSE "enter")
    /\ UNCHANGED <<rows, docker, locals, releases, others>>

(* DeployLockedError.  The caller of redeploy and rollback gets it; the    *)
(* background deploy of startDeploy records it as a failure of its own.    *)
LockRefused(o) ==
    /\ At(o, "lock") /\ lock # None
    /\ Goto(o, IF Kind[o] = "start" THEN "bgProject" ELSE "done")
    /\ Ends(o, "refused")
    /\ UNCHANGED <<rows, docker, lock, live, swapped, restored, terminal,
                   releases, others>>

-----------------------------------------------------------------------------
(* deployEnvironment.                                                      *)

(* The policy is checked again under the lock, and throws.                 *)
EnterBlocked(o) ==
    /\ At(o, "enter") /\ ~Mutable(status)
    /\ Goto(o, "release")
    /\ Ends(o, "threw")
    /\ UNCHANGED <<rows, docker, lock, live, swapped, restored, terminal,
                   releases, others>>

(* The environment row is read; unless the live container is preserved, it *)
(* is removed now, by the id the environment row has.                      *)
Enter(o) ==
    /\ At(o, "enter") /\ Mutable(status)
    /\ live' = [live EXCEPT ![o] = IF halted THEN None ELSE container]
    /\ IF ~Preserves(o) /\ container = envRef THEN MayBeGone ELSE UNCHANGED docker
    /\ Goto(o, "markEnv")
    /\ UNCHANGED <<rows, lock, swapped, restored, result, terminal, releases, others>>

MarkEnv(o) ==
    /\ At(o, "markEnv")
    /\ envStatus' = "building"
    /\ envRef' = IF Preserves(o) THEN envRef ELSE None
    /\ Goto(o, "markProject")
    /\ UNCHANGED <<status, ref, docker, lock, locals, releases, others>>

MarkProject(o) ==
    /\ At(o, "markProject")
    /\ status' = Moved(status, "building")
    /\ ref' = IF Preserves(o) THEN ref ELSE None
    /\ foundHalted' = FALSE
    /\ Goto(o, "build")
    /\ UNCHANGED <<envStatus, envRef, docker, lock, locals, releases, snapshot, up, budget>>

(* Clone and build, or pull; every error of them ends in the catch block.  *)
Build(o) ==
    /\ At(o, "build")
    /\ \/ Goto(o, IF Preserves(o) THEN "swap" ELSE "run")
       \/ Goto(o, "cleanup")
    /\ UNCHANGED <<rows, docker, lock, locals, releases, others>>

Cancel(o) ==
    /\ At(o, "build") /\ budget.cancel > 0
    /\ budget' = [budget EXCEPT !.cancel = @ - 1]
    /\ Goto(o, "cancelEnv")
    /\ UNCHANGED <<rows, docker, lock, locals, releases, snapshot, up, foundHalted>>

(* The preserved container is removed by id and by name.                   *)
Swap(o) ==
    /\ At(o, "swap")
    /\ MayBeGone
    /\ swapped' = [swapped EXCEPT ![o] = TRUE]
    /\ Goto(o, "run")
    /\ UNCHANGED <<rows, lock, live, restored, result, terminal, releases, others>>

(* containerRunner.run: removes a container of that name unless the live   *)
(* one was preserved, in which case Docker refuses a name in use; then it  *)
(* creates the container, ...                                              *)
Run(o) ==
    /\ At(o, "run")
    /\ \/ /\ ~Preserves(o) \/ container = None
          /\ Created(Fresh(o))
          /\ Goto(o, "created")
       \/ /\ IF Preserves(o) THEN UNCHANGED docker ELSE MayBeGone
          /\ Goto(o, "cleanup")
    /\ UNCHANGED <<rows, lock, locals, releases, others>>

(* ... and starts it; what fails to start stays as it was created.         *)
RunStart(o) ==
    /\ At(o, "created")
    /\ \/ /\ container = Fresh(o)
          /\ Started
          /\ Goto(o, "health")
       \/ /\ UNCHANGED docker
          /\ Goto(o, "cleanup")
    /\ UNCHANGED <<rows, lock, locals, releases, others>>

(* runAndVerify after the container started: healthy or not, the           *)
(* environment row is written first, then the project row.                 *)
Healthy(o) ==
    /\ At(o, "health") /\ container = Fresh(o) /\ ~halted
    /\ envStatus' = "running" /\ envRef' = Fresh(o)
    /\ Goto(o, "syncRunning")
    /\ UNCHANGED <<status, ref, docker, lock, locals, releases, others>>

Unhealthy(o) ==
    /\ At(o, "health")
    /\ envStatus' = "error" /\ envRef' = Fresh(o)
    /\ Goto(o, "syncError")
    /\ UNCHANGED <<status, ref, docker, lock, locals, releases, others>>

SyncRunning(o) ==
    /\ At(o, "syncRunning")
    /\ status' = Moved(status, "running") /\ ref' = Fresh(o)
    /\ Goto(o, "route")
    /\ UNCHANGED <<envStatus, envRef, docker, lock, locals, releases, others>>

SyncError(o) ==
    /\ At(o, "syncError")
    /\ status' = Moved(status, "error") /\ ref' = Fresh(o)
    /\ Goto(o, "cleanup")
    /\ UNCHANGED <<envStatus, envRef, docker, lock, locals, releases, others>>

(* The managed ingress is probed after the rows say running.  Past it,     *)
(* handlePostDeploy publishes deploy:success with the session.             *)
RouteVerified(o) ==
    /\ At(o, "route")
    /\ Publish(o, o)
    /\ Ends(o, "success")
    /\ Goto(o, "release")
    /\ UNCHANGED <<rows, docker, lock, live, swapped, restored, others>>

RouteFailed(o) ==
    /\ At(o, "route") /\ ManagedTraefik
    /\ Goto(o, "cleanup")
    /\ UNCHANGED <<rows, docker, lock, locals, releases, others>>

-----------------------------------------------------------------------------
(* The catch block of deployEnvironment: failure.                          *)

(* Mutant: the orphan is removed even when the live container was kept.    *)
CleanupAlways(o) ==
    /\ At(o, "cleanup")
    /\ Gone
    /\ Goto(o, IF swapped[o] THEN "restore" ELSE "failEnv")
    /\ UNCHANGED <<rows, lock, locals, releases, others>>

Cleanup(o) ==
    /\ At(o, "cleanup")
    /\ IF Preserves(o) /\ ~swapped[o] THEN UNCHANGED docker ELSE MayBeGone
    /\ Goto(o, IF swapped[o] THEN "restore" ELSE "failEnv")
    /\ UNCHANGED <<rows, lock, locals, releases, others>>

(* restoreLiveContainerAfterSwapFailure runs the previous image again, in  *)
(* place of whatever has the name; without an image tag, or when the name  *)
(* cannot be had, it fails, ...                                            *)
Restore(o) ==
    /\ At(o, "restore")
    /\ \/ /\ Created(Restored(o))
          /\ Goto(o, "restoring")
          /\ UNCHANGED restored
       \/ /\ MayBeGone
          /\ restored' = [restored EXCEPT ![o] = "failed"]
          /\ Goto(o, "failEnv")
    /\ UNCHANGED <<rows, lock, live, swapped, result, terminal, releases, others>>

(* ... and when the restored container does not start, or is unhealthy and *)
(* is removed, or should have been.                                        *)
RestoreStart(o) ==
    /\ At(o, "restoring")
    /\ \/ /\ container = Restored(o)
          /\ Started
          /\ restored' = [restored EXCEPT ![o] = "ok"]
       \/ /\ MayBeGone \/ (container = Restored(o) /\ Started)
          /\ restored' = [restored EXCEPT ![o] = "failed"]
    /\ Goto(o, "failEnv")
    /\ UNCHANGED <<rows, lock, live, swapped, result, terminal, releases, others>>

StillLive(o) == (Preserves(o) /\ ~swapped[o]) \/ restored[o] = "ok"

FailEnv(o) ==
    /\ At(o, "failEnv")
    /\ envStatus' = IF StillLive(o) THEN "running" ELSE "error"
    /\ envRef' = IF restored[o] = "ok" THEN Restored(o) ELSE envRef
    /\ Goto(o, "failProject")
    /\ UNCHANGED <<status, ref, docker, lock, locals, releases, others>>

FailProject(o) ==
    /\ At(o, "failProject")
    /\ status' = Moved(status, IF StillLive(o) THEN "running" ELSE "error")
    /\ ref' = IF restored[o] = "ok" THEN Restored(o) ELSE ref
    /\ Goto(o, "failEmit")
    /\ UNCHANGED <<envStatus, envRef, docker, lock, locals, releases, others>>

FailEmit(o) ==
    /\ At(o, "failEmit")
    /\ Publish(o, o)
    /\ Ends(o, "failed")
    /\ Goto(o, "release")
    /\ UNCHANGED <<rows, docker, lock, live, swapped, restored, others>>

(* The catch block of deployEnvironment: the build was cancelled.          *)
CancelEnv(o) ==
    /\ At(o, "cancelEnv")
    /\ envStatus' = IF StillLive(o) THEN "running" ELSE "stopped"
    /\ Goto(o, "cancelProject")
    /\ UNCHANGED <<status, ref, envRef, docker, lock, locals, releases, others>>

CancelProject(o) ==
    /\ At(o, "cancelProject")
    /\ status' = Moved(status, IF StillLive(o) THEN "running" ELSE "stopped")
    /\ Goto(o, "cancelEmit")
    /\ UNCHANGED <<ref, envStatus, envRef, docker, lock, locals, releases, others>>

CancelEmit(o) ==
    /\ At(o, "cancelEmit")
    /\ Publish(o, o)
    /\ Ends(o, "cancelled")
    /\ Goto(o, "release")
    /\ UNCHANGED <<rows, docker, lock, live, swapped, restored, others>>

-----------------------------------------------------------------------------
(* Mutant: the lock is released on success only.                           *)
ReleaseOnSuccess(o) ==
    /\ At(o, "release")
    /\ lock' = IF lock = o /\ result[o] = "success" THEN None ELSE lock
    /\ Goto(o, IF Kind[o] = "start" /\ result[o] \in {"failed", "threw"}
               THEN "bgProject" ELSE "done")
    /\ Forgotten({o})
    /\ UNCHANGED <<rows, docker, result, terminal, releases, others>>

(* The finally block of withDeployLock, and what fireAndForgetDeploy does  *)
(* with the outcome once the lock is free.                                 *)
Release(o) ==
    /\ At(o, "release")
    /\ lock' = IF lock = o THEN None ELSE lock
    /\ Goto(o, IF Kind[o] = "start" /\ result[o] \in {"failed", "threw"}
               THEN "bgProject" ELSE "done")
    /\ Forgotten({o})
    /\ UNCHANGED <<rows, docker, result, terminal, releases, others>>

(* recordBackgroundFailure: the project row, then every environment row;   *)
(* deploy:failed, without a session, if deploy() threw before it could.    *)
BgProject(o) ==
    /\ At(o, "bgProject")
    /\ status' = Moved(status, "error")
    /\ Goto(o, "bgEnv")
    /\ UNCHANGED <<ref, envStatus, envRef, docker, lock, locals, releases, others>>

(* Mutant: deploy:failed also for a deploy that has published it.          *)
BgEnvPublishes(o) ==
    /\ At(o, "bgEnv")
    /\ envStatus' = "error"
    /\ Publish(o, None)
    /\ Goto(o, "done")
    /\ UNCHANGED <<status, ref, envRef, docker, lock, live, swapped, restored,
                   result, others>>

BgEnv(o) ==
    /\ At(o, "bgEnv")
    /\ envStatus' = "error"
    /\ IF result[o] = "failed"
       THEN UNCHANGED <<terminal, releases>>
       ELSE Publish(o, None)
    /\ Goto(o, "done")
    /\ UNCHANGED <<status, ref, envRef, docker, lock, live, swapped, restored,
                   result, others>>

(* A listener of routes.ts: session-scoped, or unconditional without one.  *)
AutoRelease(session) ==
    /\ up /\ session \in releases
    /\ lock' = IF session \in {None, lock} THEN None ELSE lock
    /\ releases' = releases \ {session}
    /\ UNCHANGED <<rows, docker, pc, locals, others>>

-----------------------------------------------------------------------------
(* rollbackToImage.                                                        *)

(* No previous image is recorded, or inspectImage does not find it.        *)
RollbackNoImage(o) ==
    /\ At(o, "rbMark")
    /\ Ends(o, "failed")
    /\ Goto(o, "release")
    /\ UNCHANGED <<rows, docker, lock, live, swapped, restored, terminal,
                   releases, others>>

RollbackMark(o) ==
    /\ At(o, "rbMark")
    /\ status' = Moved(status, "recovering")
    /\ Goto(o, "rbClean")
    /\ UNCHANGED <<ref, envStatus, envRef, docker, lock, locals, releases, others>>

(* cleanupRunningContainer: what a row says is running is stopped, and an  *)
(* error of that is swallowed, ...                                         *)
RollbackStop(o) ==
    /\ At(o, "rbClean")
    /\ halted' \in {halted, container # None}
    /\ Goto(o, "rbRemove")
    /\ UNCHANGED <<rows, container, lock, locals, releases, others>>

(* ... then it is removed, and an error of that is not swallowed.          *)
RollbackClean(o) ==
    /\ At(o, "rbRemove")
    /\ \/ /\ Gone
          /\ Goto(o, "rbRun")
       \/ /\ container # None
          /\ UNCHANGED docker
          /\ Goto(o, "rbErrProject")
    /\ UNCHANGED <<rows, lock, locals, releases, others>>

(* A 404 of Docker (the image was pruned meanwhile) returns without        *)
(* touching the rows; any other error marks them.                          *)
RollbackRun(o) ==
    /\ At(o, "rbRun")
    /\ \/ /\ container = None
          /\ Created(Fresh(o))
          /\ Goto(o, "rbCreated")
          /\ UNCHANGED result
       \/ /\ Goto(o, "release")
          /\ Ends(o, "failed")
          /\ UNCHANGED docker
       \/ /\ Goto(o, "rbErrProject")
          /\ UNCHANGED <<docker, result>>
    /\ UNCHANGED <<rows, lock, live, swapped, restored, terminal, releases, others>>

(* The same for the start: the container may be gone again.                *)
RollbackStart(o) ==
    /\ At(o, "rbCreated")
    /\ \/ /\ container = Fresh(o)
          /\ Started
          /\ Goto(o, "rbProject")
          /\ UNCHANGED result
       \/ /\ container # Fresh(o)
          /\ Goto(o, "release")
          /\ Ends(o, "failed")
          /\ UNCHANGED docker
       \/ /\ Goto(o, "rbErrProject")
          /\ UNCHANGED <<docker, result>>
    /\ UNCHANGED <<rows, lock, live, swapped, restored, terminal, releases, others>>

RollbackProject(o) ==
    /\ At(o, "rbProject")
    /\ status' = Moved(status, "running") /\ ref' = Fresh(o)
    /\ Goto(o, "rbEnv")
    /\ UNCHANGED <<envStatus, envRef, docker, lock, locals, releases, others>>

RollbackEnv(o) ==
    /\ At(o, "rbEnv")
    /\ envStatus' = "running" /\ envRef' = Fresh(o)
    /\ Ends(o, "success")
    /\ Goto(o, "release")
    /\ UNCHANGED <<status, ref, docker, lock, live, swapped, restored, terminal,
                   releases, others>>

RollbackErrProject(o) ==
    /\ At(o, "rbErrProject")
    /\ status' = Moved(status, "error")
    /\ Goto(o, "rbErrEnv")
    /\ UNCHANGED <<ref, envStatus, envRef, docker, lock, locals, releases, others>>

RollbackErrEnv(o) ==
    /\ At(o, "rbErrEnv")
    /\ envStatus' = "error"
    /\ Ends(o, "failed")
    /\ Goto(o, "release")
    /\ UNCHANGED <<status, ref, envRef, docker, lock, live, swapped, restored,
                   terminal, releases, others>>

-----------------------------------------------------------------------------
(* ContainerLifecycle.stop: allowed while recovering, takes no lock.       *)

StopNothing(o) ==
    /\ At(o, "idle") /\ Kind[o] = "stop" /\ ref = None
    /\ status' = Moved(status, "stopped")
    /\ Ends(o, "success")
    /\ Goto(o, "done")
    /\ UNCHANGED <<ref, envStatus, envRef, docker, lock, live, swapped, restored,
                   terminal, releases, others>>

StopRead(o) ==
    /\ At(o, "idle") /\ Kind[o] = "stop" /\ ref # None
    /\ live' = [live EXCEPT ![o] = ref]
    /\ Goto(o, "stopHalt")
    /\ UNCHANGED <<rows, docker, lock, swapped, restored, result, terminal,
                   releases, others>>

(* Mutant: stop insists on stopping the container it read, although it may *)
(* be gone by then.                                                        *)
StopHaltIfThere(o) ==
    /\ At(o, "stopHalt") /\ container = live[o]
    /\ halted' = TRUE
    /\ Goto(o, "stopRemove")
    /\ UNCHANGED <<rows, container, lock, locals, releases, others>>

(* The container is stopped first, if Docker still has it, ...             *)
StopHalt(o) ==
    /\ At(o, "stopHalt")
    /\ halted' = (halted \/ container = live[o])
    /\ Goto(o, "stopRemove")
    /\ UNCHANGED <<rows, container, lock, locals, releases, others>>

(* Docker does not stop a container that is there: the caller is told, and *)
(* the rows keep what they say.                                            *)
StopThrows(o) ==
    /\ At(o, "stopHalt") /\ container = live[o]
    /\ Ends(o, "threw")
    /\ Goto(o, "done")
    /\ UNCHANGED <<rows, docker, lock, live, swapped, restored, terminal,
                   releases, others>>

(* ... and then removed; an error of the removal is swallowed.             *)
StopRemove(o) ==
    /\ At(o, "stopRemove")
    /\ IF container = live[o] THEN MayBeGone ELSE UNCHANGED docker
    /\ Goto(o, "stopProject")
    /\ UNCHANGED <<rows, lock, locals, releases, others>>

StopProject(o) ==
    /\ At(o, "stopProject")
    /\ status' = Moved(status, "stopped") /\ ref' = None
    /\ Goto(o, "stopEnv")
    /\ UNCHANGED <<envStatus, envRef, docker, lock, locals, releases, others>>

StopEnv(o) ==
    /\ At(o, "stopEnv")
    /\ envStatus' = "stopped"
    /\ Ends(o, "success")
    /\ Goto(o, "done")
    /\ UNCHANGED <<status, ref, envRef, docker, lock, live, swapped, restored,
                   terminal, releases, others>>

-----------------------------------------------------------------------------
(* ContainerStateReconciler: a pass reads the rows, then inspects the      *)
(* container the row named and moves the project to stopped if it is gone. *)

(* Mutant: a row that says running is not worth a look.                    *)
ReconcilerReadBroken ==
    /\ up /\ snapshot = NoPass /\ status \in {"error", "recovering"}
    /\ snapshot' = IF ref = None THEN ByName ELSE ref
    /\ UNCHANGED <<rows, docker, lock, pc, locals, releases, up, budget, foundHalted>>

ReconcilerRead ==
    /\ up /\ snapshot = NoPass /\ status \in {"running", "error", "recovering"}
    /\ snapshot' = IF ref = None THEN ByName ELSE ref
    /\ UNCHANGED <<rows, docker, lock, pc, locals, releases, up, budget, foundHalted>>

Missing(probe) == IF probe = ByName THEN container = None ELSE container # probe

ReconcilerInspect ==
    /\ up /\ snapshot # NoPass
    /\ status' = IF Missing(snapshot) THEN Moved(status, "stopped") ELSE status
    /\ snapshot' = NoPass
    /\ UNCHANGED <<ref, envStatus, envRef, docker, lock, pc, locals, releases,
                   up, budget, foundHalted>>

(* Mutant: a transition that the state machine rejects.                    *)
TimeoutToStopped ==
    /\ up /\ status = "recovering" /\ lock = None
    /\ status' = Moved(status, "stopped")
    /\ UNCHANGED <<ref, envStatus, envRef, docker, lock, pc, locals, releases, others>>

(* timeoutStuckRecovering, which leaves a project alone while its lock is  *)
(* held; the 60 minutes may pass at any time.                              *)
TimeoutStuckRecovering ==
    /\ up /\ status = "recovering" /\ lock = None
    /\ status' = Moved(status, "error")
    /\ UNCHANGED <<ref, envStatus, envRef, docker, lock, pc, locals, releases, others>>

-----------------------------------------------------------------------------
(* The environment: containers that disappear, crashes, restarts.          *)

Vanish ==
    /\ budget.vanish > 0 /\ container # None
    /\ Gone
    /\ budget' = [budget EXCEPT !.vanish = @ - 1]
    /\ UNCHANGED <<rows, lock, pc, locals, releases, snapshot, up, foundHalted>>

(* The application ends and its restart policy gives up, or somebody stops *)
(* the container.                                                          *)
Exit ==
    /\ budget.vanish > 0 /\ Serving
    /\ halted' = TRUE
    /\ budget' = [budget EXCEPT !.vanish = @ - 1]
    /\ UNCHANGED <<rows, container, lock, pc, locals, releases, snapshot, up, foundHalted>>

Active(o) == pc[o] \notin {"idle", "done"}

Crash ==
    /\ up /\ budget.crash > 0
    /\ up' = FALSE
    /\ budget' = [budget EXCEPT !.crash = @ - 1]
    /\ pc' = [o \in Ops |-> IF Active(o) THEN "done" ELSE pc[o]]
    /\ result' = [o \in Ops |-> IF Active(o) THEN "crashed" ELSE result[o]]
    /\ releases' = {}
    /\ snapshot' = NoPass
    /\ Forgotten(Ops)
    /\ UNCHANGED <<rows, docker, lock, terminal, foundHalted>>

(* Mutant: environments left in building are forgotten.                    *)
RestartProjectOnly ==
    /\ ~up
    /\ up' = TRUE
    /\ foundHalted' = halted
    /\ status' = CASE Serving -> Reconciled(status, "running")
                   [] container = None /\ status \in {"running", "building"}
                          -> Reconciled(status, "stopped")
                   [] OTHER -> status
    /\ UNCHANGED <<ref, envStatus, envRef, docker, lock, pc, locals, releases,
                   snapshot, budget>>

(* reconcileAll at startup: a project follows a container that runs or is  *)
(* missing; one that is there and does not run leaves the row as it is.    *)
(* Environments left in building follow their container.                   *)
Restart ==
    /\ ~up
    /\ up' = TRUE
    /\ foundHalted' = halted
    /\ status' = CASE Serving -> Reconciled(status, "running")
                   [] container = None /\ status \in {"running", "building"}
                          -> Reconciled(status, "stopped")
                   [] OTHER -> status
    /\ envStatus' = IF envStatus # "building" THEN envStatus
                    ELSE IF Serving /\ envRef = container
                         THEN "running" ELSE "stopped"
    /\ UNCHANGED <<ref, envRef, docker, lock, pc, locals, releases, snapshot, budget>>

(* cleanExpiredDeployLocks, for the lock of an operation that died: the    *)
(* operations modelled here end within their lease.                        *)
ExpireLock ==
    /\ up /\ lock # None /\ result[lock] = "crashed"
    /\ lock' = None
    /\ UNCHANGED <<rows, docker, pc, locals, releases, others>>

-----------------------------------------------------------------------------
DeployStep(o) ==
    \/ StartDeploy(o) \/ CheckMutable(o) \/ Blocked(o) \/ AcquireLock(o)
    \/ LockRefused(o) \/ EnterBlocked(o) \/ Enter(o) \/ MarkEnv(o) \/ MarkProject(o)
    \/ Build(o) \/ Swap(o) \/ Run(o) \/ RunStart(o) \/ Healthy(o) \/ Unhealthy(o)
    \/ SyncRunning(o) \/ SyncError(o) \/ RouteVerified(o) \/ RouteFailed(o)
    \/ Cleanup(o) \/ Restore(o) \/ RestoreStart(o) \/ FailEnv(o) \/ FailProject(o) \/ FailEmit(o)
    \/ CancelEnv(o) \/ CancelProject(o) \/ CancelEmit(o)
    \/ Release(o) \/ BgProject(o) \/ BgEnv(o)

RollbackStep(o) ==
    \/ RollbackNoImage(o) \/ RollbackMark(o) \/ RollbackStop(o) \/ RollbackClean(o)
    \/ RollbackRun(o) \/ RollbackStart(o) \/ RollbackProject(o) \/ RollbackEnv(o)
    \/ RollbackErrProject(o) \/ RollbackErrEnv(o)

StopStep(o) ==
    \/ StopNothing(o) \/ StopRead(o) \/ StopHalt(o) \/ StopThrows(o) \/ StopRemove(o)
    \/ StopProject(o) \/ StopEnv(o)

OpStep(o) == DeployStep(o) \/ RollbackStep(o) \/ StopStep(o)

Reconciler == ReconcilerRead \/ ReconcilerInspect

Listeners == \E s \in Ops \cup {None} : AutoRelease(s)

Next ==
    \/ \E o \in Ops : OpStep(o) \/ Cancel(o)
    \/ Listeners
    \/ Reconciler \/ TimeoutStuckRecovering
    \/ Vanish \/ Exit \/ Crash \/ Restart \/ ExpireLock

Spec == Init /\ [][Next]_vars

(* An operation that has been requested makes progress, the event loop     *)
(* runs the listeners it was asked to run, and the intervals of the        *)
(* reconciler fire for ever.  Operators need not cancel, containers need   *)
(* not vanish, the process need not crash; if it does, pm2 restarts it.    *)
Fairness ==
    /\ \A o \in Ops : WF_vars(OpStep(o))
    /\ WF_vars(Listeners)
    /\ WF_vars(Reconciler)
    /\ WF_vars(TimeoutStuckRecovering)
    /\ WF_vars(Restart) /\ WF_vars(ExpireLock)

FairSpec == Spec /\ Fairness

-----------------------------------------------------------------------------
(* Properties.                                                             *)

(* Nothing is under way: no operation, no listener, no pass of the         *)
(* reconciler, and the process is up.                                      *)
Quiet ==
    /\ up /\ releases = {} /\ snapshot = NoPass
    /\ \A o \in Ops : ~Active(o)

(* A container was removed behind OpenLander's back, or ended by itself.   *)
Meddled == budget.vanish < MaxVanish

(* A deploy that reports success, while it still holds the lock, has its   *)
(* own container serving and the environment row names that container:     *)
(* the reconciler, the watchdog and refused operations write the same rows *)
(* meanwhile and must not spoil it.  Only a container that ends behind     *)
(* OpenLander's back can.                                                  *)
SuccessIsServed ==
    \A o \in Ops :
        pc[o] = "release" /\ result[o] = "success" /\ lock = o
            => /\ (container = Fresh(o) /\ ~halted) \/ Meddled
               /\ envStatus = "running" /\ envRef = Fresh(o)

(* Once everything has settled no row still says building.  There is one   *)
(* way for the project row to be left there, and it is named: the server   *)
(* died and, when it came back, the container was there but did not run,   *)
(* which the startup reconciliation takes for nothing to do; and no deploy *)
(* has begun since.                                                        *)
NotStuckBuilding ==
    Quiet => /\ status = "building" => foundHalted
             /\ envStatus # "building"

(* A redeploy that did not succeed leaves a container serving if there was *)
(* one when it began, unless restoring the previous image failed too: for  *)
(* as long as it holds the lock, nobody else touches that container.       *)
FailedRedeployKeepsService ==
    \A o \in Ops :
        /\ Preserves(o) /\ pc[o] = "release" /\ result[o] \in {"failed", "cancelled"}
        /\ lock = o /\ live[o] # None /\ restored[o] # "failed"
        => (container \in {live[o], Restored(o)} /\ ~halted) \/ Meddled

(* Listeners (the plan engine, the question bridge, the activity log) hear *)
(* of the end of a background deploy exactly once, however it ended; and   *)
(* nobody hears of the end of a deploy twice.                              *)
OneTerminalEvent ==
    \A o \in Ops :
        /\ terminal[o] <= 1
        /\ Kind[o] = "start" /\ pc[o] = "done"
               => terminal[o] = 1 \/ result[o] \in {"blocked", "crashed"}

(* An operation that has returned does not hold the lock, and a lock left  *)
(* by a crash is the only one that outlives its operation.                 *)
LockNotLeaked ==
    lock # None /\ pc[lock] = "done" => result[lock] = "crashed"

(* Every operation ends, be it by success, error or refusal: nothing waits *)
(* for a container or a lock that will never come.                         *)
OperationsEnd == <>[](\A o \in Ops : pc[o] = "done")

(* The row is honest in the end: once requests cease, a project that says  *)
(* running has a container, even when a stop, a container that vanished or *)
(* a crash interfered with a deploy.  It is about the presence of one: the *)
(* reconciler does not ask whether a container runs, so a row may go on    *)
(* saying running over one that has stopped.                               *)
EventuallyHonest == <>[](status = "running" => container # None)

(* A project never stays in recovering, where every deploy is refused:     *)
(* rollbacks that return early are picked up by the watchdog.              *)
RecoveringEnds == []<>(status # "recovering")

(* What a settled project shows: no row that says building and no lock of  *)
(* an operation that has returned, on any path of deploy-core.ts and after *)
(* any crash.                                                              *)
SettledIsClean == NotStuckBuilding /\ LockNotLeaked

(* Nothing gets stuck: every operation returns, and recovering is left     *)
(* again, by the rollback itself or by the watchdog.                       *)
NothingSticks == OperationsEnd /\ RecoveringEnds

=============================================================================
