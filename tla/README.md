# A TLA+ model of OpenLander's deploy core

OpenLander is a self-hosted deployment platform: one Node.js process that
builds repositories, runs the images with Docker, publishes them through
Traefik, keeps its records in PostgreSQL, and is driven by people (web
interface, CLI) and by agents (MCP tools). Almost everything interesting it
does is a sequence of awaited calls to Docker and to the database, on rows that
other requests, background deploys, event listeners and periodic monitors write
too. There is no in-memory ownership of a project: what protects it is a lock in
its row, a state machine over its `status` column, and the order of the calls.

This directory models that core and the protocols around it (port allocation,
held destructive actions, archive and restore, Compose stacks, the platform
updater), model-checks them with TLC, and proves with TLAPS the safety properties
of every component for any number of actors, services and failures. Paths below
are relative to the repository's `src/` unless they begin with `docs/` or `test/`.

## 1. Inventory

### Components, their state and operations

| Component | State | Operations | Where it is hard |
|---|---|---|---|
| Deploy lock (`db/repos/project.repo.ts`, `db/repos/deploy-lock-helper.ts`) | `deploy_lock_session`, `deploy_lock_at` of a project row | `acquireDeployLock` (sweep, then conditional UPDATE), `releaseDeployLock` with or without a session, `cleanExpiredDeployLocks`, `withDeployLock` (nested, sorted, re-entrant) | expiry under a live holder, releases by detached event listeners, crash between acquire and release |
| Project state machine (`monitor/project-state-manager.ts`, `pipeline/mutation-policy.ts`) | `status` of project rows | `transition`, `reconcileAll` at startup, `assertProjectMutable` | rejected transitions are only logged; read, await, write |
| Deploy pipeline (`pipeline/deploy-core.ts`, `pipeline/deploy/*`) | project row, environment row, container | `startDeploy`, `deploy`, `deployEnvironment`, `redeployResolvedService` | some twenty awaits with a different cleanup after each; cancellation; background failure recorded after the lock is free |
| Rollback (`pipeline/deploy/rollback.ts`) | same rows | `rollbackToImage` | early return that leaves `recovering` |
| Lifecycle (`pipeline/deploy/lifecycle.ts`) | same rows, `archived_at` of projects and services | `stop`, `start`, `remove`, `archive`, `archiveGroup`, `unarchive`, `unarchiveGroup` | `stop` and `unarchive` take no lock; a stateful container is stopped, disconnected, renamed and recorded, with an undo for every prefix |
| Blue-green redeploy (`blueGreenRedeployInner`) | two containers, two rows, Traefik's route | build green, probe, switch rows, probe route, stop blue, probe again, remove blue; restore on failure | the route follows the rows only at the next poll |
| Reconciler (`monitor/container-state-reconciler.ts`) | none of its own | `detectMissingContainers`, `timeoutStuckRecovering` | works on a snapshot of the rows |
| Plan engine (`pipeline/deploy-plan/engine.ts`, `tools/defs/deploy-plan.ts`) | a row of `deploy_plans`, in-memory copies, listeners | `executePlan`, `updatePlan`, `execute_deploy_plan` | read at the start, written much later; listeners match the project only |
| Agent job queue (`pipeline/deploy-queue.ts`) | `running`, `acquiredAt`, waiters, watchdog timer | `acquire`, release, force-release | stale jobs, late releases |
| Event bus (`events/index.ts`) | handlers | `emit` | handlers that do database work are not awaited |
| Compose stacks (`pipeline/compose.ts`, `compose-deployment-sets.ts`, `compose-stateful-guard.ts`, `orchestrator.ts`) | parent and child rows, containers under fixed names, containers set aside | `deployComposeViaDockerode`, `stopCompose`, ordered groups with rollback | services of a group run at once; one that throws starts the cleanup while its siblings go on; a replaced database must come back |
| Ports (`pipeline/port.ts`) | reservations and a one-second scan cache in memory | `allocatePort`, `releasePortReservation`, `clearPortScanCache` | the scan awaits, the reservation does not; a dozen callers with different ways out |
| Held actions of MCP clients (`mcp/destructive-*.ts`, `mcp/app-cleanup.ts`, `db/repos/action-run.repo.ts`) | rows of `action_runs` | request, approve, reject, continue after a permission change, claim, execute, record, startup sweep | two people, detached handlers and an agent want to execute the same action |
| Platform updater (`update/*`) | `status.json`, a backup, the installation's two files, a runner container | `startUpdate`, `getStatus` with `reconcileOperation`, the runner with rollback, startup validation | three programs write one file without a lock, and one of them replaces another |
| Monorepos, service manager | parent and child rows; managed databases | staged deploys; provision, backup, restore | under the same lock |
| Auto recovery, recovery coordinator, agent pool | suppression windows, circuit breaker | recover after a crash loop | cold storage at this commit: `app.ts:358` constructs the coordinator and never starts it |
| Approval gate, question bridge | pending questions with timeouts | ask, answer, expire | not wired, or used by the cold agent only |
| Sharing, preview, webhook, auth | remote DNS, delivery ids, sessions | publish, dedup, refresh | remote partial failure |
| Docker client, Traefik files, database layer, LLM, tools, channels, CLI, web | – | adapters | – |

### How they interact

* Requests, tools and background deploys call the pipeline, which nests its work
  in `withDeployLock`. A caller that finds the lock taken gives up at once.
* The pipeline publishes `deploy:success` and `deploy:failed`. A listener in
  `web/api/routes.ts` releases the lock again, without being awaited; the plan
  engine's listeners write the plan row and release the lock too.
* The pipeline writes `container_id` and `status` of the project row and of the
  environment row in separate statements. The reconciler, `stop`, the watchdog
  and startup reconciliation write the same columns without the lock.
* Traefik polls `GET /traefik/config`, which is computed from the rows.
* The process may die between any two awaits. The rows, the containers and the
  lock survive; listeners, `finally` blocks and in-memory plans do not.

### What correct means

* Lock: one session at a time works on a project; whoever is refused is refused
  by a lock that was live; whoever returns leaves no lock.
* Pipeline: success means the new container serves; a failed redeploy keeps the
  old one; rows agree with Docker once everything has settled; every operation
  ends and says so exactly once; a crash is repaired at the next start.
* Blue-green: no request is lost to the update itself; after a single fault the
  container the row names runs, unless it is the one that died (the row itself may
  say `error`, when the fault was in recording the promotion); leftovers are
  collected.
* Plans: carried out once, recorded as carried out, never stuck in `executing`.
* Queue: mutual exclusion, order, no lost wakeup, progress past a hung job.
* Ports: no two holders of one port; no reservation without a holder.
* Held actions: carried out at most once, never after a rejection, never on what
  is closed to them; settled after a restart.
* Archive: rows and containers agree; restoring undoes what was archived, no more.
* Compose: success means that the stack serves; what a deploy does not replace
  survives it; a container that was set aside is never lost.
* Updater: one runner at a time; every way out leaves the version it says; no
  operation stays active for ever.

`PROJECT.json` lists the hazards behind these, each at the line where it bites,
with the properties that cover it.

## 2. Modules

| Module | Models | Extends |
|---|---|---|
| `DeployLock` | the lock columns, the SQL statements on them, nested `withDeployLock` frames, event listeners, sweeps, clock, crashes | instantiates `LeaseLock` |
| `LeaseLock` | the abstract lock: who may rely on a resource | – |
| `ExclusionProofs` | inductive invariants and theorems about `DeployLock` with its refinement, about `DeployQueue` and about `Ports` | `DeployLock`, `DeployQueue`, `Ports` |
| `ProjectStatus` | the transition table and its two guards, as operators | – |
| `DeployPipeline` | background deploy, redeploy, rollback and stop of one project, with reconciler, watchdog, crash and restart | `ProjectStatus` |
| `DeployPipelineProofs` | inductive invariants and theorems about `DeployPipeline` | `DeployPipeline` |
| `BlueGreen` | successive blue-green updates of one service and Traefik | `ProjectStatus` |
| `BlueGreenProofs` | inductive invariant and theorems about `BlueGreen` | `BlueGreen` |
| `PlanEngine` | executions and updates of one deploy plan | – |
| `PlanEngineProofs` | inductive invariant and theorems about `PlanEngine` | `PlanEngine` |
| `DeployQueue` | the agent job queue with its watchdog | – |
| `Ports` | `allocatePort` and its five kinds of callers | – |
| `Approvals` | held actions from the request to the record | – |
| `ApprovalsProofs` | theorems about `Approvals` | `Approvals` |
| `Archive` | archive and restore of the services of one project | – |
| `ArchiveProofs` | inductive invariant and theorems about `Archive` | `Archive` |
| `Compose` | successive deploys and stops of one stack | `ProjectStatus` |
| `ComposeProofs` | inductive invariant and theorems about `Compose` | `Compose` |
| `PlatformUpdater` | server, runner and Docker during platform updates | – |
| `PlatformUpdaterProofs` | inductive invariant and theorems about `PlatformUpdater` | `PlatformUpdater` |
| `MC*` | instances for TLC | the module of the same name |

`ExclusionProofs` extends three component modules, so their names do not overlap:
the specification of `DeployLock` is `LockSpec` with `LockInit`, `LockNext` and
`LockTypeOK`, that of `Ports` is `PortsSpec` with `PortsInit` and so on; `Spec` is
that of `DeployQueue`. The three share no state.

Operators that begin with a comment "Mutant" or "A plausible bug" are altered
forms of the definition that follows them. No specification uses them; they
exist to show that each property can be violated by a change of the code.

### `DeployLock`

`lockSession[p]` and `lockAt[p]` are the two columns. A caller is one mutating
operation with its own session id; `Route[c]` is the sequence of projects its
nested frames lock: one for a deploy, several in sorted order for an archive of
a compose project, the same one twice for a tool that acquires the lock and then
calls `redeployService` with its session. `acquireDeployLock` is two statements
with an await between them, so it is two actions, `Sweep` and then `Enter` or
`Refused`. `FinishBody` publishes the terminal event, whose release the
listener carries out at any later time (`AutoRelease`), in no order with the
`finally` blocks (`Leave`). `Scoped` and `Sessionless` say which callers publish
events with and without a session id; an event without one clears the lock
whoever holds it. `leaseAt` and `sweptAt` are history: what the caller itself
knows of the time.

`LeaseLock` has one variable: the clients that may rely on each resource. It
maps from `DeployLock` by "the caller claims the project, is within its lease,
and no sessionless event can reach the project". `ImplementsLeaseLock` is
checked by TLC and proved.

### `DeployPipeline`

One existing project with its row (`status`, `ref`), its production environment
row (`envStatus`, `envRef`), the container Docker has under its name, and the
lock. A container runs, or is there without running (`halted`): it is created
and started by two calls, stopped and removed by two calls, may end by itself
(`Exit`) or vanish, and a removal whose error the code swallows may leave it
where it was (`MayBeGone`). A step is one Docker call or one write of one row, so
that every other actor can come in between. `pc` follows the awaits of `deployEnvironment`,
`runAndVerify`, `rollbackToImage` and `stop`; the branches of the catch block
depend on `swapped` and `restored` exactly as the code's flags do. `Moved` is
`transition`: a move the table does not allow leaves the row alone. Images,
logs, ports and environment variables are abstracted; a container is known by
who created it. The reconciler reads in one step and inspects in another.
`Restart` is `reconcileAll`: a project follows a container that runs or is
missing, and one that is there and does not run leaves the row as it is
(`monitor/project-state-manager.ts:229-243`). `foundHalted` is history: the last
start found the container so, and no deploy has marked the row since.

### `BlueGreen`

Container 0 serves first and update *k* starts container *k*. The model follows
`blueGreenRedeployInner` from the eligibility checks through the promotion, the
restore branch and the `finally` block. `route` is what Traefik last polled;
`Reachable` is what the probe through the public route sees. A *fault* is
something that goes wrong outside the code (a container dies, a Docker call or a
probe fails although the container runs, a poll is late) and is counted;
failing builds, failing health checks and cancellations are normal behaviour and
unlimited.

### `PlanEngine`

The row of `deploy_plans`, the copy each execution has in memory, the lock of
the project the plan deploys and of the one it attaches to, and the listeners.
`execute_deploy_plan` takes the lock before the engine takes it under the same
session (`Request`), and `Persist` writes the plan that was read before the lock
(`Load`). What a dispatched deploy does is the business of `DeployPipeline`;
here it ends at some time with an event. Other deploys of the project end too
(`ForeignEnds`) and reach the same listeners. After the dispatch the call asks the
database for an estimate, which may throw into the same catch block
(`EstimateThrows`). `took` and `disturbed` are history: executions that took the
lock, and those whose plan somebody else ended, with its lock freed, while their
own deploy ran.

### `DeployQueue`

Time is kept as ages relative to `STALE_JOB_MS`. A waiter whose promise was
resolved resumes in a microtask: other code may run before it, but no timer
fires. The class is constructed in `app.ts` and its `isRunning` is read by the
platform updater; at this commit no code calls `acquire`.

### `Ports`

`reserved` and `cache` are the two module variables of `port.ts`; `bound` is what
Docker has published and `row` what the database records. A scan is three steps,
one for each source, and the choice with the reservation is one step, as there is
no await between them. The callers differ in when they give the reservation back
(`ReleasesOn`, `ReleasesAfterRow`, `Abandon`), whether they retry a refusal by
Docker (`Retries`) and what a failure does (`GivesBackAgain`). `leaked` and
`late` are history: ports whose reservation a known way out keeps, and ports that
a Compose service released a second time.

### `Approvals`

`status` and `approval` are the two columns of an action run. Reviewers and
agents take one step for each awaited call; only one UPDATE statement is atomic.
`Decide` and `Claim` are the conditional UPDATEs that the exclusion rests on. A
batch (`cleanup_apps`) reads the permission again before each service, skips what
is closed and goes on. A crash drops every actor, and the next start runs the
three UPDATEs of the sweep one by one before it serves. `Named` is what the
executor asks the permission of: the root only for a single tool, every service
for a batch. A single tool (`Act`) may do all of its work, or nothing and return
a rejection that the executor takes for success, or a part and throw. Any call to
the database may fail (`WriteFails` inside the executor's `try`, `CallFails`
outside of it); `stranded` is history: claimed actions whose executor was lost
that way.

### `Archive`

A project with a stack (`web` with its stateful child `db`) and a second service
(`api`). The project row of the primary service is at the same time the row of
the group. Markers are the numbers of the operations that wrote them, for the
timestamps of the code. Each Docker call and each write is a step that may throw;
the two catch blocks undo step by step. `torn` is history: services whose restore
failed in its last write, or which were archived a second time.

### `Compose`

Container *k* of a service is the one operation *k* creates; at most one has the
service's name. `row` and `before` are the child rows and the snapshot
(`existingByName`) that the whole deploy works from; `notes` are the Sets and
Maps of the function (`deploymentByService`, `createdDeploymentServiceNames`,
`reusedServiceNames`, `statefulSwaps`, `restoredStatefulServiceNames`,
`completedServiceNames`, `jobFailures`). `DeploymentSets` is
`planComposeDeploymentSets`, `NextGroup` the layers of `buildTopology`. Services
of a group interleave. A restore that fails inside a callback throws, the deploy
goes to its outer catch block, and the other services of the group go on. The
loops that handle one service after another with nobody else at work (orphans,
leftovers, rows, removal in the catch block) are one step each. `torn` is
history: services whose swap was abandoned halfway by a failing restore or crash
and which no deploy has replaced since.

### `PlatformUpdater`

Versions are numbers. `op` is `status.json`; each writer of it reads, awaits and
writes (`ReadLatest` and `WriteFailed`, `ReadOperation` and `Transition`,
`ReadAfterLaunch` and `WriteRunnerId`). `conf` and `backup` are the versions that
the two files and their copies name, written one at a time. The runner's steps
follow `runPlatformUpdate`; any of them may fail, and the runner or the server
may die at any moment. `Overlap = FALSE` lets one request at a time reconcile,
which is what a single polling page does; see the further behaviours for `TRUE`.

### Abstractions to keep in mind

* `transitionProjectState` is one step, although it reads and then writes.
* Database writes do not fail, except those after the cutover in `BlueGreen`,
  all in `Approvals` but the startup sweep's, the estimate's reads in
  `PlanEngine`, and all in `Archive`.
* In `DeployPipeline` the project, its environment row and its source are there
  throughout. The early returns of `deployEnvironment` for a missing one
  (`deploy-core.ts:1589-1611`, `1616-1632`, `1646-1661`), each of which publishes
  a `deploy:failed` without a session, also for a redeploy, and the checks of
  `redeployResolvedService` at `3247-3257` are left out, and with them the lock
  that such an event frees.
* `DeployPipeline` leaves out the archived and circuit-breaker guards of the
  mutation policy, monorepo and preview deploys and first deploys.
* In `DeployPipeline` only the lock of a crashed operation expires; expiry under
  a live holder is the subject of `DeployLock`.
* In `PlanEngine` the lock that a dispatched deploy takes for itself, when there
  was no project to lock before, is not shown.
* `Archive` frees the locks of a crashed process at once, and no two operations
  have the same timestamp; `assertNoActiveArchiveJobs` is left out.
* `Compose` deploys one at a time (they hold the stack's lock), stops between
  deploys, and starts the next operation when the last callback of the one
  before has ended. `cleanupComposeContainer` succeeds (the code logs and ignores
  its failures). Approved removals, parsing, environment, mounts and ports are
  left out; ports are in `Ports`.
* `PlatformUpdater` assumes that Docker starts a runner within the grace period
  of 15 seconds, that writes of `status.json` succeed, and that no backup is
  pruned while it is needed.
* `LastExecuted` in `Compose` allows every order in which nothing executed that
  depends on a service is still to be rolled back; the code reverses the list of
  executed groups (`orchestrator.ts:347`), which is one of them.
* In `Archive` the check of an unarchive for a taken container name
  (`lifecycle.ts:480-491`) is one of the ways in which `ResumeName` throws.
* Clocks, budgets and counters are bounded by named constants: `MaxClock`,
  `MaxCancels`, `MaxVanish`, `MaxCrashes`, `MaxUpdates`, `MaxFaults`,
  `MaxForeign`, `MaxOps`, `MaxDeaths`, `MaxStarts`, `MaxChanges`.

## 3. Runs

Deadlock checking is off in every configuration: the operations of an instance
are finitely many, and a system in which all have ended stops.

### Passing

| Run | Instance | Shows |
|---|---|---|
| `lock` | archive of projects 1 and 2, re-entrant tool on 1, background deploy of 2; TTL 1, clock to 3; 1.4 M states | `LeaseExclusion`, `RefusalJustified`, `LeavesNothing`, `ImplementsLeaseLock` |
| `pipeline_locked` | two redeploys and a rollback of a running or stopped project, one cancellation, one container that vanishes or ends, one crash; 1.4 M states up to the symmetry of the redeploys | `SuccessIsServed`, `FailedRedeployKeepsService`, `SettledIsClean` |
| `pipeline_open` | background deploy, rollback and an unlocked stop with managed Traefik, one cancellation, one crash; 265 K states, with fairness | `OneTerminalEvent`, `NothingSticks`, `EventuallyHonest` |
| `bluegreen` | three updates, four faults, two crashes; 331 K states | `NoDowntime`, `OneFaultIsSurvived`, `GreenTakesOver` |
| `plan` | a tool and a direct call execute one plan, two updates, one foreign deploy, with and without an existing project, attaching or not; 716 K states, with fairness | `ExecutedPlanIsRecorded`, `CommittedFreesLock`, `ExclusiveExecution`, `ExecutingEnds` |
| `queue` | four jobs of which one hangs, limit of two ticks; 8.4 K states, with fairness | `FairExclusion`, `WaitersHaveAServer`, `WaitersAreServed` |
| `updater` | two updates, a starter and a polling page, one crash of server or runner, every step may fail; 608 K states, with fairness | `OneRunner`, `RollbackRestores`, `CompletedIsInstalled`, `FailedIsTrue`, `UpdateSettles` |
| `ports` | two services, three ports of which another program has one, three operations of any kind, one crash; 416 K states | `NoDoubleGrant`, `ReservedIsHeld` |
| `approvals` | a batch about two services of a stack and an archive of the stack, two reviewers, an agent, one permission change, one failing database call, one crash; 2.1 M states up to the symmetry of the reviewers | `ActedOnce`, `RejectedUntouched`, `BatchIsHonest`, `RestartSettles`, `RunningIsExecuted` |
| `archive` | a stack with a stateful child and a second service, two clients, four operations, two failing calls, one crash; 1.6 M states up to the symmetry of the clients | `RowsMatchRuntime`, `RoundTrip`, `OnlyItsOwnArchive` |
| `compose` | a database, a migration, the application that waits for it and an independent one that the file may lose; two deploys or stops of a new or an existing stack, one failing undo or crash; 0.95 M states, with fairness | `StackServes`, `SparedIsKept`, `SetAsideIsKept`, `RollbackKeepsOrder`, `DeployEnds` |

`SettledIsClean`, `NothingSticks`, `GreenTakesOver`, `FairExclusion`,
`FailedIsTrue`, `BatchIsHonest` and `RowsMatchRuntime` are conjunctions of
properties that the modules name and explain one by one.

Every module states its type invariant as `TypeOK`. The runs spend their time on
the properties above; the instances satisfy `TypeOK` too, and for the lock, the
pipeline, blue-green, the plan engine, Compose, the updater and archive it is
proved.

Why the bounds suffice. *lock*: expiry needs TTL + 1 ticks and a second lease
after it, which clock 3 allows; three callers give every pair of nested, sorted
and re-entrant callers and a third who sweeps; two projects are the least for a
nesting. *pipeline*: the harmful interleavings are of one operation with one
other and one monitor; three operations give a third party, and a second crash
or cancellation would meet only rows a first one can leave. *bluegreen*: a third
update finds what a crash in the second left over from the first; one fault is
survived, and four are what it takes to fool a promotion's probes without a crash
(see the proofs). *plan*: the races are of an
execution with another one under a different session, with an update and with a
foreign end, which frees the lock for the other execution; the second update
comes after the first has left its trace in the row. *queue*: a hung job, its waiter, a second
waiter and a newcomer. *updater*: the second update meets the record, the files
and the validation that the first left; one death covers every single point of
failure, and two deaths would be a second accident during the repair of the
first. *ports*: two clients are the least for a double grant, and a third
operation comes after one that leaked or released twice; with two free ports
both exhaustion and choice occur. *approvals*: the first reviewer, the second
and the agent give every pair and a third party; the archive shares both services
with the batch, looks at the permission of the stack only, and can never be
released by a permission. `StackInit` lets the stack and one service of the batch
begin as `approval_required`, since without that neither action is held. *archive*: four
operations allow archive of a service, archive of the project, restore of either
and one more; of the two faults the properties tolerate one. *compose*: the
second operation starts from every state the first can leave; the stack has an
independent service in the group of the one that fails, a hook, a resource and
two groups to roll back in order; one fault in an undo is one more than the code
handles, besides the failures of ordinary steps, which are unlimited.

### Violation

`updater_rollback` checks what a test of the repository says: "records a hard
failure only when automatic rollback also fails" (`test/update/runner.test.ts:219`).
`recordPlatformUpdateStartupValidation` writes nothing unless the running version
is the operation's target (`update/state-store.ts:200`), so the process that a
rollback restores never records a validation; the runner waits for one
(`update/runner.ts:473`), times out, and records `UPDATE_ROLLBACK_FAILED` for an
installation that is back and well. The finding in `PROJECT.json` quotes the
lines.

The passing properties are stated so that they hold with the following
behaviours present: `LeaseExclusion` is exclusion *within the lease* and on
projects no sessionless event can be published for; `SuccessIsServed` is about
success *while the lock is still held*; `SettledIsClean` excepts the project row
that a start found in `building` with a container that does not run;
`ExclusiveExecution` excepts an execution that lost its lock to the end of
another deploy, or to a failing call after its dispatch, while its own deploy
ran; `RunningIsExecuted` excepts an action stranded by a failing call outside the
executor's `try` or in its catch block; `BatchIsHonest` speaks of the success of
batches only; `NoDoubleGrant` and `ReservedIsHeld` name
the ports that the known double release and the known leaks affect.

Further behaviours that the models contain and no run singles out:

Lock, pipeline, blue-green, plans, queue:

* no holder renews its lock, so a deploy longer than the TTL loses it to the next
  one (`pipeline/deploy-core.ts:987` has "cannot overlap with another deploy",
  the reconciler "the lock-holder is alive and renewing it");
* a refused background deploy publishes `deploy:failed` without a session, and
  the listener (`web/api/routes.ts:178`) releases the lock of the deploy that
  runs;
* `building -> stopped` is not in the transition table, so a cancelled background
  deploy leaves `building` with nothing under way
  (`test/pipeline/deploy-cancellation.test.ts:237` expects `stopped`);
* a server that dies during a redeploy and comes back to find the container there
  but not running (created and not started, stopped and not removed, ended by
  itself) leaves the project row in `building` until a deploy or a rollback has gone
  through, as neither `stopped` nor `recovering` may follow it (`project-state-manager.ts:229`; the trace from `MarkProject`,
  `Crash`, `Exit` to `Restart` is in `pipeline_locked`); the environment row does
  leave it;
* the reconciler asks whether a container is there, not whether it runs, so a row
  may go on saying `running` over a container that stopped: `EventuallyHonest`
  is about its presence;
* a redeploy of a stopped project whose build fails writes `running` although
  there is no container (`deploy-core.ts:2093`);
* after a failed route probe green is removed before Traefik polls blue again
  (`deploy-core.ts:3957`; the Deploy Guide says that the blue route stays active);
* two executions of a plan without a project both pass the guards and dispatch
  (`engine.ts:1772`), and two direct calls share one session, which is why
  `ExclusiveExecution` is about executions under sessions of their own;
* the end of any other deploy of the project makes an execution's listeners
  finish the plan and free its lock while its own deploy runs (`engine.ts:2455`,
  `2466`), and a failing estimate frees it too: the second execution then gets
  the lock, and both carry the plan out;
* the ingress probe fails after the rows were set to `running`: the container is
  removed and `running -> error` is rejected, so the row is wrong until the
  reconciler looks (`EventuallyHonest` says that it is put right);
* a reconciler pass that read the rows before a swap and inspects after it moves
  a freshly deployed project to `stopped`;
* `execute_deploy_plan` keeps the lock it took when `executePlan` throws before
  the commit point, until the lease ends;
* the listeners of an execution that failed its preflight stay registered, and
  the next deploy of the project rewrites the failed plan;
* behind two hung jobs in a row the queue's watchdog finds `running` false and
  does nothing.

Ports:

* a blue-green redeploy (`deploy-core.ts:3572`), an unarchive
  (`lifecycle.ts:539`) and a run whose preparation throws before the creation
  (`run-step.ts:56`) never give their reservation back until the process
  restarts, although `port.ts:256` says "after container creation or on failure";
* a Compose service that meets a port conflict releases its ports before the new
  allocation, and again in the catch block when that fails (`compose.ts:1862`,
  `1939`): the second release may free a port that somebody else was granted;
* a scan under way when `clearPortScanCache` is called puts its old result into
  the cache afterwards.

Held actions:

* both of two reviewers, one who approves and one who rejects, are told that they
  succeeded; only the first UPDATE counts;
* a permission that is revoked between its check and the stop is not seen;
* a failing first read (`destructive-executor.ts:118`), before the `try`, or a
  failing write in the catch block (`221`) leaves the row `running` with nobody
  executing it until the next start; a success whose plan cannot be written is
  recorded as failed;
* a single tool that returns a rejection without acting is recorded as
  `succeeded` (`destructive-executor.ts:199-213` looks at `failed` of
  `cleanup_apps` only): of two approved archives of one service the second does
  nothing (`deployable-service.ts:1544`) and succeeds.

Archive and restore:

* archive of `web`, archive of the project, restore of `web`: the restore looks
  for the group's newer marker (`lifecycle.ts:457`), so the stack's database
  stays archived, and the group's marker is cleared, so that restoring the
  project no longer finds `api`;
* two archive requests may both be admitted before either has the lock; the
  second archives again, its marker replaces the first one's, and its catch block
  may start what is archived;
* the catch block of a restore does not stop the container, and when the last
  write has failed it undoes the runtime of a service that the rows call active;
* `unarchive` takes no lock (`Overlap = TRUE` breaks the properties), and a
  deploy's archived check comes before its lock and is not repeated;
* nothing at startup repairs a half-done archive after a crash.

Compose:

* a service that fails its health check is not among the executed ones, so it is
  neither removed nor, if it was swapped, restored: the row says `error` without
  a container, the new container stays, and the preserved one stays stopped
  (`compose.ts:2216` has "actively cleaned up");
* an application whose old container was removed and whose new one does not start
  is reported `running` with the id of the removed container (`compose.ts:2143`);
* when the preparation of a swap fails it puts the database back under its name,
  and then the catch block of `deployService` (`compose.ts:1943`) removes
  whatever has that name;
* a sibling of a service whose restore throws may record `running` after the
  outer catch block wrote `error`; repeating a restore that failed after its
  rename fails always, and the deploy then throws with its rows in `building`;
* with two approved resources in one group, the outer catch block may put the
  container of one back while its callback is still about to run the new one; the
  late undo of that callback then removes what has the name, the restored
  container;
* after a crash in the middle of a swap the next unapproved deploy starts the
  renamed, disconnected container and reports success (`torn`);
* `stopCompose` keeps the ids of removed containers in the rows; the next deploy
  takes the not-found branch and creates new ones.

Platform updater:

* `reconcileOperation` does not compare the id of the record it read last: with
  two requests at once (`Overlap = TRUE`) one that examined a dead operation can
  mark the next one as failed while its runner works;
* a late "recovered" write may overwrite a final phase, which a later status
  request turns into failed.

### Fairness

* `DeployPipeline`: weak fairness for each operation, since a promise chain that
  can continue is continued (that a Docker call answers or fails is assumed); for the listeners,
  since the event loop runs them; for the reconciler and the watchdog, which are
  intervals that never stop; for expiry of a dead lock, since time passes; for
  restart after a crash, since the process runs under a supervisor. Not for
  cancellation, vanishing containers or crashes. An operation is also fair in
  being requested: the instance's requests are the ones that come.
* `PlanEngine`: each execution, the end of dispatched deploys (which
  `OperationsEnd` and `OneTerminalEvent` justify), and handlers of published
  events. Not updates or foreign deploys.
* `DeployQueue`: microtasks, due timers, time, and the release by jobs that do
  not hang. Not arrivals.
* `PlatformUpdater`: the server starts again (its container has a restart
  policy), `startUpdate` and every runner go on, Docker starts what it was asked
  to start, and someone polls the status while an operation is active, as the
  interface does; strong fairness only for finding the record past its grace
  period. Not deaths, failures or new updates.
* `Compose`: the function goes on (`DeployStep`) and so does each callback
  (`ServiceStep`), since health checks and jobs have time limits and Docker calls
  return. Not requests, stops or crashes.
* `Ports`, `Approvals` and `Archive` are checked for safety only.

## 4. Proofs

### The lock

`ExclusionProofs` proves, for every set of projects and callers, every nesting
of frames and every TTL and clock bound:

* `LockTypes`: `LockSpec => []LockTypeOK`. `LockTypeOK` is not inductive: that
  `Target(c)` is a project needs `depth[c] < Len(Route[c])` in the states where
  a caller acquires, and that a finishing caller releases a frame it entered
  needs `depth[c] >= 1` in its body. `TypeInv` adds both.
* `ExclusionWithinLease`: `LockSpec => []LeaseExclusion`. Exclusion says nothing of
  the row, so it is strengthened to `LockInv`, the conjunction of `TypeInv`,
  `LeaseInv` (a caller that claims a project and is within its lease is named in
  the row, with the timestamp of that lease) and `ReleaseInv` (a release that
  listeners were asked for names a caller that is no longer working, or belongs
  to a project that sessionless events can reach). Two claimants within their
  leases are then the same session, because the row names only one. `Sweep` and
  `ReconcilerSweep` keep `LeaseInv` because a lock is expired only when it is
  strictly older than the TTL; `AutoRelease` keeps it because of `ReleaseInv`;
  `Leave` because a caller that leaves no longer claims; `Enter` by another
  session because the row must have been free.
* `RefusalsJustified`: the action property, from `SweptInv` (what a caller that
  has swept knows of the age of the locks it has left).
* `ReturnsLeaveNothing`: the action property, from `HoldInv` (a caller's name
  stands only in rows of frames it has entered and not left).
* `LockRefinement`: `LockSpec => ImplementsLeaseLock`. The initial states map to the
  initial state; an `Enter` maps to `Acquire`, because `LockInv` shows that
  nobody else relied on the project; every other step maps to `Lose` or to a
  stutter.

### Ports

`ExclusionProofs`, for every set of clients, port range and set of foreign ports:
`PortsGrantedOnce` (`NoDoubleGrant`) from `GrantInv`, whose added conjunct says
that what a client holds is reserved unless it was freed from under it; what the
scan has missed does not matter, because the reservation is made in the step that
tests it. `ReservationsAreHeld` (`ReservedIsHeld`) from `HeldInv`, the same
statement port by port with the types it needs.

### Held actions

`ApprovalsProofs`, for every set of requests, services, reviewers and agents and
every number of faults and crashes: `RequestsActOnce`, `RejectedTouchNothing`,
`OneExecutorEach` and the action property `RejectionsAreFinal`. They share one
inductive invariant: `Known` (what an actor at each step knows of the row),
`Owned` (one executor for each running row that no failing call has stranded, and
none for others), `Touched` (a
service is touched at most once, and by nothing that is not approved and
claimed) and `Ahead` (what an executor is still to touch it has not touched).
"At most once" is not inductive without the last, and the last not without
`Owned`.

`RestartsSettle` adds `Settled`: what each statement of the startup sweep has
closed of the rows of an earlier life stays closed, also when the process dies
between two statements. `BatchesAreHonest` adds `Guarded` (a service that is
closed to a request is never next for its executor, which has to pass the check
first) and `Complete` (the executor of a batch without a failure has touched every
service that does not lie ahead of it).

### Plans

`PlanEngineProofs`, for every set of executors, tools and resources: `PlanTypes`,
`RecordedPlans` (`ExecutedPlanIsRecorded`) and `ExecutionsExclude`
(`ExclusiveExecution`). The invariant adds where an execution is when it has a
lock, listeners or a deploy (`PhaseInv`), that nobody changes the project a plan
attaches to (`AttachInv`), and that an execution which took the lock under a
session of its own and carries the plan out is named in the row, unless it has
been disturbed (`HoldInv`). The exception is necessary: after a foreign end TLC
finds two executions carrying the plan out.

`LocksAreFreed` (`CommittedFreesLock`) adds `FreeInv`: where an execution may be
while some row names its session. A lock that the tool took before the engine is
on the project of the plan's name, so a plan that attaches elsewhere never gets
past the resolution with it; past the commit point the lock is the engine's, and
after the return only an execution with registered listeners still has it.

### The pipeline

`DeployPipelineProofs`, for every set of operations and every number of
cancellations, containers that vanish or end, and crashes. Three theorems hold for any
mixture of background deploys, redeploys, rollbacks and stops: `PipelineTypes`,
`EventsOnce` (`OneTerminalEvent`) and `LocksNotLeaked` (the lock part of
`SettledIsClean`). Their invariant `AlwaysInv` says at which steps each kind of
operation can be (`Paths`), that the operation in the lock is at a step that
releases it (`Holder`), and how many ends it has published at each step
(`Events`).

`SuccessesAreServed`, `RedeploysKeepService` and `SettledProjectsAreClean` are
proved under the hypothesis `LockedOnly`, that every operation is a redeploy or a
rollback, as in the run `pipeline_locked`. The hypothesis is needed: a stop takes
no lock and removes a container under a redeploy's hands, and the event of a
refused background deploy frees a lock that is not its own (both are among the
further behaviours above). `LockedInv` adds that an operation between acquire and
release is the one in the lock (`Section`), what the rows and Docker look like
before success is reported (`Serves`), that a redeploy has not touched the old
container, or has restored it (`Kept`), and that somebody is at work on a row that
says `building`, unless the last start found its container not running
(`Builds`). The reconciler and the watchdog write without the
lock: the proof goes through because they write the project row only, and never
`building`.

### Blue-green

`BlueGreenProofs`, for every number of updates, faults and crashes: `UpdateTypes`,
`ZeroDowntime` (`NoDowntime`), `SingleFaultSurvived` (`OneFaultIsSurvived`) and
`GreenHasTakenOver` (`GreenTakesOver`). The invariant: which flags and rows go
with each step (`Shape`), that nothing is wrong without a fault (`Calm`), what a
promotion that will succeed has established (`Succeeds`), what a failing one has
left (`Fails`), and how many faults it takes at least to reach each abnormal
combination of rows, route and containers (`Counts`).

The first version of the statement said that success implies a route on green.
The proof attempt left a case open, and TLC found it with four faults: an older
green that was not removed still has the route when Traefik misses its polls, and
it answers the probes in place of the new one. The code cannot tell who answered.
The property now names that case (`Leftover`), and the run allows four faults.

### The queue

`ExclusionProofs`, for every set of jobs and every time limit: `NoLostWakeup`
(`WaitersHaveAServer`) and `QueueIsFairLock` (`FairExclusion`). The invariant: the
queue holds exactly the waiting jobs, once each (`QueueIsWaiting`); if it is not
empty some job is ahead that has not released (`Served`); until a force-release at
most one job has been let in, and `running` says whether (`Alone`); the queue is
the end of the sequence of arrivals (`QueueIsSuffix`), in which a job occurs once
(`ArrivalsOnce`). Order follows from the last two.

### Compose

`ComposeProofs`, for every set of services, every dependency relation, every set
of hooks, resources and files, and every number of deploys, stops, failing undo steps and crashes:
`StackTypes`, `AsideIsNeverLost` (`SetAsideIsKept`), `RollbackIsReverse`
(`RollbackKeepsOrder`), `SparedServicesStay` (`SparedIsKept`) and `SuccessServes`
(`StackServes`), all from one inductive invariant (`ComposeInvariant`):

* `Types`; `Sets`, what `planComposeDeploymentSets` promises of its sets;
  `Numbers`, that no container is newer than the operation;
* `Progress`: what the deploy has noted of a service, by the step of its callback;
* `Aside`: a container that was set aside exists, and has its name only when its
  callback has ended;
* `Deployed` and `Layers`: what is recorded as deployed is up under its name, and
  the group order has been followed, so that what a deployed service depends on
  was deployed before it;
* `Rows` and `Spares`: what the row of a reused or left-out service says;
* `Recorded`: each row names the container under the name, or the service is in
  the middle of a swap, or torn;
* `Reports`: what success was reported for.

All parts but `Layers` speak of one service at a time. The lemma `Others` says
that a callback's step leaves every other service alone, and the lemmas about
`Removed`, `Cleaned`, `SetAside`, `PutBack` and the rest say what a step does to
the containers of its own; the proof of each part then looks at each action once,
for its own service.

Three statements were corrected because the general proof showed them false on
stacks that the run's instance does not have: a job that another service lists as
a plain dependency may be reused in place of being run, or run although it is
only relied on (`StackServes`, `Spared`), and a service that is removed from the
file is not spared; and `torn` is now cleared when the service's new container is
recorded, not when it is started.

### The platform updater

`PlatformUpdaterProofs`, for every number of updates, status requests and deaths,
and with every step free to fail: `UpdaterTypes`, `OneRunnerAtATime` (`OneRunner`),
`RollbacksRestore` (`RollbackRestores`), `CompletionsAreInstalled`
(`CompletedIsInstalled`) and `FailuresAreTrue` (`FailedIsTrue`). They share one
invariant, because each needs the others: the record of an update is true only
while no other runner writes the files, and there is no other runner only because
the record stays active until its own has ended.

* `Control` is about who may write what. `Running`: as long as there may be a
  runner of an operation (asked for, alive, or about to be asked for) the record is
  of that operation and active. `Starting` and `LetIn`: `startUpdate` writes a new
  record only when the one it was told of is still inactive and nobody is
  reconciling, and until it has added the container's id the record is its own.
  `Reconciling`: what a status request has read is of the recorded operation, and
  once it has seen no runner there is none, so that failing the operation is
  right. `OnePoller` says that one request at a time does this.
* `Staged` and `BackedUp`: which steps each stage has, and that a backup exists from
  the stage after `backing_up` on, so that a rollback has something to restore.
* `Files`: what the two files and the container are at each step, on the way
  forward (`Forward`), on the way back (`Backward`) and at the end (`Ended`).
* `Truth`: what the record says is so, and also the copy that `startUpdate` has read
  and is about to write again, which would otherwise bring an old record back.

The hypothesis is `~Overlap`, under which the run checks these properties too: two
status requests that reconcile at once break them (see the further behaviours).

### Archive and restore

`ArchiveProofs`, for every group of services, any number of requests in flight, of
operations, failing calls and crashes: `ArchiveTypes`, `ArchivesMatchRuntime`
(`RowsMatchRuntime`), `RestoresTakeTheirOwn` (`OnlyItsOwnArchive`) and
`RestoreUndoesArchive` (`RoundTrip`). `RowsMatchRuntime` speaks of moments at which nobody works; its invariant `IInv` says what is
so in between.

* `Paths`, `About`: at which steps an archive and a restore can be, and which kind
  of service each step is about.
* `Locked`: an archive holds the lock of whatever it is about to visit, with the
  children, and of everything on its list. This is what makes the work on one
  container exclusive. It needs that the services an archive lists are among those
  it locked, though it reads them a second time after it has the locks: nothing
  becomes active in between, because only a restore makes something active, and it
  runs `Alone`.
* `Resources`: a stateful resource is `Settled` unless somebody works on it; an
  archive that works on it has done exactly what its flags say (`Leaving`), and so
  has a restore (`Coming`). At the end of either catch block no flag is left
  of what was done, and the container is named, and on or off the network, as before.
* `Removed`: a container of an archived service without children is gone, or the
  operation that will remove it is on its way.

Each action is shown to be a step that `Goes`: it leaves the other clients and their
locks alone (`Frame`), and leaves each resource alone or is entitled to work on it
and does what the invariant says. `GoesRight` proves once that such a step keeps the
invariant. The hypothesis `~Overlap` is that of the run: a restore takes no lock, and
overlapping one breaks the property.

`RestoresTakeTheirOwn` stands on a second invariant, `JInv`, which says whose number
an archived service carries: that of the archive it belongs to (`why`), or that of a
second archive of this service alone, which nothing else carries (`Owner`, `Again`).
`Numbers` keeps the numbers of the operations under way apart; `Archiver` and
`Single` say what an archive has written so far and with which number; `Restorer`
says that every service on a restore's lists is either the one it was asked for or
one of its marker (`Asked`, `Ours`). The theorem has the hypothesis
`ChildrenOf(Primary) # {}`: the primary service is a stack, as a Compose project's
is. Without it the property is false. The row of a primary service without children
is the group's; when two requests to archive it have both been admitted, the second
writes its marker over the first one's, and restoring the group brings back a
service that an earlier operation had archived.

`RestoreUndoesArchive` is about two operations that follow each other, so its
invariant, `KInv`, has a part for each and one for the moment in between.

* `Undisturbed`, `SoFar`: an archive that nobody has overlapped so far has put its
  own number on exactly what it has archived (`Tagged`), has still to come to its
  own service or has archived it (`OfService`), and in the group never archives a
  child without its stack (`OfGroup`), because a restore of the group finds the
  children through the deployable services.
* `LastArchive`: when such an archive has returned, what it archived carries the
  number of the last operation, and a restore of that target will look for it there
  (`Covers`): at the service, its children and the rows that carry the marker.
* `Returning`, `ToCome`: what the restore still owes carries the number just below
  its own (`Lot`) and is on its lists, in its hands, or a child of a stack that is
  (`Listed`); its lists hold nothing else and nothing twice (`Lists`).

At its end the lists are empty, so nothing is owed, and what is active was active
before. A failing call in the archive leaves fewer services archived, one in the
restore ends it before the return that the property is about; so the theorem needs
no bound on either, and no condition on the primary service: the second archive
that breaks the previous property is one that overlaps another.

### What is not proved

The assumptions of all proofs are the named ones of the modules they are about
(`ASSUME`), which TLC evaluates in the runs, and the hypotheses that are stated
where they are used, `LockedOnly`, `~Overlap` and `ChildrenOf(Primary) # {}`; none
bounds a set or a counter.

Only model-checked is liveness (`NothingSticks`, `EventuallyHonest`,
`ExecutingEnds`, `WaitersAreServed`, `UpdateSettles`, `DeployEnds`), which is outside
what the prover does.

## 5. Plan

Done: the lock, its abstract specification and the refinement; the pipeline;
blue-green; plans; the queue; ports; held actions; archive and restore; Compose
stacks; the platform updater; proofs of every safety property of all of them.

Next, in this order:

1. `ProjectState`: `transition` as read, await, write, with concurrent
   transitions, the circuit-breaker guard and `reconcileAll`.
2. Compose: approved removals of stateful services, a stop and an archive that
   overlap a deploy; monorepos over the same orchestrator.
3. The service manager's backup and restore; sharing and unsharing with the
   remote DNS; webhook deduplication.
4. Recovery (coordinator, suppression windows, circuit breaker, agent pool), when
   it is started again.

## 6. Not modelled

The Docker client, Traefik's file configuration and the database layer are I/O:
they appear as the outcomes of their calls. The web interface, its translations,
the schema and migrations, the tool descriptions, the repository analysis, the
LLM integration, channels and CLI are most of the repository's lines; they format
and forward, and have no protocol state that the properties are about. The models
therefore cover a small share of all lines and most of those in which several
actors change shared state.

The recovery coordinator, the agent pool and the question bridge are cold storage
at this commit: constructed, never started. The approval gate has no caller.
Monorepos are several deploys that `DeployPipeline` models one by one, with the
orchestrator that `Compose` models. The service manager, sharing, webhook and
authentication have state of their own and are in the plan, or listed as
`not_modelled` with the reason in `PROJECT.json`.
