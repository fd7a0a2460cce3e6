----------------------------- MODULE PlanEngine -----------------------------
(***************************************************************************)
(* executePlan and updatePlan of pipeline/deploy-plan/engine.ts on one     *)
(* deploy plan, called by several clients at once, with the wrapper of     *)
(* tools/defs/deploy-plan.ts that takes the deploy lock beforehand.        *)
(*                                                                         *)
(* A plan is its status, whether required input is missing, the safe       *)
(* resources it proposes to create, and whether it has a target project.   *)
(* What the dispatched deploy does is module DeployPipeline; here it ends  *)
(* at some time with an event, and so do other deploys of the project.  A  *)
(* plan whose project does not exist yet runs without a lock of the        *)
(* engine; the lock that its deploy then takes for itself is not shown.    *)
(*                                                                         *)
(* A plan may attach its service to another project: the engine then locks *)
(* that target, and the deploy runs in a project of the plan's own name,   *)
(* which must not exist yet.  So there are two rows with a lock.           *)
(***************************************************************************)
EXTENDS Integers

CONSTANTS Executors,      \* calls of executePlan
          Tools,          \* those that come through execute_deploy_plan
          Approvers,      \* those that pass approve_all_safe_resources
          Resources,      \* safe resources a plan may propose
          Existing,       \* may a project of the plan's name exist already?
          Attaching,      \* may the plan attach to another project?
          PlanSession,    \* the session plan-<id> of callers without one
          None,           \* NULL
          MaxUpdates,     \* bound on calls of updatePlan
          MaxForeign      \* bound on ends of other deploys of the project

ASSUME ExecutorAssumption ==
    /\ Tools \subseteq Executors /\ Approvers \subseteq Executors
    /\ PlanSession \notin Executors /\ None \notin Executors \cup {PlanSession}
ASSUME PlanBoundAssumption ==
    /\ Existing \subseteq BOOLEAN /\ Attaching \subseteq BOOLEAN
    /\ MaxUpdates \in Nat /\ MaxForeign \in Nat

VARIABLES
    row,         \* the row of deploy_plans
    exists,      \* there is a project of the plan's name
    lock,        \* deploy_lock_session of that project and of the target
    pc,          \* the next step of every execution
    plan,        \* the plan an execution has in memory
    approved,    \* approvedSafeResources
    locked,      \* acquirePlanDeployLock has a lock that is not released
    result,      \* what the caller was told
    deploy,      \* the deploy an execution dispatched
    listening,   \* executions whose completion listeners are registered
    inbox,       \* terminal events that have reached those listeners
    update,      \* the plan updatePlan has in memory
    budget,      \* what is left of the bounds
    took,        \* history: executions that acquirePlanDeployLock gave a lock
    disturbed    \* history: executions whose listeners heard another deploy end,
                 \* or whose call failed, while their own deploy was running

history == <<took, disturbed>>
vars == <<row, exists, lock, pc, plan, approved, locked, result, deploy,
          listening, inbox, update, budget, history>>

PlanStatuses == {"needs_input", "needs_approval", "ready", "executing",
                 "completed", "failed"}
Plans == [status : PlanStatuses, missing : BOOLEAN, proposed : SUBSET Resources,
          attach : BOOLEAN]
Outcomes == {"success", "failed"}
PCs == {"idle", "load", "resolve", "lock", "persist", "dispatch", "estimate", "done"}
Session(e) == IF e \in Tools THEN e ELSE PlanSession
Rows == {"own", "target"}
LockRow(e) == IF plan[e].attach THEN "target" ELSE "own"

TypeOK ==
    /\ row \in Plans
    /\ exists \in BOOLEAN
    /\ lock \in [Rows -> Executors \cup {PlanSession, None}]
    /\ pc \in [Executors -> PCs]
    /\ plan \in [Executors -> Plans]
    /\ approved \in [Executors -> SUBSET Resources]
    /\ locked \in [Executors -> BOOLEAN]
    /\ result \in [Executors -> {"none", "locked", "threw", "needs_approval",
                                 "building", "failed"}]
    /\ deploy \in [Executors -> {"none", "running", "ended"}]
    /\ listening \subseteq Executors
    /\ inbox \in [Executors -> SUBSET Outcomes]
    /\ update \in Plans \cup {<<>>}
    /\ budget \in [update : 0..MaxUpdates, foreign : 0..MaxForeign]
    /\ took \subseteq Executors /\ disturbed \subseteq Executors

(* computePlanStatus.                                                      *)
ComputePlanStatus(missing, proposed) ==
    CASE missing -> "needs_input"
      [] ~missing /\ proposed # {} -> "needs_approval"
      [] OTHER -> "ready"

PlanOf(missing, proposed, attach) ==
    [status |-> ComputePlanStatus(missing, proposed), missing |-> missing,
     proposed |-> proposed, attach |-> attach]

Init ==
    /\ row \in {PlanOf(m, p, a) : m \in BOOLEAN, p \in SUBSET Resources, a \in Attaching}
    /\ exists \in Existing
    /\ lock = [r \in Rows |-> None]
    /\ pc = [e \in Executors |-> "idle"]
    /\ plan = [e \in Executors |-> row]
    /\ approved = [e \in Executors |-> {}]
    /\ locked = [e \in Executors |-> FALSE]
    /\ result = [e \in Executors |-> "none"]
    /\ deploy = [e \in Executors |-> "none"]
    /\ listening = {}
    /\ inbox = [e \in Executors |-> {}]
    /\ update = <<>>
    /\ budget = [update |-> MaxUpdates, foreign |-> MaxForeign]
    /\ took = {} /\ disturbed = {}

-----------------------------------------------------------------------------
Goto(e, l) == pc' = [pc EXCEPT ![e] = l]
Returns(e, r) == result' = [result EXCEPT ![e] = r] /\ Goto(e, "done")
Unlocked(r, session) == [lock EXCEPT ![r] = IF @ = session THEN None ELSE @]
Marked(p, s) == [p EXCEPT !.status = s]

(* The wrapper takes the lock with a session of its own, if there is a     *)
(* project of that name; without the wrapper the execution begins.         *)
Request(e) ==
    /\ pc[e] = "idle"
    /\ IF e \in Tools /\ exists
       THEN IF lock["own"] = None
            THEN /\ lock' = [lock EXCEPT !["own"] = e]
                 /\ Goto(e, "load")
                 /\ UNCHANGED result
            ELSE Returns(e, "locked") /\ UNCHANGED lock
       ELSE Goto(e, "load") /\ UNCHANGED <<lock, result>>
    /\ UNCHANGED <<row, exists, plan, approved, locked, deploy, listening, inbox,
                   update, budget, history>>

(* loadPlanForExecution and the guards that follow it without an await:    *)
(* a plan that is not executable throws, ...                               *)
LoadThrows(e) ==
    /\ pc[e] = "load" /\ row.status \notin {"ready", "needs_approval"}
    /\ Returns(e, "threw")
    /\ UNCHANGED <<row, exists, lock, plan, approved, locked, deploy, listening,
                   inbox, update, budget, history>>

(* ... one that lacks an approval returns, and the wrapper frees the lock, *)
LoadNeedsApproval(e) ==
    /\ pc[e] = "load" /\ row.status = "needs_approval" /\ e \notin Approvers
    /\ Returns(e, "needs_approval")
    /\ lock' = IF e \in Tools THEN Unlocked("own", e) ELSE lock
    /\ UNCHANGED <<row, exists, plan, approved, locked, deploy, listening, inbox,
                   update, budget, history>>

(* ... and the others go on.                                               *)
Load(e) ==
    /\ pc[e] = "load"
    /\ \/ row.status = "ready"
       \/ row.status = "needs_approval" /\ e \in Approvers
    /\ plan' = [plan EXCEPT ![e] = Marked(row, "ready")]
    /\ approved' = [approved EXCEPT ![e] = row.proposed]
    /\ Goto(e, "resolve")
    /\ UNCHANGED <<row, exists, lock, locked, result, deploy, listening, inbox,
                   update, budget, history>>

(* resolveExecuteTarget: the name of the service is taken in the target    *)
(* project, or the name of the plan is that of a project.                  *)
TargetConflict(e) ==
    /\ pc[e] = "resolve" /\ plan[e].attach
    /\ Returns(e, "failed")
    /\ UNCHANGED <<row, exists, lock, plan, approved, locked, deploy, listening,
                   inbox, update, budget, history>>

(* Otherwise there is a project to lock, created now if resources will be  *)
(* provisioned for it, or none, and nothing is locked.                     *)
Resolve(e) ==
    /\ pc[e] = "resolve" /\ ~(plan[e].attach /\ exists)
    /\ exists' = (exists \/ (~plan[e].attach /\ approved[e] # {}))
    /\ Goto(e, IF plan[e].attach \/ exists' THEN "lock" ELSE "persist")
    /\ UNCHANGED <<row, lock, plan, approved, locked, result, deploy, listening,
                   inbox, update, budget, history>>

(* Mutant: the answer of acquireDeployLock is not looked at.               *)
AcquireUnchecked(e) ==
    /\ pc[e] = "lock"
    /\ lock' = [lock EXCEPT ![LockRow(e)] = IF @ = None THEN Session(e) ELSE @]
    /\ locked' = [locked EXCEPT ![e] = TRUE]
    /\ took' = took \cup {e}
    /\ Goto(e, "persist")
    /\ UNCHANGED <<row, exists, plan, approved, result, deploy, listening, inbox,
                   update, budget, disturbed>>

(* acquirePlanDeployLock; the lock is re-entrant for one session.          *)
AcquireLock(e) ==
    /\ pc[e] = "lock" /\ lock[LockRow(e)] \in {None, Session(e)}
    /\ lock' = [lock EXCEPT ![LockRow(e)] = Session(e)]
    /\ locked' = [locked EXCEPT ![e] = TRUE]
    /\ took' = took \cup {e}
    /\ Goto(e, "persist")
    /\ UNCHANGED <<row, exists, plan, approved, result, deploy, listening, inbox,
                   update, budget, disturbed>>

LockRefused(e) ==
    /\ pc[e] = "lock" /\ lock[LockRow(e)] \notin {None, Session(e)}
    /\ Returns(e, "locked")
    /\ UNCHANGED <<row, exists, lock, plan, approved, locked, deploy, listening,
                   inbox, update, budget, history>>

(* persistExecutingPlan writes the plan that was loaded before the lock.   *)
Persist(e) ==
    /\ pc[e] = "persist"
    /\ plan' = [plan EXCEPT ![e].status = "executing"]
    /\ row' = plan'[e]
    /\ Goto(e, "dispatch")
    /\ UNCHANGED <<exists, lock, approved, locked, result, deploy, listening, inbox,
                   update, budget, history>>

(* Environment and resources, startDeploy, and the listeners, which are    *)
(* registered before the deploy in the background can publish anything.    *)
Dispatch(e) ==
    /\ pc[e] = "dispatch"
    /\ exists' = TRUE
    /\ deploy' = [deploy EXCEPT ![e] = "running"]
    /\ listening' = listening \cup {e}
    /\ Goto(e, "estimate")
    /\ UNCHANGED <<row, lock, plan, approved, locked, result, inbox, update, budget,
                   history>>

(* estimatePlanDurationSeconds asks the database before the call returns.  *)
Estimated(e) ==
    /\ pc[e] = "estimate"
    /\ Returns(e, "building")
    /\ UNCHANGED <<row, exists, lock, plan, approved, locked, deploy, listening,
                   inbox, update, budget, history>>

FreeEngineLock(e) ==
    /\ lock' = IF locked[e] THEN Unlocked(LockRow(e), Session(e)) ELSE lock
    /\ locked' = [locked EXCEPT ![e] = FALSE]

(* Mutant: an exception keeps the lock.                                    *)
DispatchThrowsLocked(e) ==
    /\ pc[e] = "dispatch"
    /\ row' = Marked(plan[e], "failed")
    /\ Returns(e, "failed")
    /\ UNCHANGED <<exists, lock, plan, approved, locked, deploy, listening, inbox,
                   update, budget, history>>

(* Anything after the commit point throws: the lock is released and the    *)
(* plan fails, ...                                                         *)
DispatchThrows(e) ==
    /\ pc[e] = "dispatch"
    /\ FreeEngineLock(e)
    /\ row' = Marked(plan[e], "failed")
    /\ Returns(e, "failed")
    /\ UNCHANGED <<exists, plan, approved, deploy, listening, inbox, update, budget, history>>

(* ... also when it is the estimate that fails and the deploy runs on.     *)
EstimateThrows(e) ==
    /\ pc[e] = "estimate"
    /\ FreeEngineLock(e)
    /\ row' = Marked(plan[e], "failed")
    /\ Returns(e, "failed")
    /\ disturbed' = IF deploy[e] = "running" THEN disturbed \cup {e} ELSE disturbed
    /\ UNCHANGED <<exists, plan, approved, deploy, listening, inbox, update, budget, took>>

(* startDeploy reports preflight_failed, after which the listeners stay.   *)
PreflightFails(e) ==
    /\ pc[e] = "dispatch"
    /\ listening' = listening \cup {e}
    /\ FreeEngineLock(e)
    /\ row' = Marked(plan[e], "failed")
    /\ Returns(e, "failed")
    /\ UNCHANGED <<exists, plan, approved, deploy, inbox, update, budget, history>>

-----------------------------------------------------------------------------
(* Listeners match the project only, so every one of them hears of every   *)
(* deploy of the project that ends.                                        *)
Deliver(outcome) ==
    inbox' = [e \in Executors |-> IF e \in listening THEN inbox[e] \cup {outcome}
                                                     ELSE inbox[e]]

(* For the history: somebody other than the execution that owns the deploy *)
(* hears of its end.                                                       *)
Disturbs(others) ==
    disturbed' = disturbed \cup {e \in others \cap listening : deploy[e] = "running"}

(* Mutant: a deploy that fails early publishes nothing.                    *)
DeployEndsSilently(e, outcome) ==
    /\ deploy[e] = "running"
    /\ deploy' = [deploy EXCEPT ![e] = "ended"]
    /\ IF outcome = "failed" THEN UNCHANGED <<inbox, disturbed>>
       ELSE Deliver(outcome) /\ Disturbs(Executors \ {e})
    /\ lock' = IF locked[e] THEN Unlocked("own", Session(e)) ELSE lock
    /\ UNCHANGED <<row, exists, pc, plan, approved, locked, result, listening,
                   update, budget, took>>

(* The deploy of an execution ends; the listener of routes.ts releases the *)
(* lock of its session on the project it deployed.                         *)
DeployEnds(e, outcome) ==
    /\ deploy[e] = "running"
    /\ deploy' = [deploy EXCEPT ![e] = "ended"]
    /\ Deliver(outcome) /\ Disturbs(Executors \ {e})
    /\ lock' = IF locked[e] THEN Unlocked("own", Session(e)) ELSE lock
    /\ UNCHANGED <<row, exists, pc, plan, approved, locked, result, listening,
                   update, budget, took>>

ForeignEnds(outcome) ==
    /\ budget.foreign > 0 /\ exists /\ listening # {}
    /\ budget' = [budget EXCEPT !.foreign = @ - 1]
    /\ Deliver(outcome) /\ Disturbs(Executors)
    /\ UNCHANGED <<row, exists, lock, pc, plan, approved, locked, result, deploy,
                   listening, update, took>>

(* finishSuccess and finishFailure.  The move of the service to the target *)
(* project may fail after a deploy that succeeded.                         *)
Finish(e, outcome) ==
    /\ outcome \in inbox[e]
    /\ inbox' = [inbox EXCEPT ![e] = @ \ {outcome}]
    /\ row' \in {Marked(plan[e], s) :
                   s \in IF outcome = "failed" THEN {"failed"}
                         ELSE IF plan[e].attach THEN {"completed", "failed"} ELSE {"completed"}}
    /\ FreeEngineLock(e)
    /\ listening' = listening \ {e}
    /\ UNCHANGED <<exists, pc, plan, approved, result, deploy, update, budget, history>>

-----------------------------------------------------------------------------
(* updatePlan reads the plan, may clone the repository again, and writes   *)
(* the plan it read with the changes.                                      *)
UpdateRead ==
    /\ update = <<>> /\ budget.update > 0
    /\ row.status \notin {"executing", "completed", "failed"}
    /\ update' = row
    /\ budget' = [budget EXCEPT !.update = @ - 1]
    /\ UNCHANGED <<row, exists, lock, pc, plan, approved, locked, result, deploy,
                   listening, inbox, history>>

(* Mutant: only the changed columns are written, the status stays.         *)
UpdateColumns ==
    /\ update # <<>>
    /\ row' \in {[row EXCEPT !.proposed = p] : p \in SUBSET Resources}
    /\ update' = <<>>
    /\ UNCHANGED <<exists, lock, pc, plan, approved, locked, result, deploy,
                   listening, inbox, budget, history>>

UpdateWrite ==
    /\ update # <<>>
    /\ row' \in {PlanOf(m, p, update.attach) : m \in BOOLEAN, p \in SUBSET Resources}
    /\ update' = <<>>
    /\ UNCHANGED <<exists, lock, pc, plan, approved, locked, result, deploy,
                   listening, inbox, budget, history>>

(* A compose file that cannot be read, or conflicting arguments.           *)
UpdateThrows ==
    /\ update # <<>>
    /\ update' = <<>>
    /\ UNCHANGED <<row, exists, lock, pc, plan, approved, locked, result, deploy,
                   listening, inbox, budget, history>>

-----------------------------------------------------------------------------
ExecuteStep(e) ==
    \/ Request(e) \/ LoadThrows(e) \/ LoadNeedsApproval(e) \/ Load(e)
    \/ TargetConflict(e) \/ Resolve(e) \/ AcquireLock(e) \/ LockRefused(e) \/ Persist(e)
    \/ Dispatch(e) \/ DispatchThrows(e) \/ PreflightFails(e)
    \/ Estimated(e) \/ EstimateThrows(e)

Next ==
    \/ \E e \in Executors :
          \/ ExecuteStep(e)
          \/ \E o \in Outcomes : DeployEnds(e, o) \/ Finish(e, o)
    \/ \E o \in Outcomes : ForeignEnds(o)
    \/ UpdateRead \/ UpdateWrite \/ UpdateThrows

Spec == Init /\ [][Next]_vars

(* A call makes progress, a deploy ends (DeployPipeline), and the handlers *)
(* of published events run.  Nobody has to update the plan.                *)
Fairness ==
    /\ \A e \in Executors : WF_vars(ExecuteStep(e))
    /\ WF_vars(\E e \in Executors, o \in Outcomes : DeployEnds(e, o))
    /\ WF_vars(\E e \in Executors, o \in Outcomes : Finish(e, o))

FairSpec == Spec /\ Fairness

-----------------------------------------------------------------------------
(* Properties.                                                             *)

(* A row that says executing, completed or failed holds the very plan that *)
(* some execution carried out, not a mixture with what updatePlan wrote    *)
(* meanwhile.                                                              *)
ExecutedPlanIsRecorded ==
    row.status \in {"executing", "completed", "failed"}
        => \E e \in Executors :
              /\ pc[e] \in {"dispatch", "estimate", "done"} /\ plan[e].status = "executing"
              /\ row = Marked(plan[e], row.status)

(* An execution that got past the commit point frees the lock when it is   *)
(* over, on every path: success, failure, preflight and exceptions.        *)
CommittedFreesLock ==
    \A e \in Executors :
        /\ pc[e] = "done" /\ plan[e].status = "executing"
        /\ deploy[e] # "running" /\ (deploy[e] = "ended" => e \notin listening)
        => locked[e] = FALSE /\ (e \in Tools => \A r \in Rows : lock[r] # e)

(* An execution past the commit point whose deploy has not ended.          *)
Carries(e) == pc[e] \in {"persist", "dispatch"} \/ deploy[e] = "running"

(* A plan does not stay executing, where it can be neither executed nor    *)
(* updated: its deploy ends with an event that one of the listeners takes, *)
(* although updates, other executions and other deploys of the project     *)
(* write the row and use up listeners too.                                 *)
ExecutingEnds == []<>(row.status # "executing")

(* A session that no other execution uses: that of the tool always, that   *)
(* of the plan as long as one direct call uses it.                         *)
OwnSession(e) == \A f \in Executors \ {e} : Session(f) # Session(e)

(* Two executions that took the plan's lock under sessions of their own do *)
(* not carry the plan out at the same time, although both may have loaded  *)
(* it as ready before either had the lock, and the tool, the engine, the   *)
(* listeners and the end of the deploy all release it.  There are two ways *)
(* to lose the lock with the deploy still running, and they are named: the *)
(* listeners match the project only, so that the end of another deploy     *)
(* makes them finish the plan and free its lock, and so does a call that   *)
(* fails after the dispatch.  After either, a second execution can have    *)
(* the lock and carry the plan out as well.                                *)
ExclusiveExecution ==
    \A e, f \in took \ disturbed :
        /\ e # f /\ OwnSession(e) /\ OwnSession(f)
        => ~(Carries(e) /\ Carries(f))
=============================================================================
