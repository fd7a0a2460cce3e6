------------------------------ MODULE Compose ------------------------------
(***************************************************************************)
(* Successive deploys of one Compose stack, from src/src/pipeline/compose  *)
(* (deployComposeViaDockerode, the swap of stateful containers and         *)
(* stopCompose), the deployment sets of compose-deployment-sets.ts and the *)
(* ordered execution with rollback of src/src/pipeline/orchestrator.ts.    *)
(*                                                                         *)
(* A deploy runs the services of one group of the dependency order at the  *)
(* same time (Promise.all) and the groups one after the other.  When a     *)
(* service fails, the services that became healthy are rolled back in      *)
(* reverse order.  When a callback throws instead, Promise.all rejects at  *)
(* once and the outer catch block cleans up while the other services of    *)
(* the group still go on.                                                  *)
(*                                                                         *)
(* Container k of a service is the one that operation k creates.  At most  *)
(* one container has the service's name; an approved swap renames the old  *)
(* one, stops it and takes it off its networks.                            *)
(***************************************************************************)
EXTENDS Naturals, ProjectStatus

CONSTANTS
  Services,    \* the services of the stack
  Deps,        \* depends_on of each service
  Hooks,       \* those with condition service_completed_successfully
  Resources,   \* services whose name or image is that of a database
  Files,       \* the sets of active services a Compose file may define
  MaxOps,      \* bound: deploys and stops
  MaxFaults,   \* bound: failing undo steps and crashes
  None

ASSUME ComposeAssumption ==
  /\ Deps \in [Services -> SUBSET Services]
  /\ Hooks \in [Services -> SUBSET Services] /\ \A s \in Services : Hooks[s] \subseteq Deps[s]
  /\ Resources \subseteq Services /\ Files \subseteq SUBSET Services
  /\ MaxOps \in Nat /\ MaxFaults \in Nat /\ None \notin Nat

VARIABLES
  row,      \* status and container_id of each child row
  parent,   \* status of the parent row
  dock,     \* of each service its containers, and which one has its name
  gen,      \* number of the current or last operation
  phase,    \* where deployComposeViaDockerode is
  req,      \* the deployment sets of that deploy
  before,   \* existingByName: the child rows as the deploy found them
  served,   \* history: the services that were up when the deploy began
  pc,       \* where deployService and waitForHealthy are for each service
  res,      \* what the orchestrator knows of the service
  notes,    \* the Sets and Maps of the deploy that contain the service
  outcome,  \* what the deploy returned
  faults,
  torn      \* history: swapped services abandoned halfway and not deployed since

local == <<req, before, served>>
vars == <<row, parent, dock, gen, phase, local, pc, res, notes, outcome, faults, torn>>

Gens == 0..MaxOps
NoReq == [active |-> {}, replace |-> {}, prereq |-> {}, hooks |-> {}, approved |-> {}]
NoRows == [s \in Services |-> [st |-> "absent", cid |-> None]]
Phases == {"idle", "orphans", "images", "clean", "group", "rollback", "reconcile",
           "catch", "restore", "rows", "done"}
Notes == {"deployment", "created", "reused", "swap", "restored", "completed", "jobFailure"}

-----------------------------------------------------------------------------
(* Docker.                                                                 *)

Removed(d, k) ==
  [d EXCEPT !.box[k] = "none", !.named = IF @ = k THEN None ELSE @]

(* Container k is started or stopped, or created under the name; or the    *)
(* name is given to n.                                                     *)
Turned(d, k, st) == [d EXCEPT !.box[k] = st]
Created(d, k, st) == [d EXCEPT !.box[k] = st, !.named = k]
Renamed(d, n) == [d EXCEPT !.named = n]

(* cleanupComposeContainer of the service's name.                          *)
Cleaned(d) == IF d.named = None THEN d ELSE Removed(d, d.named)

(* prepareApprovedStatefulSwap when all its steps succeed.                 *)
SetAside(d, k) ==
  [d EXCEPT !.box[k] = "down", !.named = IF @ = k THEN None ELSE @]

(* Mutant: the container under the name is removed without looking at      *)
(* its id.                                                                 *)
RoomForAny(d, old) == Cleaned(d)

(* restorePreservedStatefulContainer makes room for the old container.     *)
RoomFor(d, old) == IF d.named = old THEN d ELSE Cleaned(d)

PutBack(d, old) == Created(RoomFor(d, old), old, "up")

-----------------------------------------------------------------------------
(* The sets of services.                                                   *)

(* inferComposeRuntimeRoles.                                               *)
Jobs(active) == {j \in active : \E s \in active : j \in Hooks[s]}
Applications(active) == active \ (Jobs(active) \cup Resources)

(* visitPrerequisite: a target and a set of reused services stop it, and   *)
(* so does the hook of a service that is only reused.                      *)
Visited(seeds, stop) ==
  {s \in Services \ stop :
     \A P \in SUBSET Services :
       /\ seeds \ stop \subseteq P
       /\ \A p \in P : (Deps[p] \ Hooks[p]) \ stop \subseteq P
       => s \in P}

(* planComposeDeploymentSets.                                              *)
DeploymentSets(active, selected, changed, approved, existing) ==
  LET apps      == Applications(active)
      targets   == IF selected # {} THEN selected \cap apps
                   ELSE {s \in apps : s \notin existing \/ s \in changed}
      replace   == targets \cup approved
      unchanged == IF selected # {} THEN {} ELSE apps \ replace
      hooks     == UNION {Hooks[s] : s \in replace}
      seeds     == UNION ({Deps[s] \ Hooks[s] : s \in replace} \cup {Deps[h] : h \in hooks})
      rest      == IF selected # {} THEN {} ELSE (Resources \cap active) \ replace
      first     == IF selected = {} /\ existing = {} THEN Jobs(active) ELSE {}
      jobs      == (hooks \cup first) \cap active
  IN  [active   |-> active,
       replace  |-> replace,
       prereq   |-> ((unchanged \cup rest
                       \cup Visited(seeds, replace \cup unchanged)) \cap active) \ (replace \cup jobs),
       hooks    |-> jobs,
       approved |-> approved]

Has(s, n) == n \in notes[s]
Included == req.replace \cup req.prereq \cup req.hooks
Depends(s) == Deps[s] \cap Included

(* The branch of deployService, and of the two loops before it, for a      *)
(* dependency that has a container already.                                *)
Reuses(s) == s \in req.prereq /\ before[s].cid # None

(* The next layer of buildTopology's order.                                *)
NextGroup == {s \in Included : pc[s] = "wait" /\ \A d \in Depends(s) : pc[d] # "wait"}
Attempted == {s \in Included : pc[s] # "wait"}

(* Mutant: a job that exits with an error does not count.                  *)
FailedServices == {s \in Included : res[s] = "failed" /\ ~Has(s, "jobFailure")}

Failed == {s \in Included : res[s] = "failed"}
Ended(S) == \A s \in S : pc[s] = "end"

Old(s) == before[s].cid
New(s) == gen
Current(s) == IF Has(s, "reused") THEN Old(s) ELSE gen
Role(s) == IF s \in Jobs(req.active) THEN "job" ELSE "service"

Quiet == phase \in {"idle", "done"} /\ \A s \in Services : pc[s] \in {"wait", "end"}

-----------------------------------------------------------------------------
(* Nothing of a deploy is in memory.                                       *)
Forget ==
  /\ phase' = "idle" /\ outcome' = "none"
  /\ req' = NoReq /\ before' = NoRows /\ served' = {}
  /\ pc' = [s \in Services |-> "wait"]
  /\ res' = [s \in Services |-> "none"]
  /\ notes' = [s \in Services |-> {}]

(* There is no stack yet, or one that a deploy (number 0) has brought up.  *)
Init ==
  \E present \in {{}, Services} :
    /\ row = [s \in Services |->
                IF s \notin present THEN [st |-> "absent", cid |-> None]
                ELSE [st |-> IF s \in Jobs(present) THEN "stopped" ELSE "running", cid |-> 0]]
    /\ dock = [s \in Services |->
                 [box |-> [k \in Gens |-> IF s \notin present \/ k # 0 THEN "none"
                                         ELSE IF s \in Jobs(present) THEN "down" ELSE "up"],
                  named |-> IF s \in present THEN 0 ELSE None]]
    /\ parent = IF present = {} THEN "none" ELSE "running"
    /\ gen = 0 /\ phase = "idle"
    /\ req = NoReq /\ before = NoRows /\ served = {}
    /\ pc = [s \in Services |-> "wait"]
    /\ res = [s \in Services |-> "none"]
    /\ notes = [s \in Services |-> {}]
    /\ outcome = "none"
    /\ faults = 0 /\ torn = {}

Existing == {s \in Services : row[s].st # "absent"}

(* The container that the row names runs under the name of the service.    *)
Serves(s) ==
  /\ row[s].st = "running" /\ row[s].cid # None
  /\ dock[s].box[row[s].cid] = "up" /\ dock[s].named = row[s].cid

(* assertComposeStatefulChangesSafe: a resource with a row stays in the    *)
(* file.                                                                   *)
StatefulChangesSafe(active) == Existing \cap Resources \subseteq active

(* An approval is stale unless it names the container of the row.          *)
ApprovalFresh(approved) == \A s \in approved : row[s].cid # None

(* A deploy is admitted: the rows of what it will replace or run are put   *)
(* in building.                                                            *)
Begin(active, selected, changed, approved) ==
  /\ Quiet /\ gen < MaxOps
  /\ ApprovalFresh(approved) /\ StatefulChangesSafe(active)
  /\ gen' = gen + 1
  /\ req' = DeploymentSets(active, selected, changed, approved, Existing)
  /\ before' = row /\ served' = {s \in Services : Serves(s)}
  /\ parent' = "building"
  /\ row' = [s \in Services |->
               IF \/ s \in req'.replace \cup req'.hooks
                  \/ s \in req'.prereq /\ row[s].cid = None
               THEN [row[s] EXCEPT !.st = "building"] ELSE row[s]]
  /\ phase' = IF selected = {} THEN "orphans" ELSE "images"
  /\ pc' = [s \in Services |-> "wait"]
  /\ res' = [s \in Services |-> "none"]
  /\ notes' = [s \in Services |-> {}]
  /\ outcome' = "none"
  /\ UNCHANGED <<dock, faults, torn>>

Orphans == {s \in Services : before[s].st # "absent"} \ req.active

(* Children that the file no longer defines lose their container and row.  *)
RemoveOrphans(S) ==
  /\ dock' = [s \in Services |-> IF s \in S /\ before[s].cid # None
                                 THEN Removed(dock[s], before[s].cid) ELSE dock[s]]
  /\ row' = [s \in Services |-> IF s \in S THEN NoRows[s] ELSE row[s]]

CleanOrphans ==
  /\ phase = "orphans"
  /\ phase' = "images"
  /\ RemoveOrphans(Orphans)
  /\ UNCHANGED <<parent, gen, local, pc, res, notes, outcome, faults, torn>>

(* Docker refuses to stop one of them: nothing catches it, and the deploy  *)
(* throws with its rows in building.                                       *)
OrphansThrow ==
  /\ phase = "orphans"
  /\ \E s \in Orphans : before[s].cid # None /\ \E S \in SUBSET (Orphans \ {s}) : RemoveOrphans(S)
  /\ outcome' = "threw" /\ phase' = "done"
  /\ UNCHANGED <<parent, gen, local, pc, res, notes, faults, torn>>

(* The images of everything to be replaced come before anything stops.     *)
PrepareImages ==
  /\ phase = "images"
  /\ \/ phase' = "clean" /\ Included # {}
     \/ phase' = "catch"
  /\ UNCHANGED <<row, parent, dock, gen, local, pc, res, notes, outcome, faults, torn>>

(* pre-compose-service-start: leftovers under the names of services that   *)
(* are neither reused nor replaced.                                        *)
PreClean ==
  /\ phase = "clean"
  /\ phase' = "group"
  /\ dock' = [s \in Services |-> IF s \in Included \ req.replace /\ ~Reuses(s)
                                 THEN Cleaned(dock[s]) ELSE dock[s]]
  /\ UNCHANGED <<row, parent, gen, local, pc, res, notes, outcome, faults, torn>>

-----------------------------------------------------------------------------
(* executeOrdered.                                                         *)

StartGroup ==
  /\ phase = "group" /\ Ended(Attempted) /\ Failed = {} /\ NextGroup # {}
  /\ pc' = [s \in Services |->
              IF s \notin NextGroup THEN pc[s]
              ELSE IF Reuses(s) THEN "reuse"
              ELSE IF s \in req.replace THEN "take" ELSE "build"]
  /\ UNCHANGED <<row, parent, dock, gen, phase, local, res, notes, outcome, faults, torn>>

(* Mutant: the failure of a group is noticed only when every service has   *)
(* been tried.                                                             *)
GroupFailedLate ==
  /\ phase = "group" /\ Ended(Included) /\ Failed # {}
  /\ phase' = "rollback"
  /\ UNCHANGED <<row, parent, dock, gen, local, pc, res, notes, outcome, faults, torn>>

GroupFailed ==
  /\ phase = "group" /\ Ended(Attempted) /\ Failed # {}
  /\ phase' = "rollback"
  /\ UNCHANGED <<row, parent, dock, gen, local, pc, res, notes, outcome, faults, torn>>

GroupsDone ==
  /\ phase = "group" /\ Ended(Included) /\ Failed = {}
  /\ phase' = "reconcile"
  /\ UNCHANGED <<row, parent, dock, gen, local, pc, res, notes, outcome, faults, torn>>

(* The service's callback returns.                                         *)
Return(s, r) == pc' = [pc EXCEPT ![s] = "end"] /\ res' = [res EXCEPT ![s] = r]
Goto(s, l) == pc' = [pc EXCEPT ![s] = l] /\ UNCHANGED res
Note(s, N) == notes' = [notes EXCEPT ![s] = @ \cup N]

(* A dependency with a container is inspected and started; one whose       *)
(* container is gone is created like any other.                            *)
Reuse(s) ==
  /\ pc[s] = "reuse"
  /\ \/ /\ dock[s].box[Old(s)] # "none"
        /\ dock' = [dock EXCEPT ![s] = Turned(@, Old(s), "up")]
        /\ Goto(s, "health") /\ Note(s, {"deployment", "reused"})
        /\ row' = [row EXCEPT ![s].st = "running"]
     \/ dock[s].box[Old(s)] = "none" /\ Goto(s, "build") /\ UNCHANGED <<row, dock, notes>>
     \/ Return(s, "failed") /\ UNCHANGED <<row, dock, notes>>
  /\ UNCHANGED <<parent, gen, phase, local, outcome, faults, torn>>

Build(s) ==
  /\ pc[s] = "build"
  /\ \/ Goto(s, "take")
     \/ Goto(s, "undo")
  /\ UNCHANGED <<row, parent, dock, gen, phase, local, notes, outcome, faults, torn>>

(* The old container makes room: it is removed, or set aside when the      *)
(* replacement of a stateful service was approved.                         *)
Take(s) ==
  /\ pc[s] = "take"
  /\ IF s \in req.approved
     THEN /\ dock[s].box[Old(s)] # "none"
          /\ dock' = [dock EXCEPT ![s] = SetAside(@, Old(s))] /\ Note(s, {"swap"})
     ELSE dock' = [dock EXCEPT ![s] = Cleaned(@)] /\ UNCHANGED notes
  /\ Goto(s, "run")
  /\ UNCHANGED <<row, parent, gen, phase, local, outcome, faults, torn>>

(* A swap that cannot be prepared puts the container back itself; what it  *)
(* cannot put back is left stopped, under either name.                     *)
SwapFails(s) ==
  /\ pc[s] = "take" /\ s \in req.approved
  /\ \/ UNCHANGED <<dock, faults, torn>>
     \/ /\ dock[s].box[Old(s)] # "none"
        /\ dock' = [dock EXCEPT ![s] = Turned(@, Old(s), "up")]
        /\ UNCHANGED <<faults, torn>>
     \/ /\ dock[s].box[Old(s)] # "none"
        /\ faults < MaxFaults /\ faults' = faults + 1 /\ torn' = torn \cup {s}
        /\ \/ dock' = [dock EXCEPT ![s] = SetAside(@, Old(s))]
           \/ dock' = [dock EXCEPT ![s] = Turned(@, Old(s), "down")]
  /\ Goto(s, "undo")
  /\ UNCHANGED <<row, parent, gen, phase, local, notes, outcome>>

(* runComposeService; when the start fails the container it created may be *)
(* left under the name.                                                    *)
Run(s) ==
  /\ pc[s] = "run"
  /\ \/ /\ dock[s].named = None
        /\ dock' = [dock EXCEPT ![s] = Created(@, New(s), "up")]
        /\ Goto(s, "record")
     \/ /\ dock[s].named = None
        /\ dock' = [dock EXCEPT ![s] = Created(@, New(s), "down")]
        /\ Goto(s, "undo")
     \/ UNCHANGED dock /\ Goto(s, "undo")
  /\ UNCHANGED <<row, parent, gen, phase, local, notes, outcome, faults, torn>>

Record(s) ==
  /\ pc[s] = "record"
  /\ Note(s, {"deployment", "created"})
  /\ row' = [row EXCEPT ![s] = [st |-> "running", cid |-> New(s)]]
  /\ Goto(s, "health")
  /\ torn' = torn \ {s}
  /\ UNCHANGED <<parent, dock, gen, phase, local, outcome, faults>>

(* waitForHealthy of the callback: a service has to stay up, a job to exit *)
(* with 0.                                                                 *)
Health(s) ==
  /\ pc[s] = "health"
  /\ \/ /\ Role(s) = "service" /\ dock[s].box[Current(s)] = "up"
        /\ Return(s, "deployed") /\ UNCHANGED <<dock, notes>>
     \/ /\ Role(s) = "job" /\ dock[s].box[Current(s)] # "none"
        /\ dock' = [dock EXCEPT ![s] = Turned(@, Current(s), "down")]
        /\ Return(s, "deployed") /\ Note(s, {"completed"})
     \/ /\ Return(s, "failed")
        /\ IF Role(s) = "job" THEN Note(s, {"jobFailure"}) ELSE UNCHANGED notes
        /\ \/ UNCHANGED dock
           \/ /\ ~Has(s, "reused") /\ dock[s].box[Current(s)] # "none"
              /\ dock' = [dock EXCEPT ![s] = Turned(@, Current(s), "down")]
  /\ UNCHANGED <<row, parent, gen, phase, local, outcome, faults, torn>>

(* The catch block of deployService: whatever has the service's name is    *)
(* removed, and a container that was set aside comes back.                 *)
Undo(s) ==
  /\ pc[s] = "undo"
  /\ IF Has(s, "swap")
     THEN /\ dock' = [dock EXCEPT ![s] = PutBack(Cleaned(@), Old(s))]
          /\ row' = [row EXCEPT ![s] = [st |-> "running", cid |-> Old(s)]]
          /\ notes' = [notes EXCEPT ![s] = (@ \ {"swap"}) \cup {"restored"}]
     ELSE /\ dock' = [dock EXCEPT ![s] = Cleaned(@)]
          /\ row' = [row EXCEPT ![s].st = "error"]
          /\ UNCHANGED notes
  /\ Return(s, "failed")
  /\ UNCHANGED <<parent, gen, phase, local, outcome, faults, torn>>

(* The same when the container cannot be put back: the callback throws,    *)
(* Promise.all rejects, and the deploy goes to its outer catch block.      *)
UndoThrows(s) ==
  /\ pc[s] = "undo" /\ Has(s, "swap")
  /\ faults < MaxFaults /\ faults' = faults + 1 /\ torn' = torn \cup {s}
  /\ \E n \in {None, Old(s)} :
       dock' = [dock EXCEPT ![s] = Renamed(Cleaned(@), n)]
  /\ Return(s, "failed")
  /\ phase' = IF phase = "group" THEN "catch" ELSE phase
  /\ UNCHANGED <<row, parent, gen, local, notes, outcome>>

-----------------------------------------------------------------------------
(* Rollback of the services that became healthy, last group first.         *)

Executed == {s \in Included : res[s] = "deployed"}

(* Mutant: in the order in which they were deployed.                       *)
InOrder == {s \in Executed : \A t \in Executed : t \notin Depends(s)}

LastExecuted == {s \in Executed : \A t \in Executed : s \notin Depends(t)}

(* Mutant: what was only reused is rolled back too.                        *)
RollbackAll(s) ==
  /\ dock' = [dock EXCEPT ![s] = Removed(@, Current(s))]
  /\ row' = [row EXCEPT ![s] = [st |-> "error", cid |-> None]]
  /\ notes' = [notes EXCEPT ![s] = @ \ {"deployment"}]

(* rollbackService.                                                        *)
RollbackService(s) ==
  CASE Has(s, "reused") -> UNCHANGED <<dock, row, notes>>
    [] ~Has(s, "reused") /\ Has(s, "swap") ->
         /\ dock' = [dock EXCEPT ![s] = PutBack(Removed(@, New(s)), Old(s))]
         /\ row' = [row EXCEPT ![s] = [st |-> "running", cid |-> Old(s)]]
         /\ notes' = [notes EXCEPT ![s] = (@ \ {"swap", "deployment"}) \cup {"restored"}]
    [] OTHER ->
         /\ dock' = [dock EXCEPT ![s] = Removed(@, New(s))]
         /\ row' = [row EXCEPT ![s] = [st |-> "error", cid |-> None]]
         /\ notes' = [notes EXCEPT ![s] = @ \ {"deployment"}]

Rollback(s) ==
  /\ phase = "rollback" /\ s \in LastExecuted
  /\ RollbackService(s)
  /\ res' = [res EXCEPT ![s] = "rolled_back"]
  /\ UNCHANGED <<parent, gen, phase, local, pc, outcome, faults, torn>>

(* rollbackService throws: the container does not stop, or is removed and  *)
(* the one that was set aside does not come back.                          *)
RollbackThrows(s) ==
  /\ phase = "rollback" /\ s \in LastExecuted /\ ~Has(s, "reused")
  /\ faults < MaxFaults /\ faults' = faults + 1
  /\ \/ UNCHANGED <<dock, torn>>
     \/ /\ Has(s, "swap") /\ torn' = torn \cup {s}
        /\ \E n \in {None, Old(s)} :
             dock' = [dock EXCEPT ![s] = Renamed(Removed(@, New(s)), n)]
  /\ res' = [res EXCEPT ![s] = "rollback_failed"]
  /\ UNCHANGED <<row, parent, gen, phase, local, pc, notes, outcome>>

RolledBack ==
  /\ phase = "rollback" /\ Executed = {}
  /\ phase' = "reconcile"
  /\ UNCHANGED <<row, parent, dock, gen, local, pc, res, notes, outcome, faults, torn>>

-----------------------------------------------------------------------------
(* reconciledStatuses and the writes that follow.                          *)

Reported(s) ==
  CASE Has(s, "restored") -> [st |-> "running", cid |-> Old(s)]
    [] Has(s, "reused") -> row[s]
    [] before[s].cid # None /\ ~Has(s, "created") /\ ~Has(s, "reused")
         /\ ~Has(s, "restored") -> [st |-> "running", cid |-> Old(s)]
    [] OTHER ->
         LET known == Has(s, "deployment") IN
         CASE known /\ Has(s, "jobFailure") -> [st |-> "error", cid |-> New(s)]
           [] known /\ ~Has(s, "jobFailure") /\ res[s] = "deployed" ->
                [st |-> IF Has(s, "completed") THEN "stopped" ELSE "running", cid |-> New(s)]
           [] known /\ res[s] = "rollback_failed" -> [st |-> "running", cid |-> New(s)]
           [] res[s] = "none" -> [st |-> "stopped", cid |-> None]
           [] OTHER -> [st |-> "error", cid |-> None]

Reconcile ==
  /\ phase = "reconcile"
  /\ row' = [s \in Services |-> IF s \in Included THEN Reported(s) ELSE row[s]]
  /\ outcome' = IF Failed = {} THEN "success" ELSE "failed"
  /\ parent' = IF Failed = {} THEN "running" ELSE "error"
  /\ phase' = "done"
  /\ UNCHANGED <<dock, gen, local, pc, res, notes, faults, torn>>

(* The outer catch block: first the containers the deploy created ...      *)
CatchClean ==
  /\ phase = "catch"
  /\ dock' = [s \in Services |-> IF {"deployment", "created"} \subseteq notes[s]
                                 THEN Cleaned(Removed(dock[s], New(s))) ELSE dock[s]]
  /\ phase' = "restore"
  /\ UNCHANGED <<row, parent, gen, local, pc, res, notes, outcome, faults, torn>>

Swapped == {s \in Services : Has(s, "swap")}

(* ... then the ones it set aside ...                                      *)
CatchRestore(s) ==
  /\ phase = "restore" /\ Has(s, "swap") /\ dock[s].named # Old(s)
  /\ dock' = [dock EXCEPT ![s] = PutBack(@, Old(s))]
  /\ row' = [row EXCEPT ![s] = [st |-> "running", cid |-> Old(s)]]
  /\ notes' = [notes EXCEPT ![s] = (@ \ {"swap"}) \cup {"restored"}]
  /\ UNCHANGED <<parent, gen, phase, local, pc, res, outcome, faults, torn>>

(* ... which may fail again, and always does after a restore that failed   *)
(* when it had renamed the container: Docker refuses to give it the name   *)
(* it has.  Then the deploy throws and the rows stay in building ...       *)
CatchRestoreThrows(s) ==
  /\ phase = "restore" /\ Has(s, "swap")
  /\ dock' = [dock EXCEPT ![s] = RoomFor(@, Old(s))]
  /\ torn' = torn \cup {s}
  /\ outcome' = "threw" /\ phase' = "done"
  /\ UNCHANGED <<row, parent, gen, local, pc, res, notes, faults>>

CatchRestored ==
  /\ phase = "restore" /\ Swapped = {}
  /\ phase' = "rows"
  /\ UNCHANGED <<row, parent, dock, gen, local, pc, res, notes, outcome, faults, torn>>

(* ... then the rows.                                                      *)
CatchRows ==
  /\ phase = "rows"
  /\ row' = [s \in Services |->
               IF s \notin Included \/ Has(s, "reused") THEN row[s]
               ELSE IF Has(s, "restored") \/ (before[s].cid # None /\ ~Has(s, "created"))
                    THEN [st |-> "running", cid |-> Old(s)]
               ELSE [st |-> "error", cid |-> None]]
  /\ parent' = "error" /\ outcome' = "failed" /\ phase' = "done"
  /\ UNCHANGED <<dock, gen, local, pc, res, notes, faults, torn>>

-----------------------------------------------------------------------------
(* stopCompose, between deploys.                                           *)
StopCompose ==
  /\ Quiet /\ Existing # {}
  /\ gen < MaxOps /\ gen' = gen + 1
  /\ dock' = [s \in Services |->
                IF row[s].st = "absent" THEN dock[s]
                ELSE IF row[s].cid = None THEN Cleaned(dock[s])
                ELSE Cleaned(Removed(dock[s], row[s].cid))]
  /\ row' = [s \in Services |-> IF row[s].st = "absent" THEN row[s]
                                ELSE [row[s] EXCEPT !.st = Moved(@, "stopped")]]
  /\ parent' = Moved(parent, "stopped")
  /\ Forget
  /\ UNCHANGED <<faults, torn>>

(* The process dies; what startup does to the status column is read by     *)
(* nothing here.                                                           *)
Crash ==
  /\ ~Quiet /\ faults < MaxFaults /\ faults' = faults + 1
  /\ torn' = torn \cup Swapped
  /\ Forget
  /\ UNCHANGED <<row, parent, dock, gen>>

-----------------------------------------------------------------------------
ServiceStep(s) ==
  \/ Reuse(s) \/ Build(s) \/ Take(s) \/ SwapFails(s) \/ Run(s) \/ Record(s) \/ Health(s)
  \/ Undo(s) \/ UndoThrows(s)

DeployStep ==
  \/ CleanOrphans \/ OrphansThrow \/ PrepareImages \/ PreClean
  \/ StartGroup \/ GroupFailed \/ GroupsDone \/ RolledBack \/ Reconcile
  \/ CatchClean \/ CatchRestored \/ CatchRows
  \/ \E s \in Services : Rollback(s) \/ RollbackThrows(s) \/ CatchRestore(s) \/ CatchRestoreThrows(s)

Selections(active) == {{}} \cup {{s} : s \in active}

Request ==
  \E active \in Files : \E selected \in Selections(active) :
    \E changed \in SUBSET Applications(active) : \E approved \in SUBSET (Resources \cap active) :
      Begin(active, selected, changed, approved)

Next ==
  \/ Request \/ DeployStep \/ StopCompose \/ Crash
  \/ \E s \in Services : ServiceStep(s)

Spec == Init /\ [][Next]_vars

(* Every promise of a deploy is settled: Docker answers or times out.      *)
FairSpec == Spec /\ WF_vars(DeployStep) /\ \A s \in Services : WF_vars(ServiceStep(s))

-----------------------------------------------------------------------------
(* Types of the variables.                                                 *)
TypeOK ==
  /\ row \in [Services -> [st : {"absent", "building", "running", "stopped", "error"},
                           cid : Gens \cup {None}]]
  /\ before \in [Services -> [st : {"absent", "building", "running", "stopped", "error"},
                              cid : Gens \cup {None}]]
  /\ parent \in {"none", "building", "running", "stopped", "error"}
  /\ dock \in [Services -> [box : [Gens -> {"none", "up", "down"}], named : Gens \cup {None}]]
  /\ gen \in 0..MaxOps /\ phase \in Phases
  /\ pc \in [Services -> {"wait", "reuse", "build", "take", "run", "record", "health", "undo", "end"}]
  /\ res \in [Services -> {"none", "deployed", "failed", "rolled_back", "rollback_failed"}]
  /\ notes \in [Services -> SUBSET Notes]
  /\ outcome \in {"none", "success", "failed", "threw"}
  /\ faults \in 0..MaxFaults /\ torn \subseteq Services

(* When a deploy reports success, every service it deployed or relies on   *)
(* is up under its name in the container of its row, whatever earlier      *)
(* deploys, stops and failures left; the jobs it ran have completed        *)
(* (deployComposeViaDockerode's return value).                             *)
StackServes ==
  phase = "done" /\ outcome = "success" =>
    \A s \in Included \ torn :
      IF Role(s) = "job" THEN row[s].st = "stopped" \/ Has(s, "reused") ELSE Serves(s)

(* The service was not up to be changed by the deploy: it was only relied  *)
(* on, was left out, or its group was never reached.  A job runs again     *)
(* even if it is only relied on.                                           *)
Spared(s) ==
  /\ s \notin Orphans
  /\ Role(s) = "job" => s \notin Included
  /\ s \in req.replace => pc[s] = "wait"

(* A deploy, however it ends, leaves what it did not replace as it was:    *)
(* same container, running, and recorded so (the reuse of dependencies,    *)
(* rollbackService's first lines and preservedExisting).                   *)
SparedIsKept ==
  phase = "done" =>
    \A s \in served : Spared(s) =>
      /\ row[s].cid = Old(s) /\ dock[s].named = Old(s) /\ dock[s].box[Old(s)] = "up"
      /\ outcome # "threw" => row[s].st = "running"

(* The container of a stateful service that a deploy has set aside exists  *)
(* as long as it has not taken its name back, whatever fails and however   *)
(* often it is put back (restorePreservedStatefulContainer).               *)
SetAsideIsKept ==
  \A s \in Services : Has(s, "swap") => dock[s].box[Old(s)] # "none"

(* While a service waits for its rollback, what it depends on is still     *)
(* there: executed is rolled back in reverse (executeOrdered).             *)
RollbackKeepsOrder ==
  phase = "rollback" =>
    \A s \in Executed : \A t \in Depends(s) : dock[t].box[Current(t)] # "none"

(* Every deploy ends, and so do the services that its outer catch block    *)
(* did not wait for.                                                       *)
DeployEnds == []<>Quiet
=============================================================================
