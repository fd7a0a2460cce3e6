------------------------ MODULE DeployPipelineProofs ------------------------
(***************************************************************************)
(* Any number of deploys, redeploys, rollbacks and stops of one project,   *)
(* with any number of cancellations, containers that end and crashes.  The *)
(* types, the terminal events and the lock are proved for every mixture of *)
(* operations; what a success or a failure leaves behind is proved for     *)
(* operations under session-scoped locks (redeploys and rollbacks): a stop *)
(* takes no lock, and a background deploy frees that of others.            *)
(***************************************************************************)
EXTENDS DeployPipeline, TLAPS

(* All operations take the lock and release it for their own session only. *)
LockedOnly == \A o \in Ops : Kind[o] \in {"redeploy", "rollback"}

RollbackPCs == {"rbMark", "rbClean", "rbRemove", "rbRun", "rbCreated", "rbProject", "rbEnv",
                "rbErrProject", "rbErrEnv"}
DeployPCs == {"enter", "markEnv", "markProject", "build", "swap", "run", "created",
              "health", "syncRunning", "syncError", "route", "cleanup", "restore",
              "restoring", "failEnv",
              "failProject", "failEmit", "cancelEnv", "cancelProject", "cancelEmit"}
InSection == RollbackPCs \cup DeployPCs

(* Every kind of operation has steps of its own, and an operation that     *)
(* died, or a dead process, is at no step.                                 *)
Paths ==
  /\ \A o \in Ops :
        /\ pc[o] \in RollbackPCs => Kind[o] = "rollback"
        /\ pc[o] \in DeployPCs => Kind[o] \in {"start", "redeploy"}
        /\ pc[o] \in {"bgProject", "bgEnv"} => Kind[o] = "start"
        /\ pc[o] \in {"stopHalt", "stopRemove", "stopProject", "stopEnv"} => Kind[o] = "stop"
        /\ pc[o] = "lock" => Kind[o] # "stop"
        /\ result[o] = "crashed" => pc[o] = "done"
  /\ ~up => \A o \in Ops : pc[o] \in {"idle", "done"}

(* What a status transition leaves is a status.                            *)
LEMMA MovedIsStatus ==
  ASSUME NEW s \in Statuses, NEW t \in Statuses
  PROVE  Moved(s, t) \in Statuses /\ Moved(s, t) \in {s, t} /\ Reconciled(s, t) \in Statuses
BY DEF Moved, Reconciled

(* Whoever has the lock is between acquire and release, or died there.     *)
Holder ==
  lock # None => /\ lock \in Ops
                 /\ pc[lock] \in InSection \cup {"release"} \/ result[lock] = "crashed"

(* The terminal events published so far, by the step an operation is at.   *)
Events ==
  \A o \in Ops :
    /\ pc[o] \notin {"release", "bgProject", "bgEnv", "done"} => terminal[o] = 0
    /\ pc[o] = "release" =>
         /\ result[o] \in {"success", "failed", "cancelled", "threw"}
         /\ Kind[o] \in {"start", "redeploy"} =>
              terminal[o] = IF result[o] = "threw" THEN 0 ELSE 1
    /\ pc[o] \in {"bgProject", "bgEnv"} =>
         /\ result[o] \in {"failed", "refused", "threw"}
         /\ terminal[o] = IF result[o] = "failed" THEN 1 ELSE 0
    /\ terminal[o] <= 1
    /\ Kind[o] = "start" /\ pc[o] = "done" =>
         terminal[o] = 1 \/ result[o] \in {"blocked", "crashed"}

(* From here on for LockedOnly.  Between acquire and the end of its work   *)
(* an operation has the lock: the only releases the listeners were asked   *)
(* for are those of operations that have finished their work.              *)
Section ==
  /\ \A o \in Ops : pc[o] \in InSection => lock = o
  /\ \A s \in releases : s \in Ops /\ pc[s] \in {"release", "done"}

(* The container of an operation that is about to report success.          *)
Serves ==
  \A o \in Ops :
    /\ pc[o] \in {"rbProject", "rbEnv"} => (container = Fresh(o) /\ ~halted) \/ Meddled
    /\ \/ pc[o] \in {"syncRunning", "route"}
       \/ pc[o] = "release" /\ result[o] = "success" /\ lock = o
       => /\ (container = Fresh(o) /\ ~halted) \/ Meddled
          /\ envStatus = "running" /\ envRef = Fresh(o)

(* The container a redeploy found is left alone until the swap, and after  *)
(* the swap there is the restored one, unless restoring it failed.         *)
Untouched(o) == live[o] = None \/ (container = live[o] /\ ~halted) \/ Meddled
Kept ==
  \A o \in Ops : Preserves(o) =>
    /\ pc[o] \in {"idle", "lock", "enter", "markEnv", "markProject", "build", "swap",
                  "cancelEnv", "cancelProject", "cancelEmit"}
         => ~swapped[o] /\ restored[o] = "untried"
    /\ pc[o] \in {"markEnv", "markProject", "build", "swap",
                  "cancelEnv", "cancelProject", "cancelEmit"} => Untouched(o)
    /\ pc[o] \in {"run", "created", "health", "syncRunning", "syncError", "route",
                  "restore", "restoring"}
         => swapped[o]
    /\ pc[o] = "cleanup" /\ ~swapped[o] => restored[o] = "untried" /\ Untouched(o)
    /\ \/ pc[o] \in {"failEnv", "failProject", "failEmit"}
       \/ pc[o] = "release" /\ result[o] \in {"failed", "cancelled"} /\ lock = o
       => /\ ~swapped[o] => Untouched(o)
          /\ swapped[o] => restored[o] \in {"ok", "failed"}
          /\ swapped[o] /\ restored[o] = "ok"
                => (container = Restored(o) /\ ~halted) \/ Meddled

(* A row that says building belongs to a redeploy that will write it       *)
(* again, or was left so at the last start of the server, which found a    *)
(* container that does not run.                                            *)
Builds ==
  /\ up /\ status = "building" =>
       \/ foundHalted
       \/ \E o \in Ops : pc[o] \in {"build", "swap", "run", "created", "health",
                                    "syncRunning", "syncError", "cleanup", "restore",
                                    "restoring", "failEnv", "failProject",
                                    "cancelEnv", "cancelProject"}
  /\ up /\ envStatus = "building" =>
       \E o \in Ops : pc[o] \in {"markProject", "build", "swap", "run", "created",
                                 "health", "cleanup", "restore", "restoring",
                                 "failEnv", "cancelEnv"}

(* Which transitions leave building, and that only building enters it.     *)
LEMMA MovedLeaves ==
  ASSUME NEW s \in Statuses
  PROVE  /\ Moved(s, "running") # "building" /\ Moved(s, "error") # "building"
         /\ Moved(s, "stopped") = "building" => s = "building"
         /\ Moved(s, "recovering") = "building" => s = "building"
         /\ Reconciled(s, "running") # "building" /\ Reconciled(s, "stopped") # "building"
<1>1. "running" \in VALID_TRANSITIONS["building"] /\ "error" \in VALID_TRANSITIONS["building"]
  BY DEF VALID_TRANSITIONS
<1> QED BY <1>1 DEF Moved, Accepted, Reconciled, RECONCILIATION_TRANSITIONS

(* Every step keeps the types.                                             *)
LEMMA NextTypes ==
  ASSUME TypeOK, [Next]_vars
  PROVE  TypeOK'
<1> USE KindAssumption, NoneAssumption, BoundAssumption
    DEF TypeOK, PCs, Results,
        rows, docker, locals, others, At, Goto, Ends, Publish,
        Gone, MayBeGone, Created, Started, Serving, Forgotten
<1>a. Old \in Containers /\ \A o \in Ops : Fresh(o) \in Containers /\ Restored(o) \in Containers
  BY DEF Containers
<1>b. /\ {"running", "stopped", "building", "error", "recovering"} \subseteq Statuses
      /\ \A s \in Statuses : /\ Moved(s, "running") \in Statuses /\ Moved(s, "stopped") \in Statuses
                             /\ Moved(s, "building") \in Statuses /\ Moved(s, "error") \in Statuses
                             /\ Moved(s, "recovering") \in Statuses
                             /\ Reconciled(s, "running") \in Statuses
                             /\ Reconciled(s, "stopped") \in Statuses
  BY MovedIsStatus DEF Statuses
<1> USE <1>a, <1>b
<1>1. ASSUME NEW o \in Ops, StartDeploy(o) PROVE TypeOK'
  BY <1>1 DEF StartDeploy
<1>2. ASSUME NEW o \in Ops, CheckMutable(o) PROVE TypeOK'
  BY <1>2 DEF CheckMutable
<1>3. ASSUME NEW o \in Ops, Blocked(o) PROVE TypeOK'
  BY <1>3 DEF Blocked
<1>4. ASSUME NEW o \in Ops, AcquireLock(o) PROVE TypeOK'
  BY <1>4 DEF AcquireLock
<1>5. ASSUME NEW o \in Ops, LockRefused(o) PROVE TypeOK'
  BY <1>5 DEF LockRefused
<1>6. ASSUME NEW o \in Ops, EnterBlocked(o) PROVE TypeOK'
  BY <1>6 DEF EnterBlocked
<1>7. ASSUME NEW o \in Ops, Enter(o) PROVE TypeOK'
  <2>1. halted' \in BOOLEAN
    BY <1>7, Zenon DEF Enter
  <2> QED BY <1>7, <2>1 DEF Enter
<1>8. ASSUME NEW o \in Ops, MarkEnv(o) PROVE TypeOK'
  BY <1>8 DEF MarkEnv
<1>9. ASSUME NEW o \in Ops, MarkProject(o) PROVE TypeOK'
  BY <1>9 DEF MarkProject
<1>10. ASSUME NEW o \in Ops, Build(o) PROVE TypeOK'
  BY <1>10 DEF Build
<1>11. ASSUME NEW o \in Ops, Cancel(o) PROVE TypeOK'
  BY <1>11 DEF Cancel
<1>12. ASSUME NEW o \in Ops, Swap(o) PROVE TypeOK'
  <2>1. halted' \in BOOLEAN
    BY <1>12, Zenon DEF Swap
  <2> QED BY <1>12, <2>1 DEF Swap
<1>13. ASSUME NEW o \in Ops, Run(o) PROVE TypeOK'
  <2>1. halted' \in BOOLEAN
    BY <1>13, Zenon DEF Run
  <2> QED BY <1>13, <2>1 DEF Run
<1>14. ASSUME NEW o \in Ops, RunStart(o) PROVE TypeOK'
  <2>1. halted' \in BOOLEAN
    BY <1>14, Zenon DEF RunStart
  <2> QED BY <1>14, <2>1 DEF RunStart
<1>15. ASSUME NEW o \in Ops, Healthy(o) PROVE TypeOK'
  BY <1>15 DEF Healthy
<1>16. ASSUME NEW o \in Ops, Unhealthy(o) PROVE TypeOK'
  BY <1>16 DEF Unhealthy
<1>17. ASSUME NEW o \in Ops, SyncRunning(o) PROVE TypeOK'
  BY <1>17 DEF SyncRunning
<1>18. ASSUME NEW o \in Ops, SyncError(o) PROVE TypeOK'
  BY <1>18 DEF SyncError
<1>19. ASSUME NEW o \in Ops, RouteVerified(o) PROVE TypeOK'
  BY <1>19 DEF RouteVerified
<1>20. ASSUME NEW o \in Ops, RouteFailed(o) PROVE TypeOK'
  BY <1>20 DEF RouteFailed
<1>21. ASSUME NEW o \in Ops, Cleanup(o) PROVE TypeOK'
  <2>1. halted' \in BOOLEAN
    BY <1>21, Zenon DEF Cleanup
  <2> QED BY <1>21, <2>1 DEF Cleanup
<1>22. ASSUME NEW o \in Ops, Restore(o) PROVE TypeOK'
  <2>1. halted' \in BOOLEAN
    BY <1>22, Zenon DEF Restore
  <2> QED BY <1>22, <2>1 DEF Restore
<1>23. ASSUME NEW o \in Ops, RestoreStart(o) PROVE TypeOK'
  <2>1. halted' \in BOOLEAN
    BY <1>23, Zenon DEF RestoreStart
  <2> QED BY <1>23, <2>1 DEF RestoreStart
<1>24. ASSUME NEW o \in Ops, FailEnv(o) PROVE TypeOK'
  BY <1>24 DEF FailEnv
<1>25. ASSUME NEW o \in Ops, FailProject(o) PROVE TypeOK'
  BY <1>25 DEF FailProject
<1>26. ASSUME NEW o \in Ops, FailEmit(o) PROVE TypeOK'
  BY <1>26 DEF FailEmit
<1>27. ASSUME NEW o \in Ops, CancelEnv(o) PROVE TypeOK'
  BY <1>27 DEF CancelEnv
<1>28. ASSUME NEW o \in Ops, CancelProject(o) PROVE TypeOK'
  BY <1>28 DEF CancelProject
<1>29. ASSUME NEW o \in Ops, CancelEmit(o) PROVE TypeOK'
  BY <1>29 DEF CancelEmit
<1>30. ASSUME NEW o \in Ops, Release(o) PROVE TypeOK'
  BY <1>30 DEF Release
<1>31. ASSUME NEW o \in Ops, BgProject(o) PROVE TypeOK'
  BY <1>31 DEF BgProject
<1>32. ASSUME NEW o \in Ops, BgEnv(o) PROVE TypeOK'
  BY <1>32 DEF BgEnv
<1>33. ASSUME NEW o \in Ops, RollbackNoImage(o) PROVE TypeOK'
  BY <1>33 DEF RollbackNoImage
<1>34. ASSUME NEW o \in Ops, RollbackMark(o) PROVE TypeOK'
  BY <1>34 DEF RollbackMark
<1>35. ASSUME NEW o \in Ops, RollbackStop(o) PROVE TypeOK'
  BY <1>35 DEF RollbackStop
<1>36. ASSUME NEW o \in Ops, RollbackClean(o) PROVE TypeOK'
  <2>1. halted' \in BOOLEAN
    BY <1>36, Zenon DEF RollbackClean
  <2> QED BY <1>36, <2>1 DEF RollbackClean
<1>37. ASSUME NEW o \in Ops, RollbackRun(o) PROVE TypeOK'
  <2>1. halted' \in BOOLEAN
    BY <1>37, Zenon DEF RollbackRun
  <2> QED BY <1>37, <2>1 DEF RollbackRun
<1>38. ASSUME NEW o \in Ops, RollbackStart(o) PROVE TypeOK'
  <2>1. halted' \in BOOLEAN
    BY <1>38, Zenon DEF RollbackStart
  <2> QED BY <1>38, <2>1 DEF RollbackStart
<1>39. ASSUME NEW o \in Ops, RollbackProject(o) PROVE TypeOK'
  BY <1>39 DEF RollbackProject
<1>40. ASSUME NEW o \in Ops, RollbackEnv(o) PROVE TypeOK'
  BY <1>40 DEF RollbackEnv
<1>41. ASSUME NEW o \in Ops, RollbackErrProject(o) PROVE TypeOK'
  BY <1>41 DEF RollbackErrProject
<1>42. ASSUME NEW o \in Ops, RollbackErrEnv(o) PROVE TypeOK'
  BY <1>42 DEF RollbackErrEnv
<1>43. ASSUME NEW o \in Ops, StopNothing(o) PROVE TypeOK'
  BY <1>43 DEF StopNothing
<1>44. ASSUME NEW o \in Ops, StopRead(o) PROVE TypeOK'
  BY <1>44 DEF StopRead
<1>45. ASSUME NEW o \in Ops, StopHalt(o) PROVE TypeOK'
  BY <1>45 DEF StopHalt
<1>46. ASSUME NEW o \in Ops, StopRemove(o) PROVE TypeOK'
  <2>1. halted' \in BOOLEAN
    BY <1>46, Zenon DEF StopRemove
  <2> QED BY <1>46, <2>1 DEF StopRemove
<1>47. ASSUME NEW o \in Ops, StopThrows(o) PROVE TypeOK'
  BY <1>47 DEF StopThrows
<1>48. ASSUME NEW o \in Ops, StopProject(o) PROVE TypeOK'
  BY <1>48 DEF StopProject
<1>49. ASSUME NEW o \in Ops, StopEnv(o) PROVE TypeOK'
  BY <1>49 DEF StopEnv
<1>50. ASSUME NEW s \in Ops \cup {None}, AutoRelease(s) PROVE TypeOK'
  BY <1>50 DEF AutoRelease
<1>51. CASE ReconcilerRead
  BY <1>51 DEF ReconcilerRead
<1>52. CASE ReconcilerInspect
  BY <1>52 DEF ReconcilerInspect
<1>53. CASE TimeoutStuckRecovering
  BY <1>53 DEF TimeoutStuckRecovering
<1>54. CASE Vanish
  <2>1. halted' \in BOOLEAN
    BY <1>54, Zenon DEF Vanish
  <2> QED BY <1>54, <2>1 DEF Vanish
<1>55. CASE Exit
  BY <1>55 DEF Exit
<1>56. CASE Crash
  <2>1. pc' \in [Ops -> PCs] /\ result' \in [Ops -> Results]
    BY <1>56 DEF Crash
  <2>2. budget' \in [cancel : 0..MaxCancels, vanish : 0..MaxVanish, crash : 0..MaxCrashes]
    BY <1>56 DEF Crash
  <2> QED BY <1>56, <2>1, <2>2 DEF Crash
<1>57. CASE Restart
  BY <1>57 DEF Restart
<1>58. CASE ExpireLock
  BY <1>58 DEF ExpireLock
<1>59. CASE UNCHANGED vars
  BY <1>59 DEF vars
<1> HIDE
    DEF TypeOK, PCs, Results,
        rows, docker, locals, others, At, Goto, Ends, Publish,
        Gone, MayBeGone, Created, Started, Serving, Forgotten
<1> QED
  BY <1>1, <1>2, <1>3, <1>4, <1>5, <1>6, <1>7, <1>8, <1>9, <1>10, <1>11, <1>12,
     <1>13, <1>14, <1>15, <1>16, <1>17, <1>18, <1>19, <1>20, <1>21, <1>22, <1>23, <1>24,
     <1>25, <1>26, <1>27, <1>28, <1>29, <1>30, <1>31, <1>32, <1>33, <1>34, <1>35, <1>36,
     <1>37, <1>38, <1>39, <1>40, <1>41, <1>42, <1>43, <1>44, <1>45, <1>46, <1>47, <1>48,
     <1>49, <1>50, <1>51, <1>52, <1>53, <1>54, <1>55, <1>56, <1>57, <1>58, <1>59
  DEF Next, OpStep, DeployStep, RollbackStep, StopStep, Listeners, Reconciler

(* Every step keeps operations on the path of their kind.                  *)
LEMMA NextPaths ==
  ASSUME TypeOK, Paths, [Next]_vars
  PROVE  Paths'
<1> USE KindAssumption
    DEF TypeOK, Paths, RollbackPCs, DeployPCs, Active, Kinds,
        rows, docker, locals, others, At, Goto, Ends, Publish,
        Gone, MayBeGone, Created, Started, Serving, Forgotten
<1>1. ASSUME NEW o \in Ops, StartDeploy(o) PROVE Paths'
  BY <1>1 DEF StartDeploy
<1>2. ASSUME NEW o \in Ops, CheckMutable(o) PROVE Paths'
  BY <1>2 DEF CheckMutable
<1>3. ASSUME NEW o \in Ops, Blocked(o) PROVE Paths'
  BY <1>3 DEF Blocked
<1>4. ASSUME NEW o \in Ops, AcquireLock(o) PROVE Paths'
  BY <1>4 DEF AcquireLock
<1>5. ASSUME NEW o \in Ops, LockRefused(o) PROVE Paths'
  BY <1>5 DEF LockRefused
<1>6. ASSUME NEW o \in Ops, EnterBlocked(o) PROVE Paths'
  BY <1>6 DEF EnterBlocked
<1>7. ASSUME NEW o \in Ops, Enter(o) PROVE Paths'
  BY <1>7 DEF Enter
<1>8. ASSUME NEW o \in Ops, MarkEnv(o) PROVE Paths'
  BY <1>8 DEF MarkEnv
<1>9. ASSUME NEW o \in Ops, MarkProject(o) PROVE Paths'
  BY <1>9 DEF MarkProject
<1>10. ASSUME NEW o \in Ops, Build(o) PROVE Paths'
  BY <1>10 DEF Build
<1>11. ASSUME NEW o \in Ops, Cancel(o) PROVE Paths'
  BY <1>11 DEF Cancel
<1>12. ASSUME NEW o \in Ops, Swap(o) PROVE Paths'
  BY <1>12 DEF Swap
<1>13. ASSUME NEW o \in Ops, Run(o) PROVE Paths'
  BY <1>13 DEF Run
<1>14. ASSUME NEW o \in Ops, RunStart(o) PROVE Paths'
  BY <1>14 DEF RunStart
<1>15. ASSUME NEW o \in Ops, Healthy(o) PROVE Paths'
  BY <1>15 DEF Healthy
<1>16. ASSUME NEW o \in Ops, Unhealthy(o) PROVE Paths'
  BY <1>16 DEF Unhealthy
<1>17. ASSUME NEW o \in Ops, SyncRunning(o) PROVE Paths'
  BY <1>17 DEF SyncRunning
<1>18. ASSUME NEW o \in Ops, SyncError(o) PROVE Paths'
  BY <1>18 DEF SyncError
<1>19. ASSUME NEW o \in Ops, RouteVerified(o) PROVE Paths'
  BY <1>19 DEF RouteVerified
<1>20. ASSUME NEW o \in Ops, RouteFailed(o) PROVE Paths'
  BY <1>20 DEF RouteFailed
<1>21. ASSUME NEW o \in Ops, Cleanup(o) PROVE Paths'
  BY <1>21 DEF Cleanup
<1>22. ASSUME NEW o \in Ops, Restore(o) PROVE Paths'
  BY <1>22 DEF Restore
<1>23. ASSUME NEW o \in Ops, RestoreStart(o) PROVE Paths'
  BY <1>23 DEF RestoreStart
<1>24. ASSUME NEW o \in Ops, FailEnv(o) PROVE Paths'
  BY <1>24 DEF FailEnv
<1>25. ASSUME NEW o \in Ops, FailProject(o) PROVE Paths'
  BY <1>25 DEF FailProject
<1>26. ASSUME NEW o \in Ops, FailEmit(o) PROVE Paths'
  BY <1>26 DEF FailEmit
<1>27. ASSUME NEW o \in Ops, CancelEnv(o) PROVE Paths'
  BY <1>27 DEF CancelEnv
<1>28. ASSUME NEW o \in Ops, CancelProject(o) PROVE Paths'
  BY <1>28 DEF CancelProject
<1>29. ASSUME NEW o \in Ops, CancelEmit(o) PROVE Paths'
  BY <1>29 DEF CancelEmit
<1>30. ASSUME NEW o \in Ops, Release(o) PROVE Paths'
  BY <1>30 DEF Release
<1>31. ASSUME NEW o \in Ops, BgProject(o) PROVE Paths'
  BY <1>31 DEF BgProject
<1>32. ASSUME NEW o \in Ops, BgEnv(o) PROVE Paths'
  BY <1>32 DEF BgEnv
<1>33. ASSUME NEW o \in Ops, RollbackNoImage(o) PROVE Paths'
  BY <1>33 DEF RollbackNoImage
<1>34. ASSUME NEW o \in Ops, RollbackMark(o) PROVE Paths'
  BY <1>34 DEF RollbackMark
<1>35. ASSUME NEW o \in Ops, RollbackStop(o) PROVE Paths'
  BY <1>35 DEF RollbackStop
<1>36. ASSUME NEW o \in Ops, RollbackClean(o) PROVE Paths'
  BY <1>36 DEF RollbackClean
<1>37. ASSUME NEW o \in Ops, RollbackRun(o) PROVE Paths'
  BY <1>37 DEF RollbackRun
<1>38. ASSUME NEW o \in Ops, RollbackStart(o) PROVE Paths'
  BY <1>38 DEF RollbackStart
<1>39. ASSUME NEW o \in Ops, RollbackProject(o) PROVE Paths'
  BY <1>39 DEF RollbackProject
<1>40. ASSUME NEW o \in Ops, RollbackEnv(o) PROVE Paths'
  BY <1>40 DEF RollbackEnv
<1>41. ASSUME NEW o \in Ops, RollbackErrProject(o) PROVE Paths'
  BY <1>41 DEF RollbackErrProject
<1>42. ASSUME NEW o \in Ops, RollbackErrEnv(o) PROVE Paths'
  BY <1>42 DEF RollbackErrEnv
<1>43. ASSUME NEW o \in Ops, StopNothing(o) PROVE Paths'
  BY <1>43 DEF StopNothing
<1>44. ASSUME NEW o \in Ops, StopRead(o) PROVE Paths'
  BY <1>44 DEF StopRead
<1>45. ASSUME NEW o \in Ops, StopHalt(o) PROVE Paths'
  BY <1>45 DEF StopHalt
<1>46. ASSUME NEW o \in Ops, StopRemove(o) PROVE Paths'
  BY <1>46 DEF StopRemove
<1>47. ASSUME NEW o \in Ops, StopThrows(o) PROVE Paths'
  BY <1>47 DEF StopThrows
<1>48. ASSUME NEW o \in Ops, StopProject(o) PROVE Paths'
  BY <1>48 DEF StopProject
<1>49. ASSUME NEW o \in Ops, StopEnv(o) PROVE Paths'
  BY <1>49 DEF StopEnv
<1>50. ASSUME NEW s \in Ops \cup {None}, AutoRelease(s) PROVE Paths'
  BY <1>50 DEF AutoRelease
<1>51. CASE ReconcilerRead
  BY <1>51 DEF ReconcilerRead
<1>52. CASE ReconcilerInspect
  BY <1>52 DEF ReconcilerInspect
<1>53. CASE TimeoutStuckRecovering
  BY <1>53 DEF TimeoutStuckRecovering
<1>54. CASE Vanish
  BY <1>54 DEF Vanish
<1>55. CASE Exit
  BY <1>55 DEF Exit
<1>56. CASE Crash
  BY <1>56 DEF Crash
<1>57. CASE Restart
  BY <1>57 DEF Restart
<1>58. CASE ExpireLock
  BY <1>58 DEF ExpireLock
<1>59. CASE UNCHANGED vars
  BY <1>59 DEF vars
<1> HIDE
    DEF TypeOK, Paths, RollbackPCs, DeployPCs, Active, Kinds,
        rows, docker, locals, others, At, Goto, Ends, Publish,
        Gone, MayBeGone, Created, Started, Serving, Forgotten
<1> QED
  BY <1>1, <1>2, <1>3, <1>4, <1>5, <1>6, <1>7, <1>8, <1>9, <1>10, <1>11, <1>12,
     <1>13, <1>14, <1>15, <1>16, <1>17, <1>18, <1>19, <1>20, <1>21, <1>22, <1>23, <1>24,
     <1>25, <1>26, <1>27, <1>28, <1>29, <1>30, <1>31, <1>32, <1>33, <1>34, <1>35, <1>36,
     <1>37, <1>38, <1>39, <1>40, <1>41, <1>42, <1>43, <1>44, <1>45, <1>46, <1>47, <1>48,
     <1>49, <1>50, <1>51, <1>52, <1>53, <1>54, <1>55, <1>56, <1>57, <1>58, <1>59
  DEF Next, OpStep, DeployStep, RollbackStep, StopStep, Listeners, Reconciler

(* Every step keeps the holder of the lock at work.                        *)
LEMMA NextHolder ==
  ASSUME TypeOK, Paths, Holder, [Next]_vars
  PROVE  Holder'
<1> USE NoneAssumption
    DEF TypeOK, Paths, Holder, InSection, RollbackPCs, DeployPCs, Active,
        rows, docker, locals, others, At, Goto, Ends, Publish,
        Gone, MayBeGone, Created, Started, Serving, Forgotten
<1>1. ASSUME NEW o \in Ops, StartDeploy(o) PROVE Holder'
  BY <1>1 DEF StartDeploy
<1>2. ASSUME NEW o \in Ops, CheckMutable(o) PROVE Holder'
  BY <1>2 DEF CheckMutable
<1>3. ASSUME NEW o \in Ops, Blocked(o) PROVE Holder'
  BY <1>3 DEF Blocked
<1>4. ASSUME NEW o \in Ops, AcquireLock(o) PROVE Holder'
  BY <1>4 DEF AcquireLock
<1>5. ASSUME NEW o \in Ops, LockRefused(o) PROVE Holder'
  BY <1>5 DEF LockRefused
<1>6. ASSUME NEW o \in Ops, EnterBlocked(o) PROVE Holder'
  BY <1>6 DEF EnterBlocked
<1>7. ASSUME NEW o \in Ops, Enter(o) PROVE Holder'
  BY <1>7 DEF Enter
<1>8. ASSUME NEW o \in Ops, MarkEnv(o) PROVE Holder'
  BY <1>8 DEF MarkEnv
<1>9. ASSUME NEW o \in Ops, MarkProject(o) PROVE Holder'
  BY <1>9 DEF MarkProject
<1>10. ASSUME NEW o \in Ops, Build(o) PROVE Holder'
  BY <1>10 DEF Build
<1>11. ASSUME NEW o \in Ops, Cancel(o) PROVE Holder'
  BY <1>11 DEF Cancel
<1>12. ASSUME NEW o \in Ops, Swap(o) PROVE Holder'
  BY <1>12 DEF Swap
<1>13. ASSUME NEW o \in Ops, Run(o) PROVE Holder'
  BY <1>13 DEF Run
<1>14. ASSUME NEW o \in Ops, RunStart(o) PROVE Holder'
  BY <1>14 DEF RunStart
<1>15. ASSUME NEW o \in Ops, Healthy(o) PROVE Holder'
  BY <1>15 DEF Healthy
<1>16. ASSUME NEW o \in Ops, Unhealthy(o) PROVE Holder'
  BY <1>16 DEF Unhealthy
<1>17. ASSUME NEW o \in Ops, SyncRunning(o) PROVE Holder'
  BY <1>17 DEF SyncRunning
<1>18. ASSUME NEW o \in Ops, SyncError(o) PROVE Holder'
  BY <1>18 DEF SyncError
<1>19. ASSUME NEW o \in Ops, RouteVerified(o) PROVE Holder'
  BY <1>19 DEF RouteVerified
<1>20. ASSUME NEW o \in Ops, RouteFailed(o) PROVE Holder'
  BY <1>20 DEF RouteFailed
<1>21. ASSUME NEW o \in Ops, Cleanup(o) PROVE Holder'
  BY <1>21 DEF Cleanup
<1>22. ASSUME NEW o \in Ops, Restore(o) PROVE Holder'
  BY <1>22 DEF Restore
<1>23. ASSUME NEW o \in Ops, RestoreStart(o) PROVE Holder'
  BY <1>23 DEF RestoreStart
<1>24. ASSUME NEW o \in Ops, FailEnv(o) PROVE Holder'
  BY <1>24 DEF FailEnv
<1>25. ASSUME NEW o \in Ops, FailProject(o) PROVE Holder'
  BY <1>25 DEF FailProject
<1>26. ASSUME NEW o \in Ops, FailEmit(o) PROVE Holder'
  BY <1>26 DEF FailEmit
<1>27. ASSUME NEW o \in Ops, CancelEnv(o) PROVE Holder'
  BY <1>27 DEF CancelEnv
<1>28. ASSUME NEW o \in Ops, CancelProject(o) PROVE Holder'
  BY <1>28 DEF CancelProject
<1>29. ASSUME NEW o \in Ops, CancelEmit(o) PROVE Holder'
  BY <1>29 DEF CancelEmit
<1>30. ASSUME NEW o \in Ops, Release(o) PROVE Holder'
  BY <1>30 DEF Release
<1>31. ASSUME NEW o \in Ops, BgProject(o) PROVE Holder'
  BY <1>31 DEF BgProject
<1>32. ASSUME NEW o \in Ops, BgEnv(o) PROVE Holder'
  BY <1>32 DEF BgEnv
<1>33. ASSUME NEW o \in Ops, RollbackNoImage(o) PROVE Holder'
  BY <1>33 DEF RollbackNoImage
<1>34. ASSUME NEW o \in Ops, RollbackMark(o) PROVE Holder'
  BY <1>34 DEF RollbackMark
<1>35. ASSUME NEW o \in Ops, RollbackStop(o) PROVE Holder'
  BY <1>35 DEF RollbackStop
<1>36. ASSUME NEW o \in Ops, RollbackClean(o) PROVE Holder'
  BY <1>36 DEF RollbackClean
<1>37. ASSUME NEW o \in Ops, RollbackRun(o) PROVE Holder'
  BY <1>37 DEF RollbackRun
<1>38. ASSUME NEW o \in Ops, RollbackStart(o) PROVE Holder'
  BY <1>38 DEF RollbackStart
<1>39. ASSUME NEW o \in Ops, RollbackProject(o) PROVE Holder'
  BY <1>39 DEF RollbackProject
<1>40. ASSUME NEW o \in Ops, RollbackEnv(o) PROVE Holder'
  BY <1>40 DEF RollbackEnv
<1>41. ASSUME NEW o \in Ops, RollbackErrProject(o) PROVE Holder'
  BY <1>41 DEF RollbackErrProject
<1>42. ASSUME NEW o \in Ops, RollbackErrEnv(o) PROVE Holder'
  BY <1>42 DEF RollbackErrEnv
<1>43. ASSUME NEW o \in Ops, StopNothing(o) PROVE Holder'
  BY <1>43 DEF StopNothing
<1>44. ASSUME NEW o \in Ops, StopRead(o) PROVE Holder'
  BY <1>44 DEF StopRead
<1>45. ASSUME NEW o \in Ops, StopHalt(o) PROVE Holder'
  BY <1>45 DEF StopHalt
<1>46. ASSUME NEW o \in Ops, StopRemove(o) PROVE Holder'
  BY <1>46 DEF StopRemove
<1>47. ASSUME NEW o \in Ops, StopThrows(o) PROVE Holder'
  BY <1>47 DEF StopThrows
<1>48. ASSUME NEW o \in Ops, StopProject(o) PROVE Holder'
  BY <1>48 DEF StopProject
<1>49. ASSUME NEW o \in Ops, StopEnv(o) PROVE Holder'
  BY <1>49 DEF StopEnv
<1>50. ASSUME NEW s \in Ops \cup {None}, AutoRelease(s) PROVE Holder'
  BY <1>50 DEF AutoRelease
<1>51. CASE ReconcilerRead
  BY <1>51 DEF ReconcilerRead
<1>52. CASE ReconcilerInspect
  BY <1>52 DEF ReconcilerInspect
<1>53. CASE TimeoutStuckRecovering
  BY <1>53 DEF TimeoutStuckRecovering
<1>54. CASE Vanish
  BY <1>54 DEF Vanish
<1>55. CASE Exit
  BY <1>55 DEF Exit
<1>56. CASE Crash
  BY <1>56 DEF Crash
<1>57. CASE Restart
  BY <1>57 DEF Restart
<1>58. CASE ExpireLock
  BY <1>58 DEF ExpireLock
<1>59. CASE UNCHANGED vars
  BY <1>59 DEF vars
<1> HIDE
    DEF TypeOK, Paths, Holder, InSection, RollbackPCs, DeployPCs, Active,
        rows, docker, locals, others, At, Goto, Ends, Publish,
        Gone, MayBeGone, Created, Started, Serving, Forgotten
<1> QED
  BY <1>1, <1>2, <1>3, <1>4, <1>5, <1>6, <1>7, <1>8, <1>9, <1>10, <1>11, <1>12,
     <1>13, <1>14, <1>15, <1>16, <1>17, <1>18, <1>19, <1>20, <1>21, <1>22, <1>23, <1>24,
     <1>25, <1>26, <1>27, <1>28, <1>29, <1>30, <1>31, <1>32, <1>33, <1>34, <1>35, <1>36,
     <1>37, <1>38, <1>39, <1>40, <1>41, <1>42, <1>43, <1>44, <1>45, <1>46, <1>47, <1>48,
     <1>49, <1>50, <1>51, <1>52, <1>53, <1>54, <1>55, <1>56, <1>57, <1>58, <1>59
  DEF Next, OpStep, DeployStep, RollbackStep, StopStep, Listeners, Reconciler

(* Every step keeps the account of terminal events.                        *)
LEMMA NextEvents ==
  ASSUME TypeOK, Paths, Events, [Next]_vars
  PROVE  Events'
<1> USE KindAssumption
    DEF TypeOK, Paths, Events, RollbackPCs, DeployPCs, Active, Kinds,
        rows, docker, locals, others, At, Goto, Ends, Publish,
        Gone, MayBeGone, Created, Started, Serving, Forgotten
<1>1. ASSUME NEW o \in Ops, StartDeploy(o) PROVE Events'
  BY <1>1 DEF StartDeploy
<1>2. ASSUME NEW o \in Ops, CheckMutable(o) PROVE Events'
  BY <1>2 DEF CheckMutable
<1>3. ASSUME NEW o \in Ops, Blocked(o) PROVE Events'
  BY <1>3 DEF Blocked
<1>4. ASSUME NEW o \in Ops, AcquireLock(o) PROVE Events'
  BY <1>4 DEF AcquireLock
<1>5. ASSUME NEW o \in Ops, LockRefused(o) PROVE Events'
  BY <1>5 DEF LockRefused
<1>6. ASSUME NEW o \in Ops, EnterBlocked(o) PROVE Events'
  BY <1>6 DEF EnterBlocked
<1>7. ASSUME NEW o \in Ops, Enter(o) PROVE Events'
  BY <1>7 DEF Enter
<1>8. ASSUME NEW o \in Ops, MarkEnv(o) PROVE Events'
  BY <1>8 DEF MarkEnv
<1>9. ASSUME NEW o \in Ops, MarkProject(o) PROVE Events'
  BY <1>9 DEF MarkProject
<1>10. ASSUME NEW o \in Ops, Build(o) PROVE Events'
  BY <1>10 DEF Build
<1>11. ASSUME NEW o \in Ops, Cancel(o) PROVE Events'
  BY <1>11 DEF Cancel
<1>12. ASSUME NEW o \in Ops, Swap(o) PROVE Events'
  BY <1>12 DEF Swap
<1>13. ASSUME NEW o \in Ops, Run(o) PROVE Events'
  BY <1>13 DEF Run
<1>14. ASSUME NEW o \in Ops, RunStart(o) PROVE Events'
  BY <1>14 DEF RunStart
<1>15. ASSUME NEW o \in Ops, Healthy(o) PROVE Events'
  BY <1>15 DEF Healthy
<1>16. ASSUME NEW o \in Ops, Unhealthy(o) PROVE Events'
  BY <1>16 DEF Unhealthy
<1>17. ASSUME NEW o \in Ops, SyncRunning(o) PROVE Events'
  BY <1>17 DEF SyncRunning
<1>18. ASSUME NEW o \in Ops, SyncError(o) PROVE Events'
  BY <1>18 DEF SyncError
<1>19. ASSUME NEW o \in Ops, RouteVerified(o) PROVE Events'
  BY <1>19 DEF RouteVerified
<1>20. ASSUME NEW o \in Ops, RouteFailed(o) PROVE Events'
  BY <1>20 DEF RouteFailed
<1>21. ASSUME NEW o \in Ops, Cleanup(o) PROVE Events'
  BY <1>21 DEF Cleanup
<1>22. ASSUME NEW o \in Ops, Restore(o) PROVE Events'
  BY <1>22 DEF Restore
<1>23. ASSUME NEW o \in Ops, RestoreStart(o) PROVE Events'
  BY <1>23 DEF RestoreStart
<1>24. ASSUME NEW o \in Ops, FailEnv(o) PROVE Events'
  BY <1>24 DEF FailEnv
<1>25. ASSUME NEW o \in Ops, FailProject(o) PROVE Events'
  BY <1>25 DEF FailProject
<1>26. ASSUME NEW o \in Ops, FailEmit(o) PROVE Events'
  BY <1>26 DEF FailEmit
<1>27. ASSUME NEW o \in Ops, CancelEnv(o) PROVE Events'
  BY <1>27 DEF CancelEnv
<1>28. ASSUME NEW o \in Ops, CancelProject(o) PROVE Events'
  BY <1>28 DEF CancelProject
<1>29. ASSUME NEW o \in Ops, CancelEmit(o) PROVE Events'
  BY <1>29 DEF CancelEmit
<1>30. ASSUME NEW o \in Ops, Release(o) PROVE Events'
  BY <1>30 DEF Release
<1>31. ASSUME NEW o \in Ops, BgProject(o) PROVE Events'
  BY <1>31 DEF BgProject
<1>32. ASSUME NEW o \in Ops, BgEnv(o) PROVE Events'
  BY <1>32 DEF BgEnv
<1>33. ASSUME NEW o \in Ops, RollbackNoImage(o) PROVE Events'
  BY <1>33 DEF RollbackNoImage
<1>34. ASSUME NEW o \in Ops, RollbackMark(o) PROVE Events'
  BY <1>34 DEF RollbackMark
<1>35. ASSUME NEW o \in Ops, RollbackStop(o) PROVE Events'
  BY <1>35 DEF RollbackStop
<1>36. ASSUME NEW o \in Ops, RollbackClean(o) PROVE Events'
  BY <1>36 DEF RollbackClean
<1>37. ASSUME NEW o \in Ops, RollbackRun(o) PROVE Events'
  BY <1>37 DEF RollbackRun
<1>38. ASSUME NEW o \in Ops, RollbackStart(o) PROVE Events'
  BY <1>38 DEF RollbackStart
<1>39. ASSUME NEW o \in Ops, RollbackProject(o) PROVE Events'
  BY <1>39 DEF RollbackProject
<1>40. ASSUME NEW o \in Ops, RollbackEnv(o) PROVE Events'
  BY <1>40 DEF RollbackEnv
<1>41. ASSUME NEW o \in Ops, RollbackErrProject(o) PROVE Events'
  BY <1>41 DEF RollbackErrProject
<1>42. ASSUME NEW o \in Ops, RollbackErrEnv(o) PROVE Events'
  BY <1>42 DEF RollbackErrEnv
<1>43. ASSUME NEW o \in Ops, StopNothing(o) PROVE Events'
  BY <1>43 DEF StopNothing
<1>44. ASSUME NEW o \in Ops, StopRead(o) PROVE Events'
  BY <1>44 DEF StopRead
<1>45. ASSUME NEW o \in Ops, StopHalt(o) PROVE Events'
  BY <1>45 DEF StopHalt
<1>46. ASSUME NEW o \in Ops, StopRemove(o) PROVE Events'
  BY <1>46 DEF StopRemove
<1>47. ASSUME NEW o \in Ops, StopThrows(o) PROVE Events'
  BY <1>47 DEF StopThrows
<1>48. ASSUME NEW o \in Ops, StopProject(o) PROVE Events'
  BY <1>48 DEF StopProject
<1>49. ASSUME NEW o \in Ops, StopEnv(o) PROVE Events'
  BY <1>49 DEF StopEnv
<1>50. ASSUME NEW s \in Ops \cup {None}, AutoRelease(s) PROVE Events'
  BY <1>50 DEF AutoRelease
<1>51. CASE ReconcilerRead
  BY <1>51 DEF ReconcilerRead
<1>52. CASE ReconcilerInspect
  BY <1>52 DEF ReconcilerInspect
<1>53. CASE TimeoutStuckRecovering
  BY <1>53 DEF TimeoutStuckRecovering
<1>54. CASE Vanish
  BY <1>54 DEF Vanish
<1>55. CASE Exit
  BY <1>55 DEF Exit
<1>56. CASE Crash
  BY <1>56 DEF Crash
<1>57. CASE Restart
  BY <1>57 DEF Restart
<1>58. CASE ExpireLock
  BY <1>58 DEF ExpireLock
<1>59. CASE UNCHANGED vars
  BY <1>59 DEF vars
<1> HIDE
    DEF TypeOK, Paths, Events, RollbackPCs, DeployPCs, Active, Kinds,
        rows, docker, locals, others, At, Goto, Ends, Publish,
        Gone, MayBeGone, Created, Started, Serving, Forgotten
<1> QED
  BY <1>1, <1>2, <1>3, <1>4, <1>5, <1>6, <1>7, <1>8, <1>9, <1>10, <1>11, <1>12,
     <1>13, <1>14, <1>15, <1>16, <1>17, <1>18, <1>19, <1>20, <1>21, <1>22, <1>23, <1>24,
     <1>25, <1>26, <1>27, <1>28, <1>29, <1>30, <1>31, <1>32, <1>33, <1>34, <1>35, <1>36,
     <1>37, <1>38, <1>39, <1>40, <1>41, <1>42, <1>43, <1>44, <1>45, <1>46, <1>47, <1>48,
     <1>49, <1>50, <1>51, <1>52, <1>53, <1>54, <1>55, <1>56, <1>57, <1>58, <1>59
  DEF Next, OpStep, DeployStep, RollbackStep, StopStep, Listeners, Reconciler

(* Every step keeps the lock with the operation at work.                   *)
LEMMA NextSection ==
  ASSUME LockedOnly, TypeOK, Paths, Section, [Next]_vars
  PROVE  Section'
<1> USE NoneAssumption
    DEF LockedOnly, TypeOK, Paths, Section, InSection, RollbackPCs, DeployPCs, Active,
        rows, docker, locals, others, At, Goto, Ends, Publish,
        Gone, MayBeGone, Created, Started, Serving, Forgotten
<1>1. ASSUME NEW o \in Ops, StartDeploy(o) PROVE Section'
  BY <1>1 DEF StartDeploy
<1>2. ASSUME NEW o \in Ops, CheckMutable(o) PROVE Section'
  BY <1>2 DEF CheckMutable
<1>3. ASSUME NEW o \in Ops, Blocked(o) PROVE Section'
  BY <1>3 DEF Blocked
<1>4. ASSUME NEW o \in Ops, AcquireLock(o) PROVE Section'
  BY <1>4 DEF AcquireLock
<1>5. ASSUME NEW o \in Ops, LockRefused(o) PROVE Section'
  BY <1>5 DEF LockRefused
<1>6. ASSUME NEW o \in Ops, EnterBlocked(o) PROVE Section'
  BY <1>6 DEF EnterBlocked
<1>7. ASSUME NEW o \in Ops, Enter(o) PROVE Section'
  BY <1>7 DEF Enter
<1>8. ASSUME NEW o \in Ops, MarkEnv(o) PROVE Section'
  BY <1>8 DEF MarkEnv
<1>9. ASSUME NEW o \in Ops, MarkProject(o) PROVE Section'
  BY <1>9 DEF MarkProject
<1>10. ASSUME NEW o \in Ops, Build(o) PROVE Section'
  BY <1>10 DEF Build
<1>11. ASSUME NEW o \in Ops, Cancel(o) PROVE Section'
  BY <1>11 DEF Cancel
<1>12. ASSUME NEW o \in Ops, Swap(o) PROVE Section'
  BY <1>12 DEF Swap
<1>13. ASSUME NEW o \in Ops, Run(o) PROVE Section'
  BY <1>13 DEF Run
<1>14. ASSUME NEW o \in Ops, RunStart(o) PROVE Section'
  BY <1>14 DEF RunStart
<1>15. ASSUME NEW o \in Ops, Healthy(o) PROVE Section'
  BY <1>15 DEF Healthy
<1>16. ASSUME NEW o \in Ops, Unhealthy(o) PROVE Section'
  BY <1>16 DEF Unhealthy
<1>17. ASSUME NEW o \in Ops, SyncRunning(o) PROVE Section'
  BY <1>17 DEF SyncRunning
<1>18. ASSUME NEW o \in Ops, SyncError(o) PROVE Section'
  BY <1>18 DEF SyncError
<1>19. ASSUME NEW o \in Ops, RouteVerified(o) PROVE Section'
  BY <1>19 DEF RouteVerified
<1>20. ASSUME NEW o \in Ops, RouteFailed(o) PROVE Section'
  BY <1>20 DEF RouteFailed
<1>21. ASSUME NEW o \in Ops, Cleanup(o) PROVE Section'
  BY <1>21 DEF Cleanup
<1>22. ASSUME NEW o \in Ops, Restore(o) PROVE Section'
  BY <1>22 DEF Restore
<1>23. ASSUME NEW o \in Ops, RestoreStart(o) PROVE Section'
  BY <1>23 DEF RestoreStart
<1>24. ASSUME NEW o \in Ops, FailEnv(o) PROVE Section'
  BY <1>24 DEF FailEnv
<1>25. ASSUME NEW o \in Ops, FailProject(o) PROVE Section'
  BY <1>25 DEF FailProject
<1>26. ASSUME NEW o \in Ops, FailEmit(o) PROVE Section'
  BY <1>26 DEF FailEmit
<1>27. ASSUME NEW o \in Ops, CancelEnv(o) PROVE Section'
  BY <1>27 DEF CancelEnv
<1>28. ASSUME NEW o \in Ops, CancelProject(o) PROVE Section'
  BY <1>28 DEF CancelProject
<1>29. ASSUME NEW o \in Ops, CancelEmit(o) PROVE Section'
  BY <1>29 DEF CancelEmit
<1>30. ASSUME NEW o \in Ops, Release(o) PROVE Section'
  BY <1>30 DEF Release
<1>31. ASSUME NEW o \in Ops, BgProject(o) PROVE Section'
  BY <1>31 DEF BgProject
<1>32. ASSUME NEW o \in Ops, BgEnv(o) PROVE Section'
  BY <1>32 DEF BgEnv
<1>33. ASSUME NEW o \in Ops, RollbackNoImage(o) PROVE Section'
  BY <1>33 DEF RollbackNoImage
<1>34. ASSUME NEW o \in Ops, RollbackMark(o) PROVE Section'
  BY <1>34 DEF RollbackMark
<1>35. ASSUME NEW o \in Ops, RollbackStop(o) PROVE Section'
  BY <1>35 DEF RollbackStop
<1>36. ASSUME NEW o \in Ops, RollbackClean(o) PROVE Section'
  BY <1>36 DEF RollbackClean
<1>37. ASSUME NEW o \in Ops, RollbackRun(o) PROVE Section'
  BY <1>37 DEF RollbackRun
<1>38. ASSUME NEW o \in Ops, RollbackStart(o) PROVE Section'
  BY <1>38 DEF RollbackStart
<1>39. ASSUME NEW o \in Ops, RollbackProject(o) PROVE Section'
  BY <1>39 DEF RollbackProject
<1>40. ASSUME NEW o \in Ops, RollbackEnv(o) PROVE Section'
  BY <1>40 DEF RollbackEnv
<1>41. ASSUME NEW o \in Ops, RollbackErrProject(o) PROVE Section'
  BY <1>41 DEF RollbackErrProject
<1>42. ASSUME NEW o \in Ops, RollbackErrEnv(o) PROVE Section'
  BY <1>42 DEF RollbackErrEnv
<1>43. ASSUME NEW o \in Ops, StopNothing(o) PROVE Section'
  BY <1>43 DEF StopNothing
<1>44. ASSUME NEW o \in Ops, StopRead(o) PROVE Section'
  BY <1>44 DEF StopRead
<1>45. ASSUME NEW o \in Ops, StopHalt(o) PROVE Section'
  BY <1>45 DEF StopHalt
<1>46. ASSUME NEW o \in Ops, StopRemove(o) PROVE Section'
  BY <1>46 DEF StopRemove
<1>47. ASSUME NEW o \in Ops, StopThrows(o) PROVE Section'
  BY <1>47 DEF StopThrows
<1>48. ASSUME NEW o \in Ops, StopProject(o) PROVE Section'
  BY <1>48 DEF StopProject
<1>49. ASSUME NEW o \in Ops, StopEnv(o) PROVE Section'
  BY <1>49 DEF StopEnv
<1>50. ASSUME NEW s \in Ops \cup {None}, AutoRelease(s) PROVE Section'
  BY <1>50 DEF AutoRelease
<1>51. CASE ReconcilerRead
  BY <1>51 DEF ReconcilerRead
<1>52. CASE ReconcilerInspect
  BY <1>52 DEF ReconcilerInspect
<1>53. CASE TimeoutStuckRecovering
  BY <1>53 DEF TimeoutStuckRecovering
<1>54. CASE Vanish
  BY <1>54 DEF Vanish
<1>55. CASE Exit
  BY <1>55 DEF Exit
<1>56. CASE Crash
  BY <1>56 DEF Crash
<1>57. CASE Restart
  BY <1>57 DEF Restart
<1>58. CASE ExpireLock
  BY <1>58 DEF ExpireLock
<1>59. CASE UNCHANGED vars
  BY <1>59 DEF vars
<1> HIDE
    DEF LockedOnly, TypeOK, Paths, Section, InSection, RollbackPCs, DeployPCs, Active,
        rows, docker, locals, others, At, Goto, Ends, Publish,
        Gone, MayBeGone, Created, Started, Serving, Forgotten
<1> QED
  BY <1>1, <1>2, <1>3, <1>4, <1>5, <1>6, <1>7, <1>8, <1>9, <1>10, <1>11, <1>12,
     <1>13, <1>14, <1>15, <1>16, <1>17, <1>18, <1>19, <1>20, <1>21, <1>22, <1>23, <1>24,
     <1>25, <1>26, <1>27, <1>28, <1>29, <1>30, <1>31, <1>32, <1>33, <1>34, <1>35, <1>36,
     <1>37, <1>38, <1>39, <1>40, <1>41, <1>42, <1>43, <1>44, <1>45, <1>46, <1>47, <1>48,
     <1>49, <1>50, <1>51, <1>52, <1>53, <1>54, <1>55, <1>56, <1>57, <1>58, <1>59
  DEF Next, OpStep, DeployStep, RollbackStep, StopStep, Listeners, Reconciler

(* Every step keeps what is about to be reported true: the others at work  *)
(* would need the lock, and the monitors write the project row only.       *)
LEMMA NextServes ==
  ASSUME LockedOnly, TypeOK, Paths, Section, Serves, [Next]_vars
  PROVE  Serves'
<1> USE NoneAssumption, BoundAssumption
    DEF LockedOnly, TypeOK, Paths, Section, Serves, InSection, RollbackPCs, DeployPCs, Active, Meddled,
        rows, docker, locals, others, At, Goto, Ends, Publish,
        Gone, MayBeGone, Created, Started, Serving, Forgotten
<1>1. ASSUME NEW o \in Ops, StartDeploy(o) PROVE Serves'
  BY <1>1 DEF StartDeploy
<1>2. ASSUME NEW o \in Ops, CheckMutable(o) PROVE Serves'
  BY <1>2 DEF CheckMutable
<1>3. ASSUME NEW o \in Ops, Blocked(o) PROVE Serves'
  BY <1>3 DEF Blocked
<1>4. ASSUME NEW o \in Ops, AcquireLock(o) PROVE Serves'
  BY <1>4 DEF AcquireLock
<1>5. ASSUME NEW o \in Ops, LockRefused(o) PROVE Serves'
  BY <1>5 DEF LockRefused
<1>6. ASSUME NEW o \in Ops, EnterBlocked(o) PROVE Serves'
  BY <1>6 DEF EnterBlocked
<1>7. ASSUME NEW o \in Ops, Enter(o) PROVE Serves'
  BY <1>7 DEF Enter
<1>8. ASSUME NEW o \in Ops, MarkEnv(o) PROVE Serves'
  BY <1>8 DEF MarkEnv
<1>9. ASSUME NEW o \in Ops, MarkProject(o) PROVE Serves'
  BY <1>9 DEF MarkProject
<1>10. ASSUME NEW o \in Ops, Build(o) PROVE Serves'
  BY <1>10 DEF Build
<1>11. ASSUME NEW o \in Ops, Cancel(o) PROVE Serves'
  BY <1>11 DEF Cancel
<1>12. ASSUME NEW o \in Ops, Swap(o) PROVE Serves'
  BY <1>12 DEF Swap
<1>13. ASSUME NEW o \in Ops, Run(o) PROVE Serves'
  BY <1>13 DEF Run
<1>14. ASSUME NEW o \in Ops, RunStart(o) PROVE Serves'
  BY <1>14 DEF RunStart
<1>15. ASSUME NEW o \in Ops, Healthy(o) PROVE Serves'
  BY <1>15 DEF Healthy
<1>16. ASSUME NEW o \in Ops, Unhealthy(o) PROVE Serves'
  BY <1>16 DEF Unhealthy
<1>17. ASSUME NEW o \in Ops, SyncRunning(o) PROVE Serves'
  BY <1>17 DEF SyncRunning
<1>18. ASSUME NEW o \in Ops, SyncError(o) PROVE Serves'
  BY <1>18 DEF SyncError
<1>19. ASSUME NEW o \in Ops, RouteVerified(o) PROVE Serves'
  BY <1>19 DEF RouteVerified
<1>20. ASSUME NEW o \in Ops, RouteFailed(o) PROVE Serves'
  BY <1>20 DEF RouteFailed
<1>21. ASSUME NEW o \in Ops, Cleanup(o) PROVE Serves'
  BY <1>21 DEF Cleanup
<1>22. ASSUME NEW o \in Ops, Restore(o) PROVE Serves'
  BY <1>22 DEF Restore
<1>23. ASSUME NEW o \in Ops, RestoreStart(o) PROVE Serves'
  BY <1>23 DEF RestoreStart
<1>24. ASSUME NEW o \in Ops, FailEnv(o) PROVE Serves'
  BY <1>24 DEF FailEnv
<1>25. ASSUME NEW o \in Ops, FailProject(o) PROVE Serves'
  BY <1>25 DEF FailProject
<1>26. ASSUME NEW o \in Ops, FailEmit(o) PROVE Serves'
  BY <1>26 DEF FailEmit
<1>27. ASSUME NEW o \in Ops, CancelEnv(o) PROVE Serves'
  BY <1>27 DEF CancelEnv
<1>28. ASSUME NEW o \in Ops, CancelProject(o) PROVE Serves'
  BY <1>28 DEF CancelProject
<1>29. ASSUME NEW o \in Ops, CancelEmit(o) PROVE Serves'
  BY <1>29 DEF CancelEmit
<1>30. ASSUME NEW o \in Ops, Release(o) PROVE Serves'
  BY <1>30 DEF Release
<1>31. ASSUME NEW o \in Ops, BgProject(o) PROVE Serves'
  BY <1>31 DEF BgProject
<1>32. ASSUME NEW o \in Ops, BgEnv(o) PROVE Serves'
  BY <1>32 DEF BgEnv
<1>33. ASSUME NEW o \in Ops, RollbackNoImage(o) PROVE Serves'
  BY <1>33 DEF RollbackNoImage
<1>34. ASSUME NEW o \in Ops, RollbackMark(o) PROVE Serves'
  BY <1>34 DEF RollbackMark
<1>35. ASSUME NEW o \in Ops, RollbackStop(o) PROVE Serves'
  BY <1>35 DEF RollbackStop
<1>36. ASSUME NEW o \in Ops, RollbackClean(o) PROVE Serves'
  BY <1>36 DEF RollbackClean
<1>37. ASSUME NEW o \in Ops, RollbackRun(o) PROVE Serves'
  BY <1>37 DEF RollbackRun
<1>38. ASSUME NEW o \in Ops, RollbackStart(o) PROVE Serves'
  BY <1>38 DEF RollbackStart
<1>39. ASSUME NEW o \in Ops, RollbackProject(o) PROVE Serves'
  BY <1>39 DEF RollbackProject
<1>40. ASSUME NEW o \in Ops, RollbackEnv(o) PROVE Serves'
  BY <1>40 DEF RollbackEnv
<1>41. ASSUME NEW o \in Ops, RollbackErrProject(o) PROVE Serves'
  BY <1>41 DEF RollbackErrProject
<1>42. ASSUME NEW o \in Ops, RollbackErrEnv(o) PROVE Serves'
  BY <1>42 DEF RollbackErrEnv
<1>43. ASSUME NEW o \in Ops, StopNothing(o) PROVE Serves'
  BY <1>43 DEF StopNothing
<1>44. ASSUME NEW o \in Ops, StopRead(o) PROVE Serves'
  BY <1>44 DEF StopRead
<1>45. ASSUME NEW o \in Ops, StopHalt(o) PROVE Serves'
  BY <1>45 DEF StopHalt
<1>46. ASSUME NEW o \in Ops, StopRemove(o) PROVE Serves'
  BY <1>46 DEF StopRemove
<1>47. ASSUME NEW o \in Ops, StopThrows(o) PROVE Serves'
  BY <1>47 DEF StopThrows
<1>48. ASSUME NEW o \in Ops, StopProject(o) PROVE Serves'
  BY <1>48 DEF StopProject
<1>49. ASSUME NEW o \in Ops, StopEnv(o) PROVE Serves'
  BY <1>49 DEF StopEnv
<1>50. ASSUME NEW s \in Ops \cup {None}, AutoRelease(s) PROVE Serves'
  BY <1>50 DEF AutoRelease
<1>51. CASE ReconcilerRead
  BY <1>51 DEF ReconcilerRead
<1>52. CASE ReconcilerInspect
  BY <1>52 DEF ReconcilerInspect
<1>53. CASE TimeoutStuckRecovering
  BY <1>53 DEF TimeoutStuckRecovering
<1>54. CASE Vanish
  BY <1>54 DEF Vanish
<1>55. CASE Exit
  BY <1>55 DEF Exit
<1>56. CASE Crash
  BY <1>56 DEF Crash
<1>57. CASE Restart
  BY <1>57 DEF Restart
<1>58. CASE ExpireLock
  BY <1>58 DEF ExpireLock
<1>59. CASE UNCHANGED vars
  BY <1>59 DEF vars
<1> HIDE
    DEF LockedOnly, TypeOK, Paths, Section, Serves, InSection, RollbackPCs, DeployPCs, Active, Meddled,
        rows, docker, locals, others, At, Goto, Ends, Publish,
        Gone, MayBeGone, Created, Started, Serving, Forgotten
<1> QED
  BY <1>1, <1>2, <1>3, <1>4, <1>5, <1>6, <1>7, <1>8, <1>9, <1>10, <1>11, <1>12,
     <1>13, <1>14, <1>15, <1>16, <1>17, <1>18, <1>19, <1>20, <1>21, <1>22, <1>23, <1>24,
     <1>25, <1>26, <1>27, <1>28, <1>29, <1>30, <1>31, <1>32, <1>33, <1>34, <1>35, <1>36,
     <1>37, <1>38, <1>39, <1>40, <1>41, <1>42, <1>43, <1>44, <1>45, <1>46, <1>47, <1>48,
     <1>49, <1>50, <1>51, <1>52, <1>53, <1>54, <1>55, <1>56, <1>57, <1>58, <1>59
  DEF Next, OpStep, DeployStep, RollbackStep, StopStep, Listeners, Reconciler

(* Every step keeps the container of a redeploy that has not swapped yet,  *)
(* or restored it.                                                         *)
LEMMA NextKept ==
  ASSUME LockedOnly, TypeOK, Paths, Section, Kept, [Next]_vars
  PROVE  Kept'
<1> USE NoneAssumption, BoundAssumption
    DEF LockedOnly, TypeOK, Paths, Section, Kept, Untouched, Preserves, InSection, RollbackPCs, DeployPCs, Active, Meddled,
        rows, docker, locals, others, At, Goto, Ends, Publish,
        Gone, MayBeGone, Created, Started, Serving, Forgotten
<1>1. ASSUME NEW o \in Ops, StartDeploy(o) PROVE Kept'
  BY <1>1 DEF StartDeploy
<1>2. ASSUME NEW o \in Ops, CheckMutable(o) PROVE Kept'
  BY <1>2 DEF CheckMutable
<1>3. ASSUME NEW o \in Ops, Blocked(o) PROVE Kept'
  BY <1>3 DEF Blocked
<1>4. ASSUME NEW o \in Ops, AcquireLock(o) PROVE Kept'
  BY <1>4 DEF AcquireLock
<1>5. ASSUME NEW o \in Ops, LockRefused(o) PROVE Kept'
  BY <1>5 DEF LockRefused
<1>6. ASSUME NEW o \in Ops, EnterBlocked(o) PROVE Kept'
  BY <1>6 DEF EnterBlocked
<1>7. ASSUME NEW o \in Ops, Enter(o) PROVE Kept'
  BY <1>7 DEF Enter
<1>8. ASSUME NEW o \in Ops, MarkEnv(o) PROVE Kept'
  BY <1>8 DEF MarkEnv
<1>9. ASSUME NEW o \in Ops, MarkProject(o) PROVE Kept'
  BY <1>9 DEF MarkProject
<1>10. ASSUME NEW o \in Ops, Build(o) PROVE Kept'
  BY <1>10 DEF Build
<1>11. ASSUME NEW o \in Ops, Cancel(o) PROVE Kept'
  BY <1>11 DEF Cancel
<1>12. ASSUME NEW o \in Ops, Swap(o) PROVE Kept'
  BY <1>12 DEF Swap
<1>13. ASSUME NEW o \in Ops, Run(o) PROVE Kept'
  BY <1>13 DEF Run
<1>14. ASSUME NEW o \in Ops, RunStart(o) PROVE Kept'
  BY <1>14 DEF RunStart
<1>15. ASSUME NEW o \in Ops, Healthy(o) PROVE Kept'
  BY <1>15 DEF Healthy
<1>16. ASSUME NEW o \in Ops, Unhealthy(o) PROVE Kept'
  BY <1>16 DEF Unhealthy
<1>17. ASSUME NEW o \in Ops, SyncRunning(o) PROVE Kept'
  BY <1>17 DEF SyncRunning
<1>18. ASSUME NEW o \in Ops, SyncError(o) PROVE Kept'
  BY <1>18 DEF SyncError
<1>19. ASSUME NEW o \in Ops, RouteVerified(o) PROVE Kept'
  BY <1>19 DEF RouteVerified
<1>20. ASSUME NEW o \in Ops, RouteFailed(o) PROVE Kept'
  BY <1>20 DEF RouteFailed
<1>21. ASSUME NEW o \in Ops, Cleanup(o) PROVE Kept'
  BY <1>21 DEF Cleanup
<1>22. ASSUME NEW o \in Ops, Restore(o) PROVE Kept'
  BY <1>22 DEF Restore
<1>23. ASSUME NEW o \in Ops, RestoreStart(o) PROVE Kept'
  BY <1>23 DEF RestoreStart
<1>24. ASSUME NEW o \in Ops, FailEnv(o) PROVE Kept'
  BY <1>24 DEF FailEnv
<1>25. ASSUME NEW o \in Ops, FailProject(o) PROVE Kept'
  BY <1>25 DEF FailProject
<1>26. ASSUME NEW o \in Ops, FailEmit(o) PROVE Kept'
  BY <1>26 DEF FailEmit
<1>27. ASSUME NEW o \in Ops, CancelEnv(o) PROVE Kept'
  BY <1>27 DEF CancelEnv
<1>28. ASSUME NEW o \in Ops, CancelProject(o) PROVE Kept'
  BY <1>28 DEF CancelProject
<1>29. ASSUME NEW o \in Ops, CancelEmit(o) PROVE Kept'
  BY <1>29 DEF CancelEmit
<1>30. ASSUME NEW o \in Ops, Release(o) PROVE Kept'
  BY <1>30 DEF Release
<1>31. ASSUME NEW o \in Ops, BgProject(o) PROVE Kept'
  BY <1>31 DEF BgProject
<1>32. ASSUME NEW o \in Ops, BgEnv(o) PROVE Kept'
  BY <1>32 DEF BgEnv
<1>33. ASSUME NEW o \in Ops, RollbackNoImage(o) PROVE Kept'
  BY <1>33 DEF RollbackNoImage
<1>34. ASSUME NEW o \in Ops, RollbackMark(o) PROVE Kept'
  BY <1>34 DEF RollbackMark
<1>35. ASSUME NEW o \in Ops, RollbackStop(o) PROVE Kept'
  BY <1>35 DEF RollbackStop
<1>36. ASSUME NEW o \in Ops, RollbackClean(o) PROVE Kept'
  BY <1>36 DEF RollbackClean
<1>37. ASSUME NEW o \in Ops, RollbackRun(o) PROVE Kept'
  BY <1>37 DEF RollbackRun
<1>38. ASSUME NEW o \in Ops, RollbackStart(o) PROVE Kept'
  BY <1>38 DEF RollbackStart
<1>39. ASSUME NEW o \in Ops, RollbackProject(o) PROVE Kept'
  BY <1>39 DEF RollbackProject
<1>40. ASSUME NEW o \in Ops, RollbackEnv(o) PROVE Kept'
  BY <1>40 DEF RollbackEnv
<1>41. ASSUME NEW o \in Ops, RollbackErrProject(o) PROVE Kept'
  BY <1>41 DEF RollbackErrProject
<1>42. ASSUME NEW o \in Ops, RollbackErrEnv(o) PROVE Kept'
  BY <1>42 DEF RollbackErrEnv
<1>43. ASSUME NEW o \in Ops, StopNothing(o) PROVE Kept'
  BY <1>43 DEF StopNothing
<1>44. ASSUME NEW o \in Ops, StopRead(o) PROVE Kept'
  BY <1>44 DEF StopRead
<1>45. ASSUME NEW o \in Ops, StopHalt(o) PROVE Kept'
  BY <1>45 DEF StopHalt
<1>46. ASSUME NEW o \in Ops, StopRemove(o) PROVE Kept'
  BY <1>46 DEF StopRemove
<1>47. ASSUME NEW o \in Ops, StopThrows(o) PROVE Kept'
  BY <1>47 DEF StopThrows
<1>48. ASSUME NEW o \in Ops, StopProject(o) PROVE Kept'
  BY <1>48 DEF StopProject
<1>49. ASSUME NEW o \in Ops, StopEnv(o) PROVE Kept'
  BY <1>49 DEF StopEnv
<1>50. ASSUME NEW s \in Ops \cup {None}, AutoRelease(s) PROVE Kept'
  BY <1>50 DEF AutoRelease
<1>51. CASE ReconcilerRead
  BY <1>51 DEF ReconcilerRead
<1>52. CASE ReconcilerInspect
  BY <1>52 DEF ReconcilerInspect
<1>53. CASE TimeoutStuckRecovering
  BY <1>53 DEF TimeoutStuckRecovering
<1>54. CASE Vanish
  BY <1>54 DEF Vanish
<1>55. CASE Exit
  BY <1>55 DEF Exit
<1>56. CASE Crash
  BY <1>56 DEF Crash
<1>57. CASE Restart
  BY <1>57 DEF Restart
<1>58. CASE ExpireLock
  BY <1>58 DEF ExpireLock
<1>59. CASE UNCHANGED vars
  BY <1>59 DEF vars
<1> HIDE
    DEF LockedOnly, TypeOK, Paths, Section, Kept, Untouched, Preserves, InSection, RollbackPCs, DeployPCs, Active, Meddled,
        rows, docker, locals, others, At, Goto, Ends, Publish,
        Gone, MayBeGone, Created, Started, Serving, Forgotten
<1> QED
  BY <1>1, <1>2, <1>3, <1>4, <1>5, <1>6, <1>7, <1>8, <1>9, <1>10, <1>11, <1>12,
     <1>13, <1>14, <1>15, <1>16, <1>17, <1>18, <1>19, <1>20, <1>21, <1>22, <1>23, <1>24,
     <1>25, <1>26, <1>27, <1>28, <1>29, <1>30, <1>31, <1>32, <1>33, <1>34, <1>35, <1>36,
     <1>37, <1>38, <1>39, <1>40, <1>41, <1>42, <1>43, <1>44, <1>45, <1>46, <1>47, <1>48,
     <1>49, <1>50, <1>51, <1>52, <1>53, <1>54, <1>55, <1>56, <1>57, <1>58, <1>59
  DEF Next, OpStep, DeployStep, RollbackStep, StopStep, Listeners, Reconciler

(* Every step keeps somebody at work on a row that says building.          *)
LEMMA NextBuilds ==
  ASSUME LockedOnly, TypeOK, Paths, Section, Kept, Builds, [Next]_vars
  PROVE  Builds'
<1> USE NoneAssumption, MovedLeaves
    DEF LockedOnly, TypeOK, Paths, Section, Builds, InSection, RollbackPCs, DeployPCs, Active,
        rows, docker, locals, others, At, Goto, Ends, Publish,
        Gone, MayBeGone, Created, Started, Serving, Forgotten
<1>1. ASSUME NEW o \in Ops, StartDeploy(o) PROVE Builds'
  BY <1>1 DEF StartDeploy
<1>2. ASSUME NEW o \in Ops, CheckMutable(o) PROVE Builds'
  BY <1>2 DEF CheckMutable
<1>3. ASSUME NEW o \in Ops, Blocked(o) PROVE Builds'
  BY <1>3 DEF Blocked
<1>4. ASSUME NEW o \in Ops, AcquireLock(o) PROVE Builds'
  BY <1>4 DEF AcquireLock
<1>5. ASSUME NEW o \in Ops, LockRefused(o) PROVE Builds'
  BY <1>5 DEF LockRefused
<1>6. ASSUME NEW o \in Ops, EnterBlocked(o) PROVE Builds'
  BY <1>6 DEF EnterBlocked
<1>7. ASSUME NEW o \in Ops, Enter(o) PROVE Builds'
  BY <1>7 DEF Enter
<1>8. ASSUME NEW o \in Ops, MarkEnv(o) PROVE Builds'
  BY <1>8 DEF MarkEnv
<1>9. ASSUME NEW o \in Ops, MarkProject(o) PROVE Builds'
  BY <1>9 DEF MarkProject
<1>10. ASSUME NEW o \in Ops, Build(o) PROVE Builds'
  BY <1>10 DEF Build
<1>11. ASSUME NEW o \in Ops, Cancel(o) PROVE Builds'
  BY <1>11 DEF Cancel
<1>12. ASSUME NEW o \in Ops, Swap(o) PROVE Builds'
  BY <1>12 DEF Swap
<1>13. ASSUME NEW o \in Ops, Run(o) PROVE Builds'
  BY <1>13 DEF Run
<1>14. ASSUME NEW o \in Ops, RunStart(o) PROVE Builds'
  BY <1>14 DEF RunStart
<1>15. ASSUME NEW o \in Ops, Healthy(o) PROVE Builds'
  BY <1>15 DEF Healthy
<1>16. ASSUME NEW o \in Ops, Unhealthy(o) PROVE Builds'
  BY <1>16 DEF Unhealthy
<1>17. ASSUME NEW o \in Ops, SyncRunning(o) PROVE Builds'
  BY <1>17 DEF SyncRunning
<1>18. ASSUME NEW o \in Ops, SyncError(o) PROVE Builds'
  BY <1>18 DEF SyncError
<1>19. ASSUME NEW o \in Ops, RouteVerified(o) PROVE Builds'
  BY <1>19 DEF RouteVerified
<1>20. ASSUME NEW o \in Ops, RouteFailed(o) PROVE Builds'
  BY <1>20 DEF RouteFailed
<1>21. ASSUME NEW o \in Ops, Cleanup(o) PROVE Builds'
  BY <1>21 DEF Cleanup
<1>22. ASSUME NEW o \in Ops, Restore(o) PROVE Builds'
  BY <1>22 DEF Restore
<1>23. ASSUME NEW o \in Ops, RestoreStart(o) PROVE Builds'
  BY <1>23 DEF RestoreStart
<1>24. ASSUME NEW o \in Ops, FailEnv(o) PROVE Builds'
  BY <1>24 DEF FailEnv
<1>25. ASSUME NEW o \in Ops, FailProject(o) PROVE Builds'
  BY <1>25 DEF FailProject
<1>26. ASSUME NEW o \in Ops, FailEmit(o) PROVE Builds'
  BY <1>26 DEF FailEmit
<1>27. ASSUME NEW o \in Ops, CancelEnv(o) PROVE Builds'
  BY <1>27 DEF CancelEnv
<1>28. ASSUME NEW o \in Ops, CancelProject(o) PROVE Builds'
  <2>1. ~swapped[o] /\ Kind[o] = "redeploy"
    BY <1>28 DEF CancelProject, Kept, Preserves
  <2>2. status' = Moved(status, "running")
    BY <1>28, <2>1 DEF CancelProject, StillLive, Preserves
  <2> QED BY <1>28, <2>2 DEF CancelProject
<1>29. ASSUME NEW o \in Ops, CancelEmit(o) PROVE Builds'
  BY <1>29 DEF CancelEmit
<1>30. ASSUME NEW o \in Ops, Release(o) PROVE Builds'
  BY <1>30 DEF Release
<1>31. ASSUME NEW o \in Ops, BgProject(o) PROVE Builds'
  BY <1>31 DEF BgProject
<1>32. ASSUME NEW o \in Ops, BgEnv(o) PROVE Builds'
  BY <1>32 DEF BgEnv
<1>33. ASSUME NEW o \in Ops, RollbackNoImage(o) PROVE Builds'
  BY <1>33 DEF RollbackNoImage
<1>34. ASSUME NEW o \in Ops, RollbackMark(o) PROVE Builds'
  BY <1>34 DEF RollbackMark
<1>35. ASSUME NEW o \in Ops, RollbackStop(o) PROVE Builds'
  BY <1>35 DEF RollbackStop
<1>36. ASSUME NEW o \in Ops, RollbackClean(o) PROVE Builds'
  BY <1>36 DEF RollbackClean
<1>37. ASSUME NEW o \in Ops, RollbackRun(o) PROVE Builds'
  BY <1>37 DEF RollbackRun
<1>38. ASSUME NEW o \in Ops, RollbackStart(o) PROVE Builds'
  BY <1>38 DEF RollbackStart
<1>39. ASSUME NEW o \in Ops, RollbackProject(o) PROVE Builds'
  BY <1>39 DEF RollbackProject
<1>40. ASSUME NEW o \in Ops, RollbackEnv(o) PROVE Builds'
  BY <1>40 DEF RollbackEnv
<1>41. ASSUME NEW o \in Ops, RollbackErrProject(o) PROVE Builds'
  BY <1>41 DEF RollbackErrProject
<1>42. ASSUME NEW o \in Ops, RollbackErrEnv(o) PROVE Builds'
  BY <1>42 DEF RollbackErrEnv
<1>43. ASSUME NEW o \in Ops, StopNothing(o) PROVE Builds'
  BY <1>43 DEF StopNothing
<1>44. ASSUME NEW o \in Ops, StopRead(o) PROVE Builds'
  BY <1>44 DEF StopRead
<1>45. ASSUME NEW o \in Ops, StopHalt(o) PROVE Builds'
  BY <1>45 DEF StopHalt
<1>46. ASSUME NEW o \in Ops, StopRemove(o) PROVE Builds'
  BY <1>46 DEF StopRemove
<1>47. ASSUME NEW o \in Ops, StopThrows(o) PROVE Builds'
  BY <1>47 DEF StopThrows
<1>48. ASSUME NEW o \in Ops, StopProject(o) PROVE Builds'
  BY <1>48 DEF StopProject
<1>49. ASSUME NEW o \in Ops, StopEnv(o) PROVE Builds'
  BY <1>49 DEF StopEnv
<1>50. ASSUME NEW s \in Ops \cup {None}, AutoRelease(s) PROVE Builds'
  BY <1>50 DEF AutoRelease
<1>51. CASE ReconcilerRead
  BY <1>51 DEF ReconcilerRead
<1>52. CASE ReconcilerInspect
  BY <1>52 DEF ReconcilerInspect
<1>53. CASE TimeoutStuckRecovering
  BY <1>53 DEF TimeoutStuckRecovering
<1>54. CASE Vanish
  BY <1>54 DEF Vanish
<1>55. CASE Exit
  BY <1>55 DEF Exit
<1>56. CASE Crash
  BY <1>56 DEF Crash
<1>57. CASE Restart
  BY <1>57 DEF Restart
<1>58. CASE ExpireLock
  BY <1>58 DEF ExpireLock
<1>59. CASE UNCHANGED vars
  BY <1>59 DEF vars
<1> HIDE
    DEF LockedOnly, TypeOK, Paths, Section, Builds, InSection, RollbackPCs, DeployPCs, Active,
        rows, docker, locals, others, At, Goto, Ends, Publish,
        Gone, MayBeGone, Created, Started, Serving, Forgotten
<1> QED
  BY <1>1, <1>2, <1>3, <1>4, <1>5, <1>6, <1>7, <1>8, <1>9, <1>10, <1>11, <1>12,
     <1>13, <1>14, <1>15, <1>16, <1>17, <1>18, <1>19, <1>20, <1>21, <1>22, <1>23, <1>24,
     <1>25, <1>26, <1>27, <1>28, <1>29, <1>30, <1>31, <1>32, <1>33, <1>34, <1>35, <1>36,
     <1>37, <1>38, <1>39, <1>40, <1>41, <1>42, <1>43, <1>44, <1>45, <1>46, <1>47, <1>48,
     <1>49, <1>50, <1>51, <1>52, <1>53, <1>54, <1>55, <1>56, <1>57, <1>58, <1>59
  DEF Next, OpStep, DeployStep, RollbackStep, StopStep, Listeners, Reconciler

(* What holds of every mixture of operations, and what of those that take  *)
(* session-scoped locks.                                                   *)
AlwaysInv == TypeOK /\ Paths /\ Holder /\ Events
LockedInv == AlwaysInv /\ Section /\ Serves /\ Kept /\ Builds

(* The first state has nobody at work and nothing published.               *)
LEMMA InitAll == Init => LockedInv
<1> SUFFICES ASSUME Init PROVE LockedInv OBVIOUS
<1> USE KindAssumption, NoneAssumption, BoundAssumption DEF Init
<1>1. TypeOK
  <2>1. status \in Statuses /\ envStatus \in Statuses \ {"recovering"}
    BY DEF Statuses
  <2>2. {ref, envRef, container} \subseteq Containers \cup {None}
    BY DEF Containers
  <2>3. {halted, foundHalted, up} \subseteq BOOLEAN
    BY Zenon
  <2> QED BY <2>1, <2>2, <2>3 DEF TypeOK, PCs, Results
<1>2. Paths /\ Holder /\ Events
  BY DEF Paths, Holder, Events, RollbackPCs, DeployPCs
<1>3. Section /\ Serves /\ Kept
  BY DEF Section, Serves, Kept, InSection, RollbackPCs, DeployPCs
<1>4. Builds
  BY DEF Builds
<1> QED BY <1>1, <1>2, <1>3, <1>4 DEF LockedInv, AlwaysInv

(* AlwaysInv is inductive, for every mixture of operations.                *)
LEMMA AlwaysInvariant == Spec => []AlwaysInv
<1>1. Init => AlwaysInv
  BY InitAll DEF LockedInv
<1>2. AlwaysInv /\ [Next]_vars => AlwaysInv'
  BY NextTypes, NextPaths, NextHolder, NextEvents DEF AlwaysInv
<1> QED BY <1>1, <1>2, PTL DEF Spec

(* LockedInv is inductive where every operation takes a session-scoped     *)
(* lock.                                                                   *)
LEMMA LockedInvariant ==
  ASSUME LockedOnly
  PROVE  Spec => []LockedInv
<1>1. LockedInv /\ [Next]_vars => LockedInv'
  BY LockedOnly, NextTypes, NextPaths, NextHolder, NextEvents,
     NextSection, NextServes, NextKept, NextBuilds DEF LockedInv, AlwaysInv
<1> QED BY <1>1, InitAll, PTL DEF Spec

(* The rows, the container, the lock and the local state of the operations *)
(* of deploy-core.ts keep their types.                                     *)
THEOREM PipelineTypes == Spec => []TypeOK
BY AlwaysInvariant, PTL DEF AlwaysInv

(* However many deploys, redeploys, rollbacks and stops run, are cancelled *)
(* or die: nobody hears of the end of a deploy twice, and a background     *)
(* deploy that was let in and did not die with the process is heard of.    *)
THEOREM EventsOnce == Spec => []OneTerminalEvent
<1>1. AlwaysInv => OneTerminalEvent
  BY DEF AlwaysInv, Events, OneTerminalEvent
<1> QED BY <1>1, AlwaysInvariant, PTL

(* An operation that returned has given its lock back: only a crash leaves *)
(* a lock behind, whatever the mixture of operations.                      *)
THEOREM LocksNotLeaked == Spec => []LockNotLeaked
<1>1. AlwaysInv => LockNotLeaked
  BY DEF AlwaysInv, Holder, LockNotLeaked, InSection, RollbackPCs, DeployPCs
<1> QED BY <1>1, AlwaysInvariant, PTL

(* A redeploy that reports success while it has the lock serves its own    *)
(* container, for any number of redeploys and rollbacks.                   *)
THEOREM SuccessesAreServed ==
  ASSUME LockedOnly
  PROVE  Spec => []SuccessIsServed
<1>1. LockedInv => SuccessIsServed
  BY DEF LockedInv, Serves, SuccessIsServed
<1> QED BY <1>1, LockedOnly, LockedInvariant, PTL

(* A redeploy that failed or was cancelled leaves a container serving,     *)
(* the one it found or the restored one.                                   *)
THEOREM RedeploysKeepService ==
  ASSUME LockedOnly
  PROVE  Spec => []FailedRedeployKeepsService
<1>1. LockedInv => FailedRedeployKeepsService
  BY DEF LockedInv, AlwaysInv, TypeOK, Kept, Untouched, FailedRedeployKeepsService
<1> QED BY <1>1, LockedOnly, LockedInvariant, PTL

(* Once all has settled neither row says building and no lock is left of   *)
(* an operation that returned.  A project row may still say building where *)
(* the last start of the server found the container there but not running, *)
(* and no deploy has marked the row since.                                 *)
THEOREM SettledProjectsAreClean ==
  ASSUME LockedOnly
  PROVE  Spec => []SettledIsClean
<1>1. LockedInv => SettledIsClean
  <2> SUFFICES ASSUME LockedInv PROVE SettledIsClean OBVIOUS
  <2>1. NotStuckBuilding
    BY DEF LockedInv, Builds, NotStuckBuilding, Quiet, Active
  <2>2. LockNotLeaked
    BY DEF LockedInv, AlwaysInv, Holder, LockNotLeaked, InSection, RollbackPCs, DeployPCs
  <2> QED BY <2>1, <2>2 DEF SettledIsClean
<1> QED BY <1>1, LockedOnly, LockedInvariant, PTL

=============================================================================
