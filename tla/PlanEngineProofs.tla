-------------------------- MODULE PlanEngineProofs --------------------------
(***************************************************************************)
(* Executions of one deploy plan, for any number of tools and direct       *)
(* calls: two of them never carry the plan out at once under sessions of   *)
(* their own, what the row says was carried out was carried out, and an    *)
(* execution past the commit point frees its lock however it ends.         *)
(***************************************************************************)
EXTENDS PlanEngine, TLAPS

(* What the engine's steps keep of their own: where an execution is when   *)
(* it has a lock, a deploy, listeners or the mark of the commit point.     *)
PhaseInv ==
    \A e \in Executors :
        /\ locked[e] => pc[e] \in {"persist", "dispatch", "estimate", "done"}
        /\ deploy[e] # "none" => pc[e] \in {"estimate", "done"}
        /\ pc[e] \in {"dispatch", "estimate"} => plan[e].status = "executing"
        /\ e \in listening \/ inbox[e] # {}
               => pc[e] \in {"estimate", "done"} /\ plan[e].status = "executing"
        /\ e \in took => pc[e] \in {"persist", "dispatch", "estimate", "done"}
        /\ inbox[e] # {} /\ deploy[e] = "running" => e \in disturbed

(* Nobody changes which project a plan attaches to.                        *)
AttachInv ==
    /\ \A e \in Executors : plan[e].attach = row.attach
    /\ update # <<>> => update.attach = row.attach

(* An execution that took the lock and has not ended is the one its row    *)
(* names: nobody else's release or acquire touches it, and its own         *)
(* listeners release it only when they hear of a deploy that is not its    *)
(* own, or of its own end.                                                 *)
HoldInv ==
    \A e \in Executors :
        e \in took \ disturbed /\ OwnSession(e) /\ Carries(e) => lock[LockRow(e)] = Session(e)

(* Where an execution may have a lock.  The lock that the tool takes with  *)
(* a session of its own is on a project of the plan's name, so a plan that *)
(* attaches elsewhere never gets past resolveExecuteTarget with it; past   *)
(* the commit point the lock is the engine's, and after the return only    *)
(* an execution whose listeners are registered still has it.               *)
FreeInv ==
    \A e \in Executors :
        /\ pc[e] \notin {"dispatch", "estimate", "done"} => plan[e].status # "executing"
        /\ locked[e] /\ pc[e] \in {"estimate", "done"} => e \in listening /\ deploy[e] # "none"
        /\ e \in Tools => \A r \in Rows : lock[r] = e =>
              /\ pc[e] # "idle"
              /\ pc[e] \in {"load", "resolve", "lock"} => r = "own" /\ exists
              /\ pc[e] = "lock" => ~plan[e].attach
              /\ pc[e] = "persist" \/ plan[e].status = "executing"
                     => locked[e] /\ r = LockRow(e)

IInv == TypeOK /\ PhaseInv /\ AttachInv /\ HoldInv /\ ExecutedPlanIsRecorded /\ FreeInv

-----------------------------------------------------------------------------
LEMMA InitIInv == Init => IInv
<1> SUFFICES ASSUME Init PROVE IInv
  OBVIOUS
<1>1. row \in Plans /\ row.status \notin {"executing", "completed", "failed"}
  <2>1. PICK m \in BOOLEAN, p \in SUBSET Resources, a \in Attaching : row = PlanOf(m, p, a)
    BY DEF Init
  <2>2. a \in BOOLEAN
    BY PlanBoundAssumption
  <2> QED
    BY <2>1, <2>2 DEF PlanOf, ComputePlanStatus, Plans, PlanStatuses
<1>2. TypeOK
  BY <1>1, PlanBoundAssumption DEF Init, TypeOK, PCs, Rows
<1>3. PhaseInv /\ HoldInv
  BY DEF Init, PhaseInv, HoldInv
<1>4. AttachInv
  BY DEF Init, AttachInv
<1>5. ExecutedPlanIsRecorded
  BY <1>1 DEF ExecutedPlanIsRecorded
<1>6. FreeInv
  BY <1>1, ExecutorAssumption DEF Init, FreeInv
<1> QED
  BY <1>2, <1>3, <1>4, <1>5, <1>6 DEF IInv

-----------------------------------------------------------------------------
LEMMA NextTypes == TypeOK /\ [Next]_vars => TypeOK'
<1> SUFFICES ASSUME TypeOK, [Next]_vars PROVE TypeOK'
  OBVIOUS
<1> USE PlanBoundAssumption, ExecutorAssumption
    DEF TypeOK, Rows, PCs, Outcomes, Disturbs, history
<1>1. ASSUME NEW p \in Plans, NEW s \in PlanStatuses PROVE Marked(p, s) \in Plans
  BY DEF Marked, Plans
<1>2. ASSUME NEW e \in Executors PROVE Session(e) \in Executors \cup {PlanSession} /\ LockRow(e) \in Rows
  BY DEF Session, LockRow
<1>3. ASSUME NEW r \in Rows, NEW s PROVE Unlocked(r, s) \in [Rows -> Executors \cup {PlanSession, None}]
  BY DEF Unlocked
<1>4. ASSUME NEW m \in BOOLEAN, NEW p \in SUBSET Resources, NEW a \in BOOLEAN
      PROVE PlanOf(m, p, a) \in Plans
  BY DEF PlanOf, ComputePlanStatus, Plans, PlanStatuses
<1>5. ASSUME NEW e \in Executors PROVE FreeEngineLock(e) =>
         /\ lock' \in [Rows -> Executors \cup {PlanSession, None}]
         /\ locked' \in [Executors -> BOOLEAN]
  BY <1>2, <1>3 DEF FreeEngineLock
<1>6. ASSUME NEW o \in Outcomes, Deliver(o) PROVE inbox' \in [Executors -> SUBSET Outcomes]
  BY <1>6 DEF Deliver
<1>7. ASSUME NEW e \in Executors, ExecuteStep(e) PROVE TypeOK'
  <2>1. CASE Request(e)
    BY <2>1 DEF Request, Goto, Returns
  <2>2. CASE LoadThrows(e)
    BY <2>2 DEF LoadThrows, Goto, Returns
  <2>3. CASE LoadNeedsApproval(e)
    BY <2>3, <1>3 DEF LoadNeedsApproval, Goto, Returns
  <2>4. CASE Load(e)
    <3>1. Marked(row, "ready") \in Plans /\ row.proposed \in SUBSET Resources
      BY <1>1 DEF Plans, PlanStatuses
    <3> QED
      BY <2>4, <3>1 DEF Load, Goto
  <2>5. CASE TargetConflict(e)
    BY <2>5 DEF TargetConflict, Goto, Returns
  <2>6. CASE Resolve(e)
    BY <2>6 DEF Resolve, Goto
  <2>7. CASE AcquireLock(e)
    BY <2>7, <1>2 DEF AcquireLock, Goto
  <2>8. CASE LockRefused(e)
    BY <2>8 DEF LockRefused, Goto, Returns
  <2>9. CASE Persist(e)
    <3>1. [plan[e] EXCEPT !.status = "executing"] \in Plans
      BY <1>1 DEF Marked, PlanStatuses
    <3>2. plan' \in [Executors -> Plans] /\ row' \in Plans
      BY <2>9, <3>1 DEF Persist
    <3> QED
      BY <2>9, <3>2 DEF Persist, Goto
  <2>10. CASE Dispatch(e)
    BY <2>10 DEF Dispatch, Goto, Returns
  <2>11. CASE DispatchThrows(e)
    BY <2>11, <1>1, <1>5 DEF DispatchThrows, Goto, Returns, PlanStatuses
  <2>12. CASE PreflightFails(e)
    BY <2>12, <1>1, <1>5 DEF PreflightFails, Goto, Returns, PlanStatuses
  <2>13. CASE Estimated(e)
    BY <2>13 DEF Estimated, Goto, Returns
  <2>14. CASE EstimateThrows(e)
    BY <2>14, <1>1, <1>5 DEF EstimateThrows, Goto, Returns, PlanStatuses
  <2> QED
    BY <1>7, <2>1, <2>2, <2>3, <2>4, <2>5, <2>6, <2>7, <2>8, <2>9, <2>10, <2>11, <2>12,
       <2>13, <2>14
    DEF ExecuteStep
<1>8. ASSUME NEW e \in Executors, NEW o \in Outcomes, DeployEnds(e, o) PROVE TypeOK'
  BY <1>8, <1>3, <1>6 DEF DeployEnds
<1>9. ASSUME NEW e \in Executors, NEW o \in Outcomes, Finish(e, o) PROVE TypeOK'
  <2>1. row' \in Plans
    BY <1>9, <1>1 DEF Finish, PlanStatuses
  <2> QED
    BY <1>9, <2>1, <1>5 DEF Finish
<1>10. ASSUME NEW o \in Outcomes, ForeignEnds(o) PROVE TypeOK'
  BY <1>10, <1>6 DEF ForeignEnds
<1>11. CASE UpdateRead
  BY <1>11 DEF UpdateRead
<1>12. CASE UpdateWrite
  <2>1. row' \in Plans
    <3>1. update.attach \in BOOLEAN
      BY <1>12 DEF UpdateWrite, Plans
    <3> QED
      BY <1>12, <3>1, <1>4 DEF UpdateWrite
  <2> QED
    BY <1>12, <2>1 DEF UpdateWrite
<1>13. CASE UpdateThrows
  BY <1>13 DEF UpdateThrows
<1>14. CASE UNCHANGED vars
  BY <1>14 DEF vars
<1> QED
  BY <1>7, <1>8, <1>9, <1>10, <1>11, <1>12, <1>13, <1>14 DEF Next

-----------------------------------------------------------------------------
LEMMA NextPhase == TypeOK /\ PhaseInv /\ [Next]_vars => PhaseInv'
<1> SUFFICES ASSUME TypeOK, PhaseInv, [Next]_vars PROVE PhaseInv'
  OBVIOUS
<1> USE DEF TypeOK, PhaseInv, PCs, Outcomes, Plans, Disturbs, history
<1>1. ASSUME NEW e \in Executors, ExecuteStep(e) PROVE PhaseInv'
  <2>1. CASE Request(e)
    BY <2>1 DEF Request, Goto, Returns
  <2>2. CASE LoadThrows(e)
    BY <2>2 DEF LoadThrows, Goto, Returns
  <2>3. CASE LoadNeedsApproval(e)
    BY <2>3 DEF LoadNeedsApproval, Goto, Returns
  <2>4. CASE Load(e)
    BY <2>4 DEF Load, Goto
  <2>5. CASE TargetConflict(e)
    BY <2>5 DEF TargetConflict, Goto, Returns
  <2>6. CASE Resolve(e)
    BY <2>6 DEF Resolve, Goto
  <2>7. CASE AcquireLock(e)
    BY <2>7 DEF AcquireLock, Goto
  <2>8. CASE LockRefused(e)
    BY <2>8 DEF LockRefused, Goto, Returns
  <2>9. CASE Persist(e)
    BY <2>9 DEF Persist, Goto
  <2>10. CASE Dispatch(e)
    BY <2>10 DEF Dispatch, Goto, Returns
  <2>11. CASE DispatchThrows(e)
    BY <2>11 DEF DispatchThrows, FreeEngineLock, Goto, Returns
  <2>12. CASE PreflightFails(e)
    BY <2>12 DEF PreflightFails, FreeEngineLock, Goto, Returns
  <2>13. CASE Estimated(e)
    BY <2>13 DEF Estimated, Goto, Returns
  <2>14. CASE EstimateThrows(e)
    BY <2>14 DEF EstimateThrows, FreeEngineLock, Goto, Returns
  <2> QED
    BY <1>1, <2>1, <2>2, <2>3, <2>4, <2>5, <2>6, <2>7, <2>8, <2>9, <2>10, <2>11, <2>12,
       <2>13, <2>14
    DEF ExecuteStep
<1>2. ASSUME NEW e \in Executors, NEW o \in Outcomes, DeployEnds(e, o) PROVE PhaseInv'
  BY <1>2 DEF DeployEnds, Deliver
<1>3. ASSUME NEW e \in Executors, NEW o \in Outcomes, Finish(e, o) PROVE PhaseInv'
  BY <1>3 DEF Finish, FreeEngineLock
<1>4. ASSUME NEW o \in Outcomes, ForeignEnds(o) PROVE PhaseInv'
  BY <1>4 DEF ForeignEnds, Deliver
<1>5. CASE UpdateRead \/ UpdateWrite \/ UpdateThrows \/ UNCHANGED vars
  BY <1>5 DEF UpdateRead, UpdateWrite, UpdateThrows, vars
<1> QED
  BY <1>1, <1>2, <1>3, <1>4, <1>5 DEF Next

-----------------------------------------------------------------------------
LEMMA NextAttach == TypeOK /\ AttachInv /\ [Next]_vars => AttachInv'
<1> SUFFICES ASSUME TypeOK, AttachInv, [Next]_vars PROVE AttachInv'
  OBVIOUS
<1>1. row \in Plans /\ plan \in [Executors -> Plans]
  BY DEF TypeOK
<1>2. ASSUME NEW p \in Plans, NEW s PROVE Marked(p, s).attach = p.attach
  BY DEF Marked, Plans
<1>3. ASSUME NEW m, NEW p, NEW a PROVE PlanOf(m, p, a).attach = a
  BY DEF PlanOf
<1>4. ASSUME NEW e \in Executors, ExecuteStep(e) PROVE AttachInv'
  <2>1. CASE Load(e)
    BY <2>1, <1>1, <1>2 DEF Load, AttachInv
  <2>2. CASE Persist(e)
    <3>1. [plan[e] EXCEPT !.status = "executing"].attach = plan[e].attach
      BY <1>1 DEF Plans
    <3>2. /\ plan'[e].attach = row.attach /\ row'.attach = row.attach
          /\ \A f \in Executors : plan'[f].attach = plan[f].attach
          /\ update' = update
      BY <2>2, <1>1, <3>1 DEF Persist, AttachInv
    <3> QED
      BY <3>2 DEF AttachInv
  <2>3. CASE DispatchThrows(e) \/ PreflightFails(e) \/ EstimateThrows(e)
    <3>1. row'.attach = row.attach /\ UNCHANGED <<plan, update>>
      BY <2>3, <1>1, <1>2 DEF DispatchThrows, PreflightFails, EstimateThrows, AttachInv
    <3> QED
      BY <3>1 DEF AttachInv
  <2>4. CASE UNCHANGED <<row, plan, update>>
    BY <2>4 DEF AttachInv
  <2> QED
    BY <1>4, <2>1, <2>2, <2>3, <2>4
    DEF ExecuteStep, Request, LoadThrows, LoadNeedsApproval, TargetConflict, Resolve,
        AcquireLock, LockRefused, Dispatch, Estimated
<1>5. ASSUME NEW e \in Executors, NEW o \in Outcomes, Finish(e, o) PROVE AttachInv'
  <2>1. row'.attach = row.attach /\ UNCHANGED <<plan, update>>
    BY <1>5, <1>1, <1>2 DEF Finish, AttachInv
  <2> QED
    BY <2>1 DEF AttachInv
<1>6. CASE UpdateWrite
  BY <1>6, <1>3 DEF UpdateWrite, AttachInv
<1>7. CASE UpdateRead \/ UpdateThrows
  BY <1>7 DEF UpdateRead, UpdateThrows, AttachInv
<1>8. CASE UNCHANGED <<row, plan, update>>
  BY <1>8 DEF AttachInv
<1> QED
  BY <1>4, <1>5, <1>6, <1>7, <1>8 DEF Next, DeployEnds, ForeignEnds, vars

-----------------------------------------------------------------------------
(* The lock of an execution with a session of its own: every other step    *)
(* takes only a free lock or the one its own session has, and releases     *)
(* only what its own session has.                                          *)
LEMMA NextHold == TypeOK /\ PhaseInv /\ HoldInv /\ [Next]_vars => HoldInv'
<1> SUFFICES ASSUME TypeOK, PhaseInv, HoldInv, [Next]_vars,
                    NEW f \in Executors, OwnSession(f),
                    f \in took', f \notin disturbed', Carries(f)'
             PROVE  (lock[LockRow(f)] = Session(f))'
  BY DEF HoldInv, OwnSession, Session
<1> DEFINE Mine == f \in took /\ f \notin disturbed /\ Carries(f)
<1> USE DEF PCs, history
<1>0. /\ lock \in [Rows -> Executors \cup {PlanSession, None}]
      /\ pc \in [Executors -> PCs] /\ plan \in [Executors -> Plans]
      /\ deploy \in [Executors -> {"none", "running", "ended"}]
  BY DEF TypeOK
<1>1. /\ LockRow(f) \in Rows
      /\ Session(f) # None
      /\ \A e \in Executors : e # f => Session(e) # Session(f)
  BY ExecutorAssumption DEF OwnSession, Session, LockRow, Rows
<1>2. /\ f \in took => pc[f] \in {"persist", "dispatch", "estimate", "done"}
      /\ deploy[f] # "none" => pc[f] \in {"estimate", "done"}
      /\ inbox[f] # {} => pc[f] \in {"estimate", "done"}
      /\ inbox[f] # {} /\ deploy[f] = "running" => f \in disturbed
      /\ Mine => lock[LockRow(f)] = Session(f)
  BY DEF PhaseInv, HoldInv
<1>3. ASSUME plan'[f].attach = plan[f].attach, lock'[LockRow(f)] = Session(f)
      PROVE  (lock[LockRow(f)] = Session(f))'
  BY <1>3 DEF LockRow, Session
<1>4. ASSUME NEW e \in Executors, e # f, NEW r \in Rows, Mine
      PROVE  Unlocked(r, Session(e))[LockRow(f)] = Session(f)
  BY <1>0, <1>1, <1>2, <1>4 DEF Unlocked
<1>5. ASSUME NEW e \in Executors, ExecuteStep(e)
      PROVE  (lock[LockRow(f)] = Session(f))'
  <2>1. CASE Request(e)
    <3>1. Mine /\ plan' = plan
      BY <2>1, <1>0, <1>2 DEF Request, Goto, Returns, Carries
    <3>2. lock'[LockRow(f)] = Session(f)
      BY <2>1, <3>1, <1>0, <1>1, <1>2 DEF Request, Rows
    <3> QED
      BY <3>1, <3>2, <1>3
  <2>2. CASE LoadNeedsApproval(e)
    <3>1. Mine /\ plan' = plan /\ e # f
      BY <2>2, <1>0, <1>2 DEF LoadNeedsApproval, Goto, Returns, Carries
    <3>2. lock'[LockRow(f)] = Session(f)
      <4>1. CASE e \in Tools
        BY <4>1, <2>2, <3>1, <1>4 DEF LoadNeedsApproval, Session, Rows
      <4>2. CASE e \notin Tools
        BY <4>2, <2>2, <3>1, <1>2 DEF LoadNeedsApproval
      <4> QED
        BY <4>1, <4>2
    <3> QED
      BY <3>1, <3>2, <1>3
  <2>3. CASE Load(e)
    <3>1. Mine /\ lock' = lock /\ e # f
      BY <2>3, <1>0, <1>2 DEF Load, Goto, Carries
    <3>2. plan'[f].attach = plan[f].attach
      BY <2>3, <3>1, <1>0 DEF Load
    <3> QED
      BY <3>1, <3>2, <1>2, <1>3
  <2>4. CASE AcquireLock(e)
    <3>1. plan' = plan /\ LockRow(e) \in Rows
      BY <2>4 DEF AcquireLock, LockRow, Rows
    <3>2. lock'[LockRow(f)] = Session(f)
      <4>1. CASE e = f
        BY <4>1, <2>4, <1>0, <1>1 DEF AcquireLock
      <4>2. CASE e # f
        <5>1. Mine
          BY <4>2, <2>4, <1>0 DEF AcquireLock, Goto, Carries
        <5> QED
          BY <5>1, <4>2, <3>1, <2>4, <1>0, <1>1, <1>2 DEF AcquireLock
      <4> QED
        BY <4>1, <4>2
    <3> QED
      BY <3>1, <3>2, <1>3
  <2>5. CASE Persist(e)
    <3>1. Mine /\ lock' = lock
      BY <2>5, <1>0 DEF Persist, Goto, Carries
    <3>2. [plan[e] EXCEPT !.status = "executing"].attach = plan[e].attach
      BY <1>0 DEF Plans
    <3>3. plan'[f].attach = plan[f].attach
      BY <2>5, <3>2, <1>0 DEF Persist
    <3> QED
      BY <3>1, <3>3, <1>2, <1>3
  <2>6. CASE Dispatch(e) \/ Estimated(e)
    <3>1. Mine /\ lock' = lock /\ plan' = plan
      BY <2>6, <1>0 DEF Dispatch, Estimated, Goto, Returns, Carries
    <3> QED
      BY <3>1, <1>2, <1>3
  <2>7. CASE DispatchThrows(e) \/ PreflightFails(e) \/ EstimateThrows(e)
    <3>1. e # f
      BY <2>7, <1>0, <1>2
      DEF DispatchThrows, PreflightFails, EstimateThrows, Goto, Returns, Carries
    <3>2. Mine /\ plan' = plan /\ LockRow(e) \in Rows /\ FreeEngineLock(e)
      BY <2>7, <3>1, <1>0
      DEF DispatchThrows, PreflightFails, EstimateThrows, Goto, Returns, Carries, LockRow, Rows
    <3>3. lock'[LockRow(f)] = Session(f)
      BY <3>1, <3>2, <1>2, <1>4 DEF FreeEngineLock
    <3> QED
      BY <3>2, <3>3, <1>3
  <2>8. CASE LoadThrows(e) \/ TargetConflict(e) \/ Resolve(e) \/ LockRefused(e)
    <3>1. pc[e] \in {"load", "resolve", "lock"}
      BY <2>8 DEF LoadThrows, TargetConflict, Resolve, LockRefused
    <3>2. UNCHANGED <<lock, plan, deploy, took, disturbed>>
      BY <2>8 DEF LoadThrows, TargetConflict, Resolve, LockRefused
    <3>3. e # f /\ \A g \in Executors : g # e => pc'[g] = pc[g]
      BY <2>8, <3>1, <3>2, <1>0, <1>2
      DEF LoadThrows, TargetConflict, Resolve, LockRefused, Goto, Returns
    <3> QED
      BY <3>2, <3>3, <1>2, <1>3 DEF Carries
  <2> QED
    BY <1>5, <2>1, <2>2, <2>3, <2>4, <2>5, <2>6, <2>7, <2>8 DEF ExecuteStep
<1>6. ASSUME NEW e \in Executors, NEW o \in Outcomes, DeployEnds(e, o)
      PROVE  (lock[LockRow(f)] = Session(f))'
  <2>1. Mine /\ plan' = plan /\ e # f
    BY <1>6, <1>0, <1>2 DEF DeployEnds, Disturbs, Carries
  <2>2. lock'[LockRow(f)] = Session(f)
    BY <1>6, <2>1, <1>2, <1>4 DEF DeployEnds, Rows
  <2> QED
    BY <2>1, <2>2, <1>3
<1>7. ASSUME NEW e \in Executors, NEW o \in Outcomes, Finish(e, o)
      PROVE  (lock[LockRow(f)] = Session(f))'
  <2>1. Mine /\ plan' = plan /\ LockRow(e) \in Rows /\ e # f
    BY <1>7, <1>0, <1>2 DEF Finish, Carries, LockRow, Rows
  <2>2. lock'[LockRow(f)] = Session(f)
    BY <1>7, <2>1, <1>2, <1>4 DEF Finish, FreeEngineLock
  <2> QED
    BY <2>1, <2>2, <1>3
<1>8. CASE UNCHANGED <<lock, pc, plan, deploy, took>> /\ disturbed \subseteq disturbed'
  BY <1>8, <1>2, <1>3 DEF Carries
<1> QED
  BY <1>5, <1>6, <1>7, <1>8
  DEF Next, ForeignEnds, Disturbs, UpdateRead, UpdateWrite, UpdateThrows, vars

-----------------------------------------------------------------------------
(* Who has carried the plan out keeps the copy it carried out, so the      *)
(* witness of a recorded status remains one until the row is written.      *)
LEMMA NextRecorded ==
    TypeOK /\ PhaseInv /\ ExecutedPlanIsRecorded /\ [Next]_vars => ExecutedPlanIsRecorded'
<1> SUFFICES ASSUME TypeOK, PhaseInv, ExecutedPlanIsRecorded, [Next]_vars
             PROVE  ExecutedPlanIsRecorded'
  OBVIOUS
<1> DEFINE Witness(e) == pc[e] \in {"dispatch", "estimate", "done"} /\ plan[e].status = "executing"
<1>0. row \in Plans /\ plan \in [Executors -> Plans] /\ pc \in [Executors -> PCs]
  BY DEF TypeOK
<1>1. ASSUME NEW p \in Plans, NEW s \in PlanStatuses
      PROVE  Marked(p, Marked(p, s).status) = Marked(p, s)
  BY DEF Marked, Plans
<1>2. ASSUME row' = row,
             \A e \in Executors : Witness(e) => Witness(e)' /\ plan'[e] = plan[e]
      PROVE  ExecutedPlanIsRecorded'
  BY <1>2 DEF ExecutedPlanIsRecorded, Marked
<1>3. ASSUME NEW e \in Executors, NEW s \in PlanStatuses, row' = Marked(plan[e], s),
             Witness(e)', plan' = plan
      PROVE  ExecutedPlanIsRecorded'
  BY <1>3, <1>0, <1>1 DEF ExecutedPlanIsRecorded, Marked
<1>4. ASSUME NEW e \in Executors, ExecuteStep(e) PROVE ExecutedPlanIsRecorded'
  <2>1. CASE Load(e)
    BY <2>1, <1>0, <1>2 DEF Load, Goto
  <2>2. CASE Persist(e)
    <3>1. /\ [plan[e] EXCEPT !.status = "executing"].status = "executing"
          /\ Marked([plan[e] EXCEPT !.status = "executing"], "executing")
               = [plan[e] EXCEPT !.status = "executing"]
      BY <1>0 DEF Plans, Marked
    <3>2. /\ row' = plan'[e] /\ plan'[e].status = "executing" /\ pc'[e] = "dispatch"
          /\ Marked(plan'[e], "executing") = plan'[e]
      BY <2>2, <1>0, <3>1 DEF Persist, Goto
    <3> QED
      BY <3>2 DEF ExecutedPlanIsRecorded, Marked
  <2>3. CASE DispatchThrows(e) \/ PreflightFails(e) \/ EstimateThrows(e)
    <3>1. Witness(e)' /\ plan' = plan /\ row' = Marked(plan[e], "failed")
      BY <2>3, <1>0 DEF DispatchThrows, PreflightFails, EstimateThrows, Returns, Goto, PhaseInv
    <3> QED
      BY <3>1, <1>3 DEF PlanStatuses
  <2>4. CASE Dispatch(e) \/ Estimated(e)
    BY <2>4, <1>0, <1>2 DEF Dispatch, Estimated, Returns, Goto
  <2>5. CASE \/ Request(e) \/ LoadThrows(e) \/ LoadNeedsApproval(e) \/ TargetConflict(e)
             \/ Resolve(e) \/ AcquireLock(e) \/ LockRefused(e)
    <3>1. /\ pc[e] \in {"idle", "load", "resolve", "lock"}
          /\ UNCHANGED <<row, plan>>
          /\ \A f \in Executors : f # e => pc'[f] = pc[f]
      BY <2>5, <1>0
      DEF Request, LoadThrows, LoadNeedsApproval, TargetConflict, Resolve, AcquireLock,
          LockRefused, Returns, Goto
    <3> QED
      BY <3>1, <1>2
  <2> QED
    BY <1>4, <2>1, <2>2, <2>3, <2>4, <2>5 DEF ExecuteStep
<1>5. ASSUME NEW e \in Executors, NEW o \in Outcomes, Finish(e, o)
      PROVE  ExecutedPlanIsRecorded'
  <2>1. PICK s \in {"completed", "failed"} : row' = Marked(plan[e], s)
    BY <1>5 DEF Finish
  <2>2. Witness(e)' /\ plan' = plan
    BY <1>5 DEF Finish, PhaseInv
  <2> QED
    BY <2>1, <2>2, <1>3 DEF PlanStatuses
<1>6. CASE UpdateWrite
  BY <1>6 DEF UpdateWrite, PlanOf, ComputePlanStatus, ExecutedPlanIsRecorded
<1>7. CASE UNCHANGED <<row, pc, plan>>
  BY <1>7, <1>2
<1> QED
  BY <1>4, <1>5, <1>6, <1>7
  DEF Next, DeployEnds, ForeignEnds, UpdateRead, UpdateThrows, vars

-----------------------------------------------------------------------------
(* The lock of f after a step of somebody else, and after one of its own.  *)
LEMMA NextFree == TypeOK /\ PhaseInv /\ FreeInv /\ [Next]_vars => FreeInv'
<1> DEFINE FreeOf(e) ==
        /\ pc[e] \notin {"dispatch", "estimate", "done"} => plan[e].status # "executing"
        /\ locked[e] /\ pc[e] \in {"estimate", "done"} => e \in listening /\ deploy[e] # "none"
        /\ e \in Tools => \A r \in Rows : lock[r] = e =>
              /\ pc[e] # "idle"
              /\ pc[e] \in {"load", "resolve", "lock"} => r = "own" /\ exists
              /\ pc[e] = "lock" => ~plan[e].attach
              /\ pc[e] = "persist" \/ plan[e].status = "executing"
                     => locked[e] /\ r = LockRow(e)
<1> SUFFICES ASSUME TypeOK, PhaseInv, FreeInv, [Next]_vars, NEW f \in Executors
             PROVE  FreeOf(f)'
  BY DEF FreeInv
<1>0. /\ lock \in [Rows -> Executors \cup {PlanSession, None}]
      /\ pc \in [Executors -> PCs] /\ plan \in [Executors -> Plans]
      /\ locked \in [Executors -> BOOLEAN]
      /\ deploy \in [Executors -> {"none", "running", "ended"}]
      /\ \A e \in Executors : LockRow(e) \in Rows
  BY DEF TypeOK, LockRow, Rows
<1>1. FreeOf(f)
  BY DEF FreeInv
<1>2. /\ locked[f] => pc[f] \in {"persist", "dispatch", "estimate", "done"}
      /\ deploy[f] # "none" => pc[f] \in {"estimate", "done"}
      /\ pc[f] \in {"dispatch", "estimate"} => plan[f].status = "executing"
      /\ inbox[f] # {} => pc[f] \in {"estimate", "done"} /\ plan[f].status = "executing"
  BY DEF PhaseInv
<1>3. f \in Tools => /\ f # None /\ Session(f) = f
                     /\ \A e \in Executors : e # f => Session(e) # f
  BY ExecutorAssumption DEF Session
<1>4. ASSUME NEW r \in Rows, NEW s, NEW q \in Rows, f \in Tools, Unlocked(r, s)[q] = f
      PROVE  lock[q] = f /\ (s = f => q # r)
  BY <1>0, <1>3, <1>4 DEF Unlocked
<1>5. ASSUME pc'[f] = pc[f], plan'[f] = plan[f], locked'[f] = locked[f],
             deploy[f] # "none" => deploy'[f] # "none",
             f \in listening => f \in listening', exists => exists',
             f \in Tools => \A r \in Rows : lock'[r] = f => lock[r] = f
      PROVE  FreeOf(f)'
  BY <1>1, <1>5 DEF LockRow
<1>6. ASSUME NEW e \in Executors, FreeEngineLock(e), NEW q \in Rows, f \in Tools, lock'[q] = f
      PROVE  lock[q] = f
  BY <1>0, <1>4, <1>6 DEF FreeEngineLock
<1>7. ASSUME NEW e \in Executors, ExecuteStep(e), e # f
      PROVE  FreeOf(f)'
  <2>1. /\ pc'[f] = pc[f] /\ plan'[f] = plan[f] /\ locked'[f] = locked[f]
        /\ deploy'[f] = deploy[f]
    BY <1>0, <1>7
    DEF ExecuteStep, Request, LoadThrows, LoadNeedsApproval, Load, TargetConflict, Resolve,
        AcquireLock, LockRefused, Persist, Dispatch, DispatchThrows, PreflightFails,
        Estimated, EstimateThrows, FreeEngineLock, Returns, Goto
  <2>2. f \in listening => f \in listening'
    BY <1>7
    DEF ExecuteStep, Request, LoadThrows, LoadNeedsApproval, Load, TargetConflict, Resolve,
        AcquireLock, LockRefused, Persist, Dispatch, DispatchThrows, PreflightFails,
        Estimated, EstimateThrows
  <2>4. exists => exists'
    <3>1. CASE Resolve(e)
      BY <3>1, Zenon DEF Resolve
    <3>2. CASE Dispatch(e)
      BY <3>2, Zenon DEF Dispatch
    <3>3. CASE exists' = exists
      BY <3>3
    <3> QED
      BY <1>7, <3>1, <3>2, <3>3
      DEF ExecuteStep, Request, LoadThrows, LoadNeedsApproval, Load, TargetConflict,
          AcquireLock, LockRefused, Persist, DispatchThrows, PreflightFails,
          Estimated, EstimateThrows
  <2>3. ASSUME f \in Tools, NEW r \in Rows, lock'[r] = f PROVE lock[r] = f
    <3>1. CASE Request(e)
      BY <3>1, <2>3, <1>0, <1>7 DEF Request, Rows
    <3>2. CASE LoadNeedsApproval(e)
      BY <3>2, <2>3, <1>4 DEF LoadNeedsApproval, Rows
    <3>3. CASE AcquireLock(e)
      BY <3>3, <2>3, <1>0, <1>3, <1>7 DEF AcquireLock
    <3>4. CASE DispatchThrows(e) \/ PreflightFails(e) \/ EstimateThrows(e)
      BY <3>4, <2>3, <1>6 DEF DispatchThrows, PreflightFails, EstimateThrows
    <3>5. CASE UNCHANGED lock
      BY <3>5, <2>3
    <3> QED
      BY <1>7, <3>1, <3>2, <3>3, <3>4, <3>5
      DEF ExecuteStep, LoadThrows, Load, TargetConflict, Resolve, LockRefused, Persist,
          Dispatch, Estimated
  <2> QED
    BY <2>1, <2>2, <2>3, <2>4, <1>5
<1>8. ASSUME ExecuteStep(f) PROVE FreeOf(f)'
  <2>1. CASE Request(f)
    <3>1. /\ pc[f] = "idle" /\ pc'[f] \in {"load", "done"} /\ ~locked[f]
          /\ UNCHANGED <<exists, plan, locked>>
      BY <2>1, <1>0, <1>2 DEF Request, Returns, Goto
    <3>2. \A r \in Rows : f \in Tools /\ lock'[r] = f => r = "own" /\ exists
      BY <2>1, <3>1, <1>0, <1>1 DEF Request, Rows
    <3> QED BY <3>1, <3>2, <1>1
  <2>2. CASE LoadThrows(f)
    BY <2>2, <1>0, <1>1, <1>2 DEF LoadThrows, Returns, Goto, PCs
  <2>3. CASE LoadNeedsApproval(f)
    <3>1. /\ pc'[f] = "done" /\ plan' = plan /\ locked' = locked /\ ~locked[f]
          /\ plan[f].status # "executing"
      BY <2>3, <1>0, <1>1, <1>2 DEF LoadNeedsApproval, Returns, Goto, PCs
    <3> QED BY <3>1
  <2>4. CASE Load(f)
    <3>1. Marked(row, "ready").status = "ready"
      BY DEF TypeOK, Marked, Plans
    <3>2. /\ pc'[f] = "resolve" /\ plan'[f].status = "ready" /\ locked' = locked
          /\ lock' = lock /\ exists' = exists
      BY <2>4, <3>1, <1>0 DEF Load, Goto
    <3>3. pc[f] = "load"
      BY <2>4 DEF Load
    <3> QED BY <3>2, <3>3, <1>1
  <2>5. CASE TargetConflict(f)
    BY <2>5, <1>0, <1>1, <1>2 DEF TargetConflict, Returns, Goto, PCs
  <2>6. CASE Resolve(f)
    <3>1. /\ pc[f] = "resolve" /\ ~(plan[f].attach /\ exists)
          /\ pc'[f] = IF plan[f].attach \/ exists' THEN "lock" ELSE "persist"
          /\ exists => exists'
          /\ UNCHANGED <<lock, plan, locked>>
      BY <2>6, <1>0 DEF Resolve, Goto
    <3>2. plan'[f].status # "executing" /\ ~locked[f]
      BY <3>1, <1>1, <1>2
    <3>3. \A r \in Rows : f \in Tools /\ lock'[r] = f => r = "own" /\ exists
      BY <3>1, <1>1
    <3> QED BY <3>1, <3>2, <3>3
  <2>7. CASE AcquireLock(f)
    <3>1. /\ pc[f] = "lock" /\ pc'[f] = "persist" /\ plan' = plan /\ locked'[f]
          /\ LockRow(f)' = LockRow(f)
      BY <2>7, <1>0 DEF AcquireLock, Goto, LockRow
    <3>2. ASSUME f \in Tools, NEW r \in Rows, lock'[r] = f PROVE r = LockRow(f)
      <4> SUFFICES ASSUME r # LockRow(f) PROVE FALSE
        OBVIOUS
      <4>1. lock[r] = f
        BY <2>7, <3>2, <1>0 DEF AcquireLock
      <4>2. r = "own" /\ ~plan[f].attach
        BY <4>1, <3>1, <3>2, <1>1
      <4> QED BY <4>2 DEF LockRow
    <3> QED BY <3>1, <3>2, <1>1
  <2>8. CASE LockRefused(f)
    BY <2>8, <1>0, <1>1, <1>2 DEF LockRefused, Returns, Goto, PCs
  <2>9. CASE Persist(f)
    <3>1. [plan[f] EXCEPT !.status = "executing"].attach = plan[f].attach
      BY <1>0 DEF Plans
    <3>2. /\ pc[f] = "persist" /\ pc'[f] = "dispatch" /\ LockRow(f)' = LockRow(f)
          /\ UNCHANGED <<lock, locked>>
      BY <2>9, <3>1, <1>0 DEF Persist, Goto, LockRow
    <3> QED BY <3>2, <1>1
  <2>10. CASE Dispatch(f)
    <3>1. /\ pc[f] = "dispatch" /\ pc'[f] = "estimate"
          /\ f \in listening' /\ deploy'[f] # "none"
          /\ LockRow(f)' = LockRow(f) /\ UNCHANGED <<plan, lock, locked>>
      BY <2>10, <1>0 DEF Dispatch, Goto, LockRow
    <3> QED BY <3>1, <1>1, <1>2
  <2>12. CASE Estimated(f)
    <3>1. /\ pc[f] = "estimate" /\ pc'[f] = "done"
          /\ LockRow(f)' = LockRow(f) /\ UNCHANGED <<plan, lock, locked, deploy, listening>>
      BY <2>12, <1>0 DEF Estimated, Returns, Goto, LockRow
    <3> QED BY <3>1, <1>1, <1>2
  <2>11. CASE DispatchThrows(f) \/ PreflightFails(f) \/ EstimateThrows(f)
    <3>1. /\ pc[f] \in {"dispatch", "estimate"} /\ pc'[f] = "done" /\ FreeEngineLock(f)
      BY <2>11, <1>0 DEF DispatchThrows, PreflightFails, EstimateThrows, Returns, Goto
    <3>2. ~locked'[f]
      BY <3>1, <1>0 DEF FreeEngineLock
    <3>3. ASSUME f \in Tools, NEW r \in Rows, lock'[r] = f PROVE FALSE
      <4>1. lock[r] = f
        BY <3>1, <3>3, <1>6
      <4>2. locked[f] /\ r = LockRow(f)
        BY <4>1, <3>1, <3>3, <1>1, <1>2
      <4> QED BY <4>2, <3>1, <3>3, <1>0, <1>3, <1>4 DEF FreeEngineLock
    <3> QED BY <3>1, <3>2, <3>3
  <2> QED
    BY <1>8, <2>1, <2>2, <2>3, <2>4, <2>5, <2>6, <2>7, <2>8, <2>9, <2>10, <2>11, <2>12
    DEF ExecuteStep
<1>9. ASSUME NEW e \in Executors, NEW o \in Outcomes, DeployEnds(e, o) PROVE FreeOf(f)'
  <2>1. ASSUME f \in Tools, NEW r \in Rows, lock'[r] = f PROVE lock[r] = f
    BY <1>9, <2>1, <1>4 DEF DeployEnds, Rows
  <2> QED BY <1>9, <2>1, <1>0, <1>5 DEF DeployEnds
<1>10. ASSUME NEW e \in Executors, NEW o \in Outcomes, Finish(e, o) PROVE FreeOf(f)'
  <2>1. CASE e # f
    BY <1>10, <2>1, <1>0, <1>5, <1>6 DEF Finish, FreeEngineLock
  <2>2. CASE e = f
    <3>1. pc[f] \in {"estimate", "done"} /\ plan[f].status = "executing" /\ FreeEngineLock(f)
          /\ pc' = pc /\ plan' = plan
      BY <1>10, <2>2, <1>2 DEF Finish
    <3>2. ~locked'[f]
      BY <3>1, <1>0 DEF FreeEngineLock
    <3>3. ASSUME f \in Tools, NEW r \in Rows, lock'[r] = f PROVE FALSE
      <4>1. lock[r] = f
        BY <3>1, <3>3, <1>6
      <4>2. locked[f] /\ r = LockRow(f)
        BY <4>1, <3>1, <3>3, <1>1
      <4> QED BY <4>2, <3>1, <3>3, <1>0, <1>3, <1>4 DEF FreeEngineLock
    <3> QED BY <3>1, <3>2, <3>3
  <2> QED BY <2>1, <2>2
<1>11. CASE UNCHANGED <<exists, lock, pc, plan, locked, deploy, listening>>
  BY <1>11, <1>5
<1> QED
  BY <1>7, <1>8, <1>9, <1>10, <1>11
  DEF Next, ForeignEnds, UpdateRead, UpdateWrite, UpdateThrows, vars

-----------------------------------------------------------------------------
(* Everything above holds in every reachable state.                        *)
LEMMA Invariance == Spec => []IInv
<1>1. Init => IInv
  BY InitIInv
<1>2. IInv /\ [Next]_vars => IInv'
  BY NextTypes, NextPhase, NextAttach, NextHold, NextRecorded, NextFree DEF IInv
<1> QED
  BY <1>1, <1>2, PTL DEF Spec

(* Types, for any executors, resources and bounds: the row always holds a  *)
(* plan with a status of engine.ts.                                        *)
THEOREM PlanTypes == Spec => []TypeOK
<1>1. IInv => TypeOK
  BY DEF IInv
<1> QED
  BY <1>1, Invariance, PTL

(* A row that says executing, completed or failed holds the plan that some *)
(* execution carried out, whatever updates and other executions wrote.     *)
THEOREM RecordedPlans == Spec => []ExecutedPlanIsRecorded
<1>1. IInv => ExecutedPlanIsRecorded
  BY DEF IInv
<1> QED
  BY <1>1, Invariance, PTL

(* Two executions that took the lock under sessions of their own carry the *)
(* plan out at once only if the listeners of one of them heard another     *)
(* deploy of the project end, or its call failed after the dispatch, while *)
(* its own deploy ran: both attach to the same project, and until then     *)
(* each still has the lock it took, so it would be the same lock.          *)
THEOREM ExecutionsExclude == Spec => []ExclusiveExecution
<1>1. IInv => ExclusiveExecution
  <2> SUFFICES ASSUME IInv, NEW e \in took \ disturbed, NEW f \in took \ disturbed,
                      e # f, OwnSession(e), OwnSession(f), Carries(e), Carries(f)
               PROVE  FALSE
    BY DEF ExclusiveExecution
  <2>1. e \in Executors /\ f \in Executors /\ Session(e) # Session(f)
    BY DEF IInv, TypeOK, OwnSession
  <2>2. LockRow(e) = LockRow(f)
    BY <2>1 DEF IInv, AttachInv, LockRow
  <2>3. lock[LockRow(e)] = Session(e) /\ lock[LockRow(f)] = Session(f)
    BY <2>1 DEF IInv, HoldInv
  <2> QED
    BY <2>1, <2>2, <2>3
<1> QED
  BY <1>1, Invariance, PTL

(* An execution past the commit point that is over holds no lock any more, *)
(* neither the engine's nor the one its tool took for it, whichever of     *)
(* success, failure, preflight and exceptions ended it.                    *)
THEOREM LocksAreFreed == Spec => []CommittedFreesLock
<1>1. IInv => CommittedFreesLock
  BY DEF IInv, PhaseInv, FreeInv, TypeOK, CommittedFreesLock
<1> QED
  BY <1>1, Invariance, PTL
=============================================================================
