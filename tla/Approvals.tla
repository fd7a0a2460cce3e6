----------------------------- MODULE Approvals -----------------------------
(***************************************************************************)
(* Destructive actions an MCP client asks for: the action_runs ledger, the *)
(* human's approve and reject, the agent's continuation after a permission *)
(* was granted, and the executor they share (src/mcp/destructive-*.ts,     *)
(* app-cleanup.ts, src/db/repos/action-run.repo.ts).                       *)
(*                                                                         *)
(* Every database call is an await, so requests of several people and      *)
(* agents interleave between them; only one UPDATE is atomic.  The process *)
(* may die anywhere, and also during the sweep at its next start.          *)
(***************************************************************************)
EXTENDS Integers, FiniteSets

CONSTANTS
  Runs,       \* the requests that may be held for approval
  Services,
  Roots,      \* the services each request is about
  Named,      \* those among them whose permission its executor looks at
  Batch,      \* cleanup_apps requests: one service after the other
  WebOnly,    \* requests a permission can never release (archive and others)
  Reviewers,  \* people with the approval page open
  Agents,     \* MCP clients
  MaxChanges, \* permission changes
  MaxFaults,  \* failing calls to the database
  MaxCrashes,
  None

ASSUME ApprovalsAssumption ==
  /\ Roots \in [Runs -> SUBSET Services]
  /\ Named \in [Runs -> SUBSET Services]
  /\ \A r \in Runs : Named[r] \subseteq Roots[r] /\ (r \notin WebOnly => Named[r] = Roots[r])
  /\ Batch \subseteq Runs /\ WebOnly \subseteq Runs \ Batch
  /\ Reviewers \cap Agents = {}
  /\ {MaxChanges, MaxFaults, MaxCrashes} \subseteq Nat
  /\ None \notin Runs \cup Services

Actors == Reviewers \cup Agents

VARIABLES
  status,   \* action_runs.status, "none" before the row exists
  approval, \* action_runs.approval_status
  perm,     \* the effective app lifecycle permission of each service
  server,   \* "up", or the startup sweep it is in
  pc,       \* where each actor's request is
  run,      \* the request it is about
  verdict,  \* a reviewer's answer; for an agent, that the request is held
  todo,     \* services of a batch that have not had their turn
  turn,     \* the service of the batch being stopped or deleted
  failures, \* whether some service of the batch failed
  acted,    \* history: how often each request stopped or deleted a service
  barred,   \* history: services closed to a request since it was claimed
  earlier,  \* history: rows made before the last crash
  stranded, \* history: claimed requests whose executor is gone without a word
  changes, faults, crashes

rows == <<status, approval>>
local == <<pc, run, verdict, todo, turn, failures>>
history == <<acted, barred, earlier, stranded>>
bounds == <<changes, faults, crashes>>
vars == <<status, approval, perm, server, local, history, bounds>>

Statuses == {"none", "pending_approval", "running", "succeeded", "failed"}
ApprovalStatuses == {"none", "pending", "approved", "rejected"}
Permissions == {"allow", "approval_required", "block"}
Executing == {"load", "check", "act", "next", "turn", "plan", "record", "catch"}
Steps == {"idle", "create", "start", "decide", "handle", "close", "claim", "recheck"}
         \cup Executing

TypeOK ==
  /\ status \in [Runs -> Statuses]
  /\ approval \in [Runs -> ApprovalStatuses]
  /\ perm \in [Services -> Permissions]
  /\ server \in {"up", "sweep_approved", "sweep_stale", "sweep_pending"}
  /\ pc \in [Actors -> Steps]
  /\ run \in [Actors -> Runs \cup {None}]
  /\ verdict \in [Actors -> BOOLEAN]
  /\ todo \in [Actors -> SUBSET Services]
  /\ turn \in [Actors -> Services \cup {None}]
  /\ failures \in [Actors -> BOOLEAN]
  /\ acted \in [Runs -> [Services -> 0..2]]
  /\ barred \subseteq Runs \X Services
  /\ earlier \subseteq Runs /\ stranded \subseteq Runs
  /\ changes \in 0..MaxChanges /\ faults \in 0..MaxFaults /\ crashes \in 0..MaxCrashes

Init ==
  /\ status = [r \in Runs |-> "none"]
  /\ approval = [r \in Runs |-> "none"]
  /\ perm \in [Services -> Permissions]
  /\ server = "up"
  /\ pc = [a \in Actors |-> "idle"]
  /\ run = [a \in Actors |-> None]
  /\ verdict = [a \in Actors |-> TRUE]
  /\ todo = [a \in Actors |-> {}]
  /\ turn = [a \in Actors |-> None]
  /\ failures = [a \in Actors |-> FALSE]
  /\ acted = [r \in Runs |-> [s \in Services |-> 0]]
  /\ barred = {} /\ earlier = {} /\ stranded = {}
  /\ changes = 0 /\ faults = 0 /\ crashes = 0

Goto(a, s) == pc' = [pc EXCEPT ![a] = s]

(* The request is answered, or the background execution over.              *)
Done(a) ==
  /\ Goto(a, "idle")
  /\ run' = [run EXCEPT ![a] = None]
  /\ verdict' = [verdict EXCEPT ![a] = TRUE]
  /\ todo' = [todo EXCEPT ![a] = {}]
  /\ turn' = [turn EXCEPT ![a] = None]
  /\ failures' = [failures EXCEPT ![a] = FALSE]

Idle(a) == server = "up" /\ pc[a] = "idle"

(* The actor turns to request r.                                           *)
Take(a, r, s) ==
  /\ Goto(a, s)
  /\ run' = [run EXCEPT ![a] = r]
  /\ UNCHANGED <<todo, turn, failures>>

(* A permission is changed in the interface or by an agent.                *)
SetPermission(s, p) ==
  /\ changes < MaxChanges
  /\ perm[s] # p
  /\ perm' = [perm EXCEPT ![s] = p]
  /\ changes' = changes + 1
  /\ barred' = IF p = "block" THEN barred ELSE {b \in barred : b[2] # s}
  /\ UNCHANGED <<rows, server, local, acted, earlier, stranded, faults, crashes>>

-----------------------------------------------------------------------------
(* What the preview of maybeHandleMcpSafety finds for a service.           *)
Blocked(s) == perm[s] = "block"
Pending(s) == perm[s] = "approval_required"

(* cleanup_apps, or a tool that is held: refused when a service is         *)
(* blocked.  A batch always gets a row; a single tool that is allowed runs *)
(* at once and is no concern of this module.                               *)
Request(a, r) ==
  /\ a \in Agents /\ Idle(a)
  /\ status[r] = "none"
  /\ \A b \in Actors : run[b] # r
  /\ \A s \in Roots[r] : ~Blocked(s)
  /\ r \in Batch \/ r \in WebOnly \/ \E s \in Roots[r] : Pending(s)
  /\ verdict' = [verdict EXCEPT ![a] = \E s \in Roots[r] : Pending(s)]
  /\ Take(a, r, "create")
  /\ UNCHANGED <<rows, perm, server, history, bounds>>

(* createPendingMcpApproval.  A batch none of whose services was pending   *)
(* starts itself.                                                          *)
Create(a) ==
  /\ pc[a] = "create"
  /\ status' = [status EXCEPT ![run[a]] = "pending_approval"]
  /\ approval' = [approval EXCEPT ![run[a]] = "pending"]
  /\ IF run[a] \in Batch /\ ~verdict[a]
     THEN Goto(a, "start") /\ UNCHANGED <<run, verdict, todo, turn, failures>>
     ELSE Done(a)
  /\ UNCHANGED <<perm, server, history, bounds>>

(* resumeMcpActions reads the row: not for a rejected or settled one, and  *)
(* only for app stop, delete and cleanup.                                  *)
Resume(a, r) ==
  /\ a \in Agents /\ Idle(a)
  /\ status[r] = "pending_approval"
  /\ approval[r] # "rejected"
  /\ r \notin WebOnly
  /\ Take(a, r, "recheck")
  /\ UNCHANGED <<rows, perm, server, verdict, history, bounds>>

(* ... and then asks for every service's permission.                       *)
Recheck(a) ==
  /\ pc[a] = "recheck"
  /\ IF \A s \in Roots[run[a]] : ~Blocked(s) /\ ~Pending(s)
     THEN Goto(a, "start") /\ UNCHANGED <<run, verdict, todo, turn, failures>>
     ELSE Done(a)
  /\ UNCHANGED <<rows, perm, server, history, bounds>>

-----------------------------------------------------------------------------
(* POST /action-runs/:id/approve and reject: findPendingApproval.          *)
Review(w, r, ok) ==
  /\ w \in Reviewers /\ Idle(w)
  /\ approval[r] = "pending"
  /\ verdict' = [verdict EXCEPT ![w] = ok]
  /\ Take(w, r, "decide")
  /\ UNCHANGED <<rows, perm, server, history, bounds>>

(* updateApproval changes the row only while it is still undecided.  The   *)
(* event is emitted, and the reviewer answered, either way.                *)
Undecided(r) == status[r] = "pending_approval" /\ approval[r] = "pending"

Decide(w) ==
  /\ pc[w] = "decide"
  /\ approval' = IF Undecided(run[w])
                 THEN [approval EXCEPT ![run[w]] = IF verdict[w] THEN "approved" ELSE "rejected"]
                 ELSE approval
  /\ Goto(w, "handle")
  /\ UNCHANGED <<status, perm, server, run, verdict, todo, turn, failures, history, bounds>>

(* handleDestructiveMcpApproval reads the row.                             *)
Handle(w) ==
  /\ pc[w] = "handle"
  /\ \/ verdict[w] /\ Goto(w, "claim") /\ UNCHANGED <<run, verdict, todo, turn, failures>>
     \/ /\ ~verdict[w]
        /\ status[run[w]] = "pending_approval" /\ approval[run[w]] = "rejected"
        /\ Goto(w, "close") /\ UNCHANGED <<run, verdict, todo, turn, failures>>
     \/ /\ ~verdict[w]
        /\ ~(status[run[w]] = "pending_approval" /\ approval[run[w]] = "rejected")
        /\ Done(w)
  /\ UNCHANGED <<rows, perm, server, history, bounds>>

(* ... and fails a rejected request.                                       *)
Close(w) ==
  /\ pc[w] = "close"
  /\ status' = [status EXCEPT ![run[w]] = "failed"]
  /\ Done(w)
  /\ UNCHANGED <<approval, perm, server, history, bounds>>

-----------------------------------------------------------------------------
(* claimMcpExecution: one UPDATE whose WHERE names the state it expects.   *)
Claimable(r, granted) ==
  /\ status[r] = "pending_approval"
  /\ approval[r] \in IF granted THEN {"pending", "approved"} ELSE {"approved"}

(* For the history: the services a request may not touch unless their      *)
(* permission changes after the claim.  A person who approves an archive   *)
(* approves it for a whole stack: only the service it names is asked about *)
(* again.                                                                  *)
Closed(r, granted) ==
  {s \in Named[r] : perm[s] = "block" \/ (granted /\ perm[s] = "approval_required")}

Claim(a, granted) ==
  /\ pc[a] = IF granted THEN "start" ELSE "claim"
  /\ IF Claimable(run[a], granted)
     THEN /\ status' = [status EXCEPT ![run[a]] = "running"]
          /\ approval' = [approval EXCEPT ![run[a]] = "approved"]
          /\ barred' = barred \cup {<<run[a], s>> : s \in Closed(run[a], granted)}
          /\ Goto(a, "load")
          /\ UNCHANGED <<run, verdict, todo, turn, failures>>
     ELSE Done(a) /\ UNCHANGED <<status, approval, barred>>
  /\ UNCHANGED <<perm, server, acted, earlier, stranded, bounds>>

(* requirePermission: the executor was started by an agent.                *)
RequirePermission(a) == a \in Agents

(* executeClaimedMcpAction reads the row once more.                        *)
Load(a) ==
  /\ pc[a] = "load"
  /\ IF status[run[a]] = "running"
     THEN /\ Goto(a, IF run[a] \in Batch THEN "next" ELSE "check")
          /\ todo' = [todo EXCEPT ![a] = Roots[run[a]]]
          /\ UNCHANGED <<run, verdict, turn, failures>>
     ELSE Done(a)
  /\ UNCHANGED <<rows, perm, server, history, bounds>>

PassesIfApproved(a, s) == RequirePermission(a) => ~Blocked(s) /\ ~Pending(s)

(* The permission is looked at again right before the operation: blocked   *)
(* never passes, pending passes for what a person approved.                *)
Passes(a, s) == ~Blocked(s) /\ (RequirePermission(a) => ~Pending(s))

Check(a) ==
  /\ pc[a] = "check"
  /\ Goto(a, IF \A s \in Named[run[a]] : Passes(a, s) THEN "act" ELSE "catch")
  /\ UNCHANGED <<rows, perm, server, run, verdict, todo, turn, failures, history, bounds>>

(* def.execute of a single tool.  It may throw, with a part of its work    *)
(* done, and it may return without having done any: a rejection is an      *)
(* answer like any other.                                                  *)
Act(a) ==
  /\ pc[a] = "act"
  /\ \E done \in SUBSET todo[a] :
       /\ acted' = [acted EXCEPT ![run[a]] = [s \in Services |-> @[s] + IF s \in done THEN 1 ELSE 0]]
       /\ \/ Goto(a, "catch")
          \/ done \in {{}, todo[a]} /\ Goto(a, "plan")
  /\ UNCHANGED <<rows, perm, server, run, verdict, todo, turn, failures, barred, earlier, stranded, bounds>>

NextServiceKept(a) ==
  /\ pc[a] = "next"
  /\ \E s \in todo[a] :
       /\ Passes(a, s)
       /\ turn' = [turn EXCEPT ![a] = s]
  /\ Goto(a, "turn")
  /\ UNCHANGED <<rows, perm, server, run, verdict, todo, failures, history, bounds>>

(* executeAppCleanup: the next service's permission.  A refused one counts *)
(* as failed and the batch goes on.                                        *)
NextService(a) ==
  /\ pc[a] = "next"
  /\ \E s \in todo[a] :
       /\ todo' = [todo EXCEPT ![a] = @ \ {s}]
       /\ IF Passes(a, s)
          THEN turn' = [turn EXCEPT ![a] = s] /\ Goto(a, "turn") /\ UNCHANGED failures
          ELSE failures' = [failures EXCEPT ![a] = TRUE] /\ UNCHANGED <<pc, turn>>
  /\ UNCHANGED <<rows, perm, server, run, verdict, history, bounds>>

(* ... and its stop or deletion, which may throw, also when the service is *)
(* already gone.                                                           *)
CleanService(a) ==
  /\ pc[a] = "turn"
  /\ \/ acted' = [acted EXCEPT ![run[a]][turn[a]] = @ + 1] /\ UNCHANGED failures
     \/ /\ failures' = [failures EXCEPT ![a] = TRUE]
        /\ \/ acted' = [acted EXCEPT ![run[a]][turn[a]] = @ + 1]
           \/ UNCHANGED acted
  /\ turn' = [turn EXCEPT ![a] = None]
  /\ Goto(a, "next")
  /\ UNCHANGED <<rows, perm, server, run, verdict, todo, barred, earlier, stranded, bounds>>

BatchOver(a) ==
  /\ pc[a] = "next" /\ todo[a] = {}
  /\ Goto(a, "plan")
  /\ UNCHANGED <<rows, perm, server, run, verdict, todo, turn, failures, history, bounds>>

(* The result goes into the plan ...                                       *)
WritePlan(a) ==
  /\ pc[a] = "plan"
  /\ Goto(a, "record")
  /\ UNCHANGED <<rows, perm, server, run, verdict, todo, turn, failures, history, bounds>>

RecordSuccess(a) ==
  /\ pc[a] = "record"
  /\ status' = [status EXCEPT ![run[a]] = "succeeded"]
  /\ Done(a)
  /\ UNCHANGED <<approval, perm, server, history, bounds>>

(* ... and the outcome into the row.                                       *)
Record(a) ==
  /\ pc[a] = "record"
  /\ status' = [status EXCEPT ![run[a]] = IF failures[a] THEN "failed" ELSE "succeeded"]
  /\ Done(a)
  /\ UNCHANGED <<approval, perm, server, history, bounds>>

(* A call to the database fails inside the executor's try block.           *)
WriteFails(a) ==
  /\ pc[a] \in {"check", "next", "plan", "record"}
  /\ faults < MaxFaults
  /\ faults' = faults + 1
  /\ Goto(a, "catch")
  /\ UNCHANGED <<rows, perm, server, run, verdict, todo, turn, failures, history, changes, crashes>>

(* ... or anywhere else, the executor's first read and the write of its    *)
(* catch block included: the error is answered or logged, and the row left *)
(* as it is, which for a claimed request is running.                       *)
CallFails(a) ==
  /\ pc[a] \in {"create", "recheck", "start", "decide", "handle", "close", "claim", "load", "catch"}
  /\ faults < MaxFaults
  /\ faults' = faults + 1
  /\ stranded' = stranded \cup (IF pc[a] \in Executing THEN {run[a]} ELSE {})
  /\ Done(a)
  /\ UNCHANGED <<rows, perm, server, acted, barred, earlier, changes, crashes>>

CatchSilently(a) ==
  /\ pc[a] = "catch"
  /\ Done(a)
  /\ UNCHANGED <<rows, perm, server, history, bounds>>

(* The catch block.                                                        *)
Catch(a) ==
  /\ pc[a] = "catch"
  /\ status' = [status EXCEPT ![run[a]] = "failed"]
  /\ Done(a)
  /\ UNCHANGED <<approval, perm, server, history, bounds>>

-----------------------------------------------------------------------------
(* The process dies, at work or during its start.                          *)
Crash ==
  /\ crashes < MaxCrashes
  /\ crashes' = crashes + 1
  /\ server' = "sweep_approved"
  /\ earlier' = {r \in Runs : status[r] # "none"}
  /\ pc' = [a \in Actors |-> "idle"]
  /\ run' = [a \in Actors |-> None]
  /\ verdict' = [a \in Actors |-> TRUE]
  /\ todo' = [a \in Actors |-> {}]
  /\ turn' = [a \in Actors |-> None]
  /\ failures' = [a \in Actors |-> FALSE]
  /\ UNCHANGED <<rows, perm, acted, barred, stranded, changes, faults>>

(* markStaleAsFailedOnStartup, three statements outside a transaction:     *)
(* approved requests that were never claimed ...                           *)
SweepApproved ==
  /\ server = "sweep_approved"
  /\ status' = [r \in Runs |-> IF status[r] = "pending_approval" /\ approval[r] = "approved"
                               THEN "failed" ELSE status[r]]
  /\ server' = "sweep_stale"
  /\ UNCHANGED <<approval, perm, local, history, bounds>>

StaleRunning(r) == status[r] = "running"

(* ... everything else that was open ...                                   *)
Stale(r) == status[r] \in {"running", "pending_approval"}

SweepStale ==
  /\ server = "sweep_stale"
  /\ status' = [r \in Runs |-> IF Stale(r) THEN "failed" ELSE status[r]]
  /\ server' = "sweep_pending"
  /\ stranded' = {}
  /\ UNCHANGED <<approval, perm, local, acted, barred, earlier, bounds>>

SweepEveryApproval ==
  /\ server = "sweep_pending"
  /\ approval' = [r \in Runs |-> IF status[r] = "failed" THEN "rejected" ELSE approval[r]]
  /\ server' = "up"
  /\ UNCHANGED <<status, perm, local, history, bounds>>

(* ... and the approvals nobody has given.                                 *)
SweepPending ==
  /\ server = "sweep_pending"
  /\ approval' = [r \in Runs |-> IF approval[r] = "pending" THEN "rejected" ELSE approval[r]]
  /\ server' = "up"
  /\ UNCHANGED <<status, perm, local, history, bounds>>

Startup == SweepApproved \/ SweepStale \/ SweepPending

Proceed(a) ==
  \/ Create(a) \/ Recheck(a)
  \/ Decide(a) \/ Handle(a) \/ Close(a)
  \/ Claim(a, TRUE) \/ Claim(a, FALSE)
  \/ Load(a) \/ Check(a) \/ Act(a)
  \/ NextService(a) \/ CleanService(a) \/ BatchOver(a)
  \/ WritePlan(a) \/ Record(a) \/ WriteFails(a) \/ Catch(a) \/ CallFails(a)

Next ==
  \/ \E a \in Agents, r \in Runs : Request(a, r) \/ Resume(a, r)
  \/ \E w \in Reviewers, r \in Runs, ok \in BOOLEAN : Review(w, r, ok)
  \/ \E a \in Actors : Proceed(a)
  \/ \E s \in Services, p \in Permissions : SetPermission(s, p)
  \/ Startup
  \/ Crash

Spec == Init /\ [][Next]_vars

-----------------------------------------------------------------------------
(* A request stops or deletes each of its services at most once, however   *)
(* its approvals, continuations and restarts interleave.                   *)
ActedOnce == \A r \in Runs, s \in Services : acted[r][s] <= 1

(* A request whose row says rejected has touched nothing: an answer that   *)
(* comes too late does not change the row, and a restart rejects only what *)
(* had not begun.                                                          *)
RejectedUntouched ==
  \A r \in Runs : approval[r] = "rejected" => \A s \in Services : acted[r][s] = 0

(* A rejection is final: neither a late approval nor a permission granted  *)
(* later brings the request back or lets it touch a service.               *)
RejectionIsFinal ==
  [][\A r \in Runs : approval[r] = "rejected" =>
       approval'[r] = "rejected" /\ acted'[r] = acted[r]]_vars

(* A service that was closed to a request when it was claimed, and still   *)
(* is, is left alone, as far as the request names it: of what an archive   *)
(* touches besides, nobody asks again.                                     *)
ClosedUntouched == \A b \in barred : acted[b[1]][b[2]] = 0

(* After a restart no row of an earlier life of the process is open.       *)
RestartSettles ==
  server = "up" =>
    \A r \in earlier : status[r] \in {"succeeded", "failed"} /\ approval[r] # "pending"

(* A batch whose row says succeeded has stopped or deleted every service   *)
(* of the request.  Nothing of the kind holds for a single tool: what it   *)
(* returns is recorded as a success, a rejection too.                      *)
SuccessIsComplete ==
  \A r \in Batch : status[r] = "succeeded" => \A s \in Roots[r] : acted[r][s] = 1

(* No claim is shared, and none is lost but in one way: while the server   *)
(* is up a row is running exactly while one executor works on it, or       *)
(* because a call to the database failed in the executor's first read or   *)
(* in its catch block.  Such a row has no executor and never gets one; the *)
(* next start of the server settles it.                                    *)
Executes(a, r) == run[a] = r /\ pc[a] \in Executing

RunningIsExecuted ==
  server = "up" =>
    \A r \in Runs :
      /\ status[r] = "running" <=> (r \in stranded \/ \E a \in Actors : Executes(a, r))
      /\ r \in stranded => \A a \in Actors : ~Executes(a, r)
      /\ \A a, b \in Actors : Executes(a, r) /\ Executes(b, r) => a = b

(* What an approved request may touch and report: nothing that was closed  *)
(* to it, and for a batch success only with everything done.               *)
BatchIsHonest == ClosedUntouched /\ SuccessIsComplete

=============================================================================
