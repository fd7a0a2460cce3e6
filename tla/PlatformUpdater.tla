-------------------------- MODULE PlatformUpdater ---------------------------
(***************************************************************************)
(* The one-click platform update.  Three programs share the files of the   *)
(* data volume and take no lock on them:                                   *)
(*   the server     update/platform-updater.ts: startUpdate, and getStatus *)
(*                  whose reconcileOperation repairs the record of a dead  *)
(*                  runner; every process records the outcome of its own   *)
(*                  start (cli/index.ts);                                  *)
(*   the runner     update/runner.ts, a container of its own that replaces *)
(*                  the server's container and rolls back;                 *)
(*   Docker         which starts the containers both ask it for.           *)
(* status.json holds one operation; writers replace the file atomically    *)
(* (rename), but every update of it is a read, an await and a write.       *)
(* Versions are numbers: a release is the version after the running one.   *)
(***************************************************************************)
EXTENDS Integers, FiniteSets

CONSTANTS MaxOps,     \* bound on the operations started
          MaxDeaths,  \* bound on crashes of the server and of runners together
          Pollers,    \* requests that may be in getStatus at the same time
          Starter,    \* the one of them that startUpdate makes
          Overlap     \* may two requests be reconciling at the same time?

ASSUME UpdaterAssumption ==
    /\ MaxOps \in Nat /\ MaxDeaths \in Nat
    /\ Starter \in Pollers /\ Overlap \in BOOLEAN

VARIABLES op,          \* status.json
          validation,  \* startup-validation.json of every operation
          conf,        \* the versions the .env and the Compose file name
          backup,      \* the copy of conf in the backup directory
          server,      \* the openlander container: version, state, start outcome
          start,       \* the startUpdate in progress (the starting flag)
          poll,        \* every getStatus in progress
          runner,      \* the runner container of every operation
          deaths       \* crashes so far

vars == <<op, validation, conf, backup, server, start, poll, runner, deaths>>

Ids == 1..MaxOps
Versions == 1..(MaxOps + 1)

Active == {"preparing", "backing_up", "pulling", "restarting", "verifying",
           "rolling_back"}
Final == {"completed", "rolled_back", "failed"}
Phases == Active \cup Final

Codes == {"none", "start", "stopped", "update", "rollback"}

Operations == [id : Ids, source : Versions, target : Versions, phase : Phases,
               code : Codes, known : BOOLEAN]
NoOp == [id |-> 0]
Record == Operations \cup {NoOp}

isActiveOperation(o) == o # NoOp /\ o.phase \in Active

Configs == [env : Versions, compose : Versions]
NoConf == [env |-> 0]

(* A runner goes through stages named after the phase it records: it reads *)
(* the record, writes it, and does the work of the stage.                  *)
Steps == {"absent", "reserved", "requested", "refused", "boot", "read", "write",
          "work", "compose", "config", "verify", "gone"}
Alive(i) ==
    runner[i].step \notin {"absent", "reserved", "requested", "refused", "gone"}

(* The runner has passed the check that status.json names its operation.   *)
Working(i) == Alive(i) /\ runner[i].step # "boot"

(* A runner that does not run.                                             *)
NoRunner(step) == [step |-> step, stage |-> "preparing", code |-> "none", copy |-> NoOp]

Idle == [pc |-> "idle", copy |-> NoOp]

TypeOK ==
    /\ op \in Record
    /\ validation \in [Ids -> [version : Versions, ok : BOOLEAN] \cup {NoConf}]
    /\ conf \in Configs
    /\ backup \in [Ids -> Configs \cup {NoConf}]
    /\ server \in [version : Versions, state : {"booting", "up", "down"}, ok : BOOLEAN]
    /\ start \in [pc : {"idle", "status", "write", "launch", "launched", "record"},
                  copy : Record]
    /\ poll \in [Pollers -> [pc : {"idle", "read", "recovered", "latest", "failed",
                                   "result"},
                             copy : Record]]
    /\ runner \in [Ids -> [step : Steps, stage : Phases, code : Codes,
                           copy : Record]]
    /\ deaths \in 0..MaxDeaths

Init ==
    /\ op = NoOp
    /\ validation = [i \in Ids |-> NoConf]
    /\ conf = [env |-> 1, compose |-> 1]
    /\ backup = [i \in Ids |-> NoConf]
    /\ server = [version |-> 1, state |-> "up", ok |-> TRUE]
    /\ start = Idle
    /\ poll = [p \in Pollers |-> Idle]
    /\ runner = [i \in Ids |-> NoRunner("absent")]
    /\ deaths = 0

-----------------------------------------------------------------------------
(* getStatus and reconcileOperation.                                       *)

pollTo(p, pc, copy) == poll' = [poll EXCEPT ![p] = [pc |-> pc, copy |-> copy]]

(* The status is returned; startUpdate only asks whether its operation is  *)
(* active.                                                                 *)
returns(p, o) ==
    IF p = Starter THEN pollTo(p, "result", IF isActiveOperation(o) THEN o ELSE NoOp)
    ELSE pollTo(p, "idle", NoOp)

(* The operation read; only an active one is reconciled.                   *)
GetStatus(p) ==
    /\ server.state = "up"
    /\ poll[p].pc = "idle"
    /\ Overlap \/ \A q \in Pollers : poll[q].pc \in {"idle", "result"}
    /\ p = Starter => start.pc = "status"
    /\ IF isActiveOperation(op) THEN pollTo(p, "read", op) ELSE returns(p, op)
    /\ UNCHANGED <<op, validation, conf, backup, server, start, runner, deaths>>

(* The operation was updated less than RUNNER_RECONCILE_GRACE_MS ago.      *)
WithinGrace(p) ==
    /\ poll[p].pc = "read"
    /\ returns(p, poll[p].copy)
    /\ UNCHANGED <<op, validation, conf, backup, server, start, runner, deaths>>

(* Docker starts a runner within the grace period.                         *)
Launching(i) ==
    runner[i].step = "requested" \/ (start.pc = "launch" /\ start.copy.id = i)

(* Mutant: a runner whose id was not recorded counts as stopped.           *)
InspectRunnerById(p) ==
    /\ poll[p].pc = "read"
    /\ ~Launching(poll[p].copy.id)
    /\ \/ /\ poll[p].copy.known /\ Alive(poll[p].copy.id)
          /\ returns(p, poll[p].copy)
       \/ pollTo(p, "latest", NoOp)
    /\ UNCHANGED <<op, validation, conf, backup, server, start, runner, deaths>>

(* Mutant: an operation without a recorded runner is left alone.           *)
InspectRecordedRunner(p) ==
    /\ poll[p].pc = "read"
    /\ ~Launching(poll[p].copy.id)
    /\ IF poll[p].copy.known /\ ~Alive(poll[p].copy.id)
       THEN pollTo(p, "latest", NoOp) ELSE returns(p, poll[p].copy)
    /\ UNCHANGED <<op, validation, conf, backup, server, start, runner, deaths>>

(* It is older: Docker is asked for the runner, by the recorded container  *)
(* id (an error counts as stopped) and then by its label.                  *)
InspectRunner(p) ==
    /\ poll[p].pc = "read"
    /\ ~Launching(poll[p].copy.id)
    /\ \/ /\ poll[p].copy.known /\ Alive(poll[p].copy.id)
          /\ returns(p, poll[p].copy)
       \/ /\ Alive(poll[p].copy.id)
          /\ pollTo(p, "recovered", [poll[p].copy EXCEPT !.known = TRUE])
       \/ /\ ~Alive(poll[p].copy.id)
          /\ pollTo(p, "latest", NoOp)
    /\ UNCHANGED <<op, validation, conf, backup, server, start, runner, deaths>>

(* The copy that was read before the calls to Docker is written back.      *)
WriteRecovered(p) ==
    /\ poll[p].pc = "recovered"
    /\ op' = poll[p].copy
    /\ returns(p, poll[p].copy)
    /\ UNCHANGED <<validation, conf, backup, server, start, runner, deaths>>

(* The runner stopped: the record is read again, and failed if it is still *)
(* active.                                                                 *)
ReadLatest(p) ==
    /\ poll[p].pc = "latest"
    /\ IF isActiveOperation(op)
       THEN pollTo(p, "failed", [op EXCEPT !.phase = "failed", !.code = "stopped"])
       ELSE returns(p, op)
    /\ UNCHANGED <<op, validation, conf, backup, server, start, runner, deaths>>

WriteFailed(p) ==
    /\ poll[p].pc = "failed"
    /\ op' = poll[p].copy
    /\ returns(p, poll[p].copy)
    /\ UNCHANGED <<validation, conf, backup, server, start, runner, deaths>>

-----------------------------------------------------------------------------
(* startUpdate.                                                            *)

RunnerTo(i, step) == runner' = [runner EXCEPT ![i].step = step]

startTo(pc, copy) == start' = [pc |-> pc, copy |-> copy]

StartUpdate ==
    /\ server.state = "up"
    /\ start.pc = "idle"
    /\ \E i \in Ids : runner[i].step = "absent"
    /\ startTo("status", NoOp)
    /\ UNCHANGED <<op, validation, conf, backup, server, poll, runner, deaths>>

FreshId == CHOOSE i \in Ids : runner[i].step = "absent"

NewOperation ==
    [id |-> FreshId, source |-> server.version, target |-> server.version + 1,
     phase |-> "preparing", code |-> "none", known |-> FALSE]

(* The checks on the status, the deploy queue, the jobs and the locks: a   *)
(* refusal for a reason outside the updater is always possible.            *)
Refuse ==
    /\ start.pc = "status" /\ poll[Starter].pc = "result"
    /\ startTo("idle", NoOp)
    /\ pollTo(Starter, "idle", NoOp)
    /\ UNCHANGED <<op, validation, conf, backup, server, runner, deaths>>

(* Mutant: the operation of the status is not looked at.                   *)
AcceptAnyway ==
    /\ start.pc = "status" /\ poll[Starter].pc = "result"
    /\ server.version + 1 \in Versions
    /\ startTo("write", NewOperation)
    /\ pollTo(Starter, "idle", NoOp)
    /\ UNCHANGED <<op, validation, conf, backup, server, runner, deaths>>

Accept ==
    /\ start.pc = "status" /\ poll[Starter].pc = "result"
    /\ ~isActiveOperation(poll[Starter].copy)
    /\ server.version + 1 \in Versions
    /\ startTo("write", NewOperation)
    /\ pollTo(Starter, "idle", NoOp)
    /\ UNCHANGED <<op, validation, conf, backup, server, runner, deaths>>

(* Nobody reads the directory of an operation whose runner is gone: the    *)
(* model forgets it when the next operation is recorded.                   *)
Forget(f) == [i \in Ids |-> IF runner[i].step = "gone" THEN NoConf ELSE f[i]]

(* writeRunnerInput and writeOperation, before the runner exists.          *)
WriteOperation ==
    /\ start.pc = "write"
    /\ op' = start.copy
    /\ startTo("launch", start.copy)
    /\ RunnerTo(start.copy.id, "reserved")
    /\ validation' = Forget(validation)
    /\ backup' = Forget(backup)
    /\ UNCHANGED <<conf, server, poll, deaths>>

RunUtilityContainer ==
    /\ start.pc = "launch"
    /\ startTo("launched", start.copy)
    /\ RunnerTo(start.copy.id, "requested")
    /\ UNCHANGED <<op, validation, conf, backup, server, poll, deaths>>

(* Docker answers the request, also when the server that made it is gone.  *)
DockerStarts(i) ==
    /\ runner[i].step = "requested"
    /\ \/ RunnerTo(i, "boot")
       \/ RunnerTo(i, "refused")
    /\ UNCHANGED <<op, validation, conf, backup, server, start, poll, deaths>>

(* The container runs: the record is read again to add its id.             *)
ReadAfterLaunch ==
    /\ start.pc = "launched"
    /\ runner[start.copy.id].step \notin {"requested", "refused"}
    /\ startTo("record", IF op # NoOp /\ op.id = start.copy.id THEN op ELSE start.copy)
    /\ UNCHANGED <<op, validation, conf, backup, server, poll, runner, deaths>>

WriteRunnerId ==
    /\ start.pc = "record"
    /\ op' = [start.copy EXCEPT !.known = TRUE]
    /\ startTo("idle", NoOp)
    /\ UNCHANGED <<validation, conf, backup, server, poll, runner, deaths>>

(* Docker refused.                                                         *)
LaunchFailed ==
    /\ start.pc = "launched"
    /\ runner[start.copy.id].step = "refused"
    /\ op' = [start.copy EXCEPT !.phase = "failed", !.code = "start"]
    /\ startTo("idle", NoOp)
    /\ UNCHANGED <<validation, conf, backup, server, poll, runner, deaths>>

-----------------------------------------------------------------------------
(* runPlatformUpdate.                                                      *)

runnerOnly == UNCHANGED <<validation, conf, backup, server, start, poll, deaths>>

(* The runner gives up unless status.json names its operation.             *)
Boot(i) ==
    /\ runner[i].step = "boot"
    /\ IF op # NoOp /\ op.id = i
       THEN runner' = [runner EXCEPT ![i] = [step |-> "read", stage |-> "preparing",
                                             code |-> "none", copy |-> op]]
       ELSE RunnerTo(i, "gone")
    /\ UNCHANGED op
    /\ runnerOnly

(* transition: the latest record, or the runner's own if the file has gone *)
(* to another operation, with the phase of the stage.                      *)
ReadOperation(i) ==
    /\ runner[i].step = "read"
    /\ LET latest == IF op # NoOp /\ op.id = i THEN op ELSE runner[i].copy
       IN  runner' = [runner EXCEPT
              ![i].step = "write",
              ![i].copy = [latest EXCEPT !.phase = runner[i].stage,
                                         !.code = runner[i].code]]
    /\ UNCHANGED op
    /\ runnerOnly

(* A runner that has recorded a final phase exits.                         *)
Transition(i) ==
    /\ runner[i].step = "write"
    /\ op' = runner[i].copy
    /\ runner' = [runner EXCEPT
           ![i] = IF runner[i].stage \in Final THEN NoRunner("gone")
                  ELSE [@ EXCEPT !.step = "work"]]
    /\ runnerOnly

stageTo(i, stage, code) ==
    runner' = [runner EXCEPT ![i].step = "read", ![i].stage = stage, ![i].code = code]

(* Mutant: filesChanged is set once both files are written.                *)
FilesChangedLate(i) ==
    \/ runner[i].stage \in {"restarting", "verifying"}
    \/ runner[i].stage = "pulling" /\ runner[i].step = "config"

(* backupComplete && filesChanged: the .env of the target is in place.     *)
FilesChanged(i) ==
    \/ runner[i].stage \in {"restarting", "verifying"}
    \/ runner[i].stage = "pulling" /\ runner[i].step \in {"compose", "config"}

(* The catch block: a failure in any stage up to verifying, and a failure  *)
(* of the rollback itself.                                                 *)
Fail(i) ==
    \/ /\ runner[i].stage = "rolling_back"
       /\ stageTo(i, "failed", "rollback")
    \/ /\ runner[i].stage # "rolling_back" /\ FilesChanged(i)
       /\ stageTo(i, "rolling_back", "update")
    \/ /\ runner[i].stage # "rolling_back" /\ ~FilesChanged(i)
       /\ stageTo(i, "failed", "update")

(* A command, a download or a file operation of a stage fails.             *)
StepFails(i) ==
    /\ runner[i].step \in {"work", "compose", "config"}
    /\ runner[i].stage \notin {"restarting", "verifying"}
    /\ Fail(i)
    /\ UNCHANGED op
    /\ runnerOnly

(* preparing: the target's Compose file is downloaded and checked.         *)
Download(i) ==
    /\ runner[i].step = "work" /\ runner[i].stage = "preparing"
    /\ stageTo(i, "backing_up", "none")
    /\ UNCHANGED op
    /\ runnerOnly

BackupInstallation(i) ==
    /\ runner[i].step = "work" /\ runner[i].stage = "backing_up"
    /\ backup' = [backup EXCEPT ![i] = conf]
    /\ stageTo(i, "pulling", "none")
    /\ UNCHANGED <<op, validation, conf, server, start, poll, deaths>>

(* The files are set to those of the target once its image is pulled and   *)
(* checked, or back to those of the backup (restoreInstallation).          *)
Rollback(i) == runner[i].stage = "rolling_back"

WriteEnv(i) ==
    /\ runner[i].step = "work" /\ runner[i].stage \in {"pulling", "rolling_back"}
    /\ conf' = [conf EXCEPT !.env = IF Rollback(i) THEN runner[i].copy.source
                                    ELSE runner[i].copy.target]
    /\ RunnerTo(i, "compose")
    /\ UNCHANGED <<op, validation, backup, server, start, poll, deaths>>

(* Mutant: the rollback leaves the Compose file of the target in place.    *)
WriteComposeForward(i) ==
    /\ runner[i].step = "compose"
    /\ conf' = [conf EXCEPT !.compose = runner[i].copy.target]
    /\ RunnerTo(i, "config")
    /\ UNCHANGED <<op, validation, backup, server, start, poll, deaths>>

WriteCompose(i) ==
    /\ runner[i].step = "compose"
    /\ conf' = [conf EXCEPT !.compose = IF Rollback(i) THEN backup[i].compose
                                        ELSE runner[i].copy.target]
    /\ RunnerTo(i, "config")
    /\ UNCHANGED <<op, validation, backup, server, start, poll, deaths>>

(* docker compose config accepts the files.                                *)
ComposeConfig(i) ==
    /\ runner[i].step = "config" /\ ~Rollback(i)
    /\ stageTo(i, "restarting", "none")
    /\ UNCHANGED op
    /\ runnerOnly

(* The container is replaced: the process in it dies with its requests.    *)
newProcess(v) ==
    /\ server' = [version |-> v, state |-> "booting", ok |-> FALSE]
    /\ start' = Idle
    /\ poll' = [p \in Pollers |-> Idle]

AtUp(i) == \/ runner[i].step = "work" /\ runner[i].stage = "restarting"
           \/ runner[i].step = "config" /\ Rollback(i)

ComposeUp(i) ==
    /\ AtUp(i)
    /\ newProcess(conf.env)
    /\ IF Rollback(i) THEN RunnerTo(i, "verify") ELSE stageTo(i, "verifying", "none")
    /\ UNCHANGED <<op, validation, conf, backup, deaths>>

(* docker compose up fails: before or after it removed the old container.  *)
ComposeUpFails(i) ==
    /\ AtUp(i)
    /\ Fail(i)
    /\ \/ UNCHANGED <<server, start, poll>>
       \/ /\ server' = [server EXCEPT !.state = "down", !.ok = FALSE]
          /\ start' = Idle
          /\ poll' = [p \in Pollers |-> Idle]
    /\ UNCHANGED <<op, validation, conf, backup, deaths>>

(* waitForVersion: the health route answers with the version and the       *)
(* process has recorded a good start.                                      *)
Expected(i) == IF Rollback(i) THEN runner[i].copy.source ELSE runner[i].copy.target

AtVerify(i) == \/ runner[i].step = "work" /\ runner[i].stage = "verifying"
               \/ runner[i].step = "verify"

(* Mutant: the health route alone is enough.                               *)
VerifiedByHealth(i) == server.state = "up" /\ server.version = Expected(i)

Verified(i) ==
    /\ server.state = "up" /\ server.version = Expected(i)
    /\ validation[i] = [version |-> Expected(i), ok |-> TRUE]

WaitForVersion(i) ==
    /\ AtVerify(i)
    /\ Verified(i)
    /\ stageTo(i, IF Rollback(i) THEN "rolled_back" ELSE "completed",
               IF Rollback(i) THEN "update" ELSE "none")
    /\ UNCHANGED op
    /\ runnerOnly

(* The deadline passes, or the process has recorded a bad start.           *)
WaitFails(i) ==
    /\ AtVerify(i)
    /\ ~Verified(i)
    /\ Fail(i)
    /\ UNCHANGED op
    /\ runnerOnly

-----------------------------------------------------------------------------
(* The server process (cli/index.ts) and crashes.                          *)

Validates(o) ==
    o # NoOp /\ o.target = server.version
        /\ o.phase \in {"restarting", "verifying", "rolling_back"}

(* Traefik is started and the ownership of the files repaired; the outcome *)
(* is recorded before the health route is served.                          *)
ServerStarts ==
    /\ server.state = "booting"
    /\ \E ok \in BOOLEAN :
          /\ server' = [server EXCEPT !.state = "up", !.ok = ok]
          /\ validation' =
                IF Validates(op)
                THEN [validation EXCEPT ![op.id] = [version |-> server.version, ok |-> ok]]
                ELSE validation
    /\ UNCHANGED <<op, conf, backup, start, poll, runner, deaths>>

(* The process dies; Docker restarts the container.                        *)
ServerDies ==
    /\ server.state # "down" /\ deaths < MaxDeaths
    /\ newProcess(server.version)
    /\ deaths' = deaths + 1
    /\ UNCHANGED <<op, validation, conf, backup, runner>>

RunnerDies(i) ==
    /\ Alive(i) /\ deaths < MaxDeaths
    /\ runner' = [runner EXCEPT ![i] = NoRunner("gone")]
    /\ deaths' = deaths + 1
    /\ UNCHANGED <<op, validation, conf, backup, server, start, poll>>

PollStep(p) ==
    WithinGrace(p) \/ InspectRunner(p) \/ WriteRecovered(p) \/ ReadLatest(p)
        \/ WriteFailed(p)

StartStep ==
    Refuse \/ Accept \/ WriteOperation \/ RunUtilityContainer \/ ReadAfterLaunch
        \/ WriteRunnerId \/ LaunchFailed

RunnerStep(i) ==
    Boot(i) \/ ReadOperation(i) \/ Transition(i) \/ StepFails(i) \/ Download(i)
        \/ BackupInstallation(i) \/ WriteEnv(i) \/ WriteCompose(i)
        \/ ComposeConfig(i) \/ ComposeUp(i) \/ ComposeUpFails(i)
        \/ WaitForVersion(i) \/ WaitFails(i)

Next ==
    \/ \E p \in Pollers : GetStatus(p) \/ PollStep(p)
    \/ StartUpdate \/ StartStep
    \/ \E i \in Ids : DockerStarts(i) \/ RunnerStep(i) \/ RunnerDies(i)
    \/ ServerStarts \/ ServerDies

Spec == Init /\ [][Next]_vars

(* Every program that runs goes on and Docker answers.  Someone asks for   *)
(* the status again and again (the interface polls it while an operation   *)
(* is active), and finds the record past the grace period in the end.      *)
FairSpec ==
    /\ Spec
    /\ WF_vars(ServerStarts) /\ WF_vars(StartStep)
    /\ \A i \in Ids : WF_vars(DockerStarts(i) \/ RunnerStep(i))
    /\ WF_vars(\E p \in Pollers : GetStatus(p) \/ PollStep(p))
    /\ SF_vars(\E p \in Pollers : InspectRunner(p))

-----------------------------------------------------------------------------
(* Properties.                                                             *)

(* Only one runner changes the installation at a time, although the record *)
(* that keeps a second startUpdate out is rewritten without a lock by the  *)
(* runner, by startUpdate and by every status request, and the starting    *)
(* flag dies with the server.                                              *)
OneRunner == \A i, j \in Ids : Working(i) /\ Working(j) => i = j

(* "The update stopped before OpenLander was replaced": an operation that  *)
(* its runner failed without a rollback left the files as it backed them   *)
(* up, whichever of its steps failed.                                      *)
StoppedBeforeReplace ==
    op # NoOp /\ op.phase = "failed" /\ op.code = "update" /\ backup[op.id] # NoConf
        => conf = backup[op.id]

(* "restores the previous image and Compose configuration if verification  *)
(* fails": once the rollback has recreated the container, both files and   *)
(* the container are those of the source, whatever was half written.       *)
RollbackRestores ==
    \A i \in Ids : runner[i].step = "verify"
        => /\ conf = [env |-> runner[i].copy.source, compose |-> backup[i].compose]
           /\ server.version = runner[i].copy.source

(* A completed update is what both files name, so that every later restart *)
(* runs it, and its start was validated (the last one, if nothing crashed).*)
CompletedIsInstalled ==
    op # NoOp /\ op.phase = "completed"
        => /\ conf = [env |-> op.target, compose |-> op.target]
           /\ server.version = op.target
           /\ deaths = 0 => validation[op.id] = [version |-> op.target, ok |-> TRUE]

(* The record is failed as UPDATE_RUNNER_STOPPED only when the runner is   *)
(* gone: a live one is found by its label even if its id was never stored. *)
StoppedIsGone ==
    op # NoOp /\ op.phase = "failed" /\ op.code = "stopped"
        => ~Alive(op.id)

(* Whatever dies, and whoever overwrites whose record, the operation does  *)
(* not stay active for ever while OpenLander is there to be asked: the     *)
(* runner ends it, or a status request does.                               *)
UpdateSettles == []<>(server.state = "down" \/ ~isActiveOperation(op))

(* The test: "records a hard failure only when automatic rollback also     *)
(* fails".  A runner that records UPDATE_ROLLBACK_FAILED has not just      *)
(* brought the previous version back, healthy and well started.            *)
HardFailureIsReal ==
    [][\A i \in Ids :
          AtVerify(i) /\ Rollback(i) /\ WaitFails(i)
              => ~(server.state = "up" /\ server.ok /\ server.version = runner[i].copy.source)]_vars

(* A failed record is true: the runner it calls stopped is gone, and one   *)
(* that stopped before the replacement left the installation as it was.    *)
FailedIsTrue == StoppedBeforeReplace /\ StoppedIsGone

=============================================================================
