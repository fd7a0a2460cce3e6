----------------------- MODULE PlatformUpdaterProofs ------------------------
(***************************************************************************)
(* For any number of operations, of status requests and of crashes, as     *)
(* long as no two status requests reconcile at the same time: only one     *)
(* runner changes the installation at a time, a rollback brings back both  *)
(* files and the container, a completed update is what is installed, and a *)
(* failed record says what happened.                                       *)
(***************************************************************************)
EXTENDS PlatformUpdater, TLAPS

(* A runner that works, or that Docker has been or will be asked for.      *)
Pending(i) ==
  \/ runner[i].step = "requested" \/ Alive(i)
  \/ start.pc = "launch" /\ start.copy.id = i

Nobody == \A i \in Ids : ~Pending(i)

(* Two records of one operation.                                           *)
Same(a, b) == a.id = b.id /\ a.source = b.source /\ a.target = b.target

(* A status request that is reconciling.                                   *)
Busy(p) == poll[p].pc \notin {"idle", "result"}

(* startUpdate: the id it takes is free until it writes the record, and    *)
(* the record is of its operation until it has added the container's id.   *)
Starting ==
  /\ start.pc = "status" => \E i \in Ids : runner[i].step = "absent"
  /\ start.pc \notin {"idle", "status"} => start.copy \in Operations
  /\ start.pc = "write" => runner[start.copy.id].step = "absent"
  /\ start.pc = "launch" => runner[start.copy.id].step = "reserved"
  /\ start.pc = "launched" => runner[start.copy.id].step \notin {"absent", "reserved"}
  /\ start.pc \in {"write", "launch", "launched"} => start.copy.phase = "preparing"
  /\ start.pc \in {"launch", "launched", "record"} =>
        op \in Operations /\ Same(op, start.copy)
  /\ start.pc = "record" /\ start.copy.phase \in Final => Nobody

(* startUpdate has been told that no operation is active.                  *)
Cleared ==
  \/ start.pc = "write"
  \/ /\ start.pc = "status" /\ poll[Starter].pc = "result"
     /\ ~isActiveOperation(poll[Starter].copy)

(* At most one request reconciles; the Starter's is startUpdate's own.     *)
OnePoller ==
  /\ \A p, q \in Pollers : Busy(p) /\ Busy(q) => p = q
  /\ \A p \in Pollers : poll[p].pc = "result" => p = Starter
  /\ poll[Starter].pc # "idle" => start.pc = "status"

(* What it has read is of the recorded operation, and once it has seen no  *)
(* runner there is none.                                                   *)
Reconciling ==
  \A p \in Pollers :
    /\ poll[p].pc \in {"read", "recovered", "failed"} =>
          poll[p].copy \in Operations /\ op \in Operations /\ Same(op, poll[p].copy)
    /\ poll[p].pc \in {"read", "recovered"} => poll[p].copy.phase \in Active
    /\ poll[p].pc = "failed" =>
          poll[p].copy.phase = "failed" /\ poll[p].copy.code = "stopped"
    /\ poll[p].pc \in {"latest", "failed"} => Nobody

(* An update is let in only when nothing is active and nobody reconciles.  *)
LetIn == Cleared => ~isActiveOperation(op) /\ \A p \in Pollers : ~Busy(p)

(* The record keeps a runner's operation active as long as there may be a  *)
(* runner of it, and is of no other operation.                             *)
Running ==
  \A i \in Ids :
    /\ Pending(i) => op \in Operations /\ op.id = i /\ op.phase \in Active
    /\ Working(i) => runner[i].copy \in Operations /\ Same(op, runner[i].copy)
    /\ runner[i].step = "write" =>
          runner[i].copy.phase = runner[i].stage /\ runner[i].copy.code = runner[i].code

(* The steps of each stage.                                                *)
Staged ==
  \A i \in Ids :
    /\ runner[i].step = "work" => runner[i].stage \in Active
    /\ runner[i].step \in {"compose", "config"} =>
          runner[i].stage \in {"pulling", "rolling_back"}
    /\ runner[i].step = "verify" => runner[i].stage = "rolling_back"

(* There is a backup from the stage after backing_up on.                   *)
BackedUp ==
  \A i \in Ids :
    /\ runner[i].step \in {"absent", "reserved", "requested", "refused", "boot"} =>
          backup[i] = NoConf
    /\ Working(i) /\ runner[i].stage \in {"preparing", "backing_up"} => backup[i] = NoConf
    /\ Working(i) /\ runner[i].stage \in {"pulling", "restarting", "verifying",
                                          "rolling_back"} => backup[i] \in Configs

(* What an operation that is recorded as completed, or as failed without a *)
(* rollback, says of the installation.                                     *)
Installed(o) ==
  /\ conf = [env |-> o.target, compose |-> o.target]
  /\ server.version = o.target
  /\ deaths = 0 =>
        server.state = "up" /\ validation[o.id] = [version |-> o.target, ok |-> TRUE]

Unchanged(o) == backup[o.id] = NoConf \/ conf = backup[o.id]

Told(o) ==
  /\ o.phase = "completed" => Installed(o)
  /\ o.phase = "failed" /\ o.code = "update" => Unchanged(o)

(* What the files and the container are at each step of the runner.        *)
Forward(i) ==
  /\ runner[i].stage = "pulling" /\ runner[i].step \in {"read", "write", "work"} =>
        conf = backup[i]
  /\ runner[i].stage = "pulling" /\ runner[i].step = "compose" =>
        conf = [backup[i] EXCEPT !.env = runner[i].copy.target]
  /\ (\/ runner[i].stage = "pulling" /\ runner[i].step = "config"
      \/ runner[i].stage \in {"restarting", "verifying"}) =>
        conf = [env |-> runner[i].copy.target, compose |-> runner[i].copy.target]
  /\ runner[i].stage = "verifying" => server.version = runner[i].copy.target

Backward(i) ==
  /\ runner[i].stage = "rolling_back" /\ runner[i].step = "compose" =>
        conf.env = runner[i].copy.source
  /\ runner[i].stage = "rolling_back" /\ runner[i].step \in {"config", "verify"} =>
        conf = [env |-> runner[i].copy.source, compose |-> backup[i].compose]
  /\ runner[i].step = "verify" => server.version = runner[i].copy.source

Ended(i) ==
  /\ runner[i].stage = "completed" => Installed(runner[i].copy)
  /\ runner[i].stage = "failed" /\ runner[i].code = "update" => Unchanged(runner[i].copy)

Files == \A i \in Ids : Working(i) => Forward(i) /\ Backward(i) /\ Ended(i)

(* What is recorded, and what startUpdate may record again, is true.       *)
Truth ==
  /\ op \in Operations => Told(op)
  /\ start.pc = "record" => Told(start.copy)

Control == Starting /\ OnePoller /\ Reconciling /\ LetIn /\ Running

IInv == TypeOK /\ Control /\ Staged /\ BackedUp /\ Files /\ Truth

Runners == [step : Steps, stage : Phases, code : Codes, copy : Record]
Validations == [version : Versions, ok : BOOLEAN] \cup {NoConf}
Servers == [version : Versions, state : {"booting", "up", "down"}, ok : BOOLEAN]
StartSteps == {"idle", "status", "write", "launch", "launched", "record"}
Starts == [pc : StartSteps, copy : Record]
PollSteps == {"idle", "read", "recovered", "latest", "failed", "result"}
Polls == [pc : PollSteps, copy : Record]

(* The type invariant with names for its sets.                             *)
Typed ==
  /\ op \in Record /\ validation \in [Ids -> Validations]
  /\ conf \in Configs /\ backup \in [Ids -> Configs \cup {NoConf}]
  /\ server \in Servers /\ start \in Starts /\ poll \in [Pollers -> Polls]
  /\ runner \in [Ids -> Runners] /\ deaths \in 0..MaxDeaths

(* TypeOK and Typed are the same, before and after a step.                 *)
LEMMA Types == (TypeOK <=> Typed) /\ (TypeOK' <=> Typed')
BY DEF TypeOK, Typed, Runners, Validations, Servers, StartSteps, Starts, PollSteps, Polls

(* A record other than NoOp is that of an operation.                       *)
LEMMA RecordFacts ==
  /\ \A o \in Record : o # NoOp <=> o \in Operations
  /\ \A o \in Operations : o \in Record /\ o # NoOp
  /\ \A o \in Record : isActiveOperation(o) <=> o \in Operations /\ o.phase \in Active
  /\ NoOp \notin Operations /\ NoOp \in Record /\ ~isActiveOperation(NoOp)
<1>1. 0 \notin Ids
  BY UpdaterAssumption DEF Ids
<1>2. NoOp \notin Operations
  BY <1>1 DEF NoOp, Operations
<1> QED BY <1>2 DEF Record, isActiveOperation

(* A changed record is a record of the same operation.                     *)
LEMMA OperationUpdates ==
  ASSUME NEW o \in Operations
  PROVE  /\ o.id \in Ids /\ o.source \in Versions /\ o.target \in Versions
         /\ [o EXCEPT !.known = TRUE] \in Operations
         /\ Same(o, [o EXCEPT !.known = TRUE])
         /\ [o EXCEPT !.known = TRUE].phase = o.phase
         /\ [o EXCEPT !.known = TRUE].code = o.code
BY DEF Operations, Same

(* What the operators that move a request or a runner on do.               *)
LEMMA PollToEffect ==
  ASSUME TypeOK, NEW p \in Pollers, NEW pc \in PollSteps, NEW copy \in Record,
         pollTo(p, pc, copy)
  PROVE  /\ poll' \in [Pollers -> Polls]
         /\ poll'[p].pc = pc /\ poll'[p].copy = copy
         /\ \A q \in Pollers \ {p} : poll'[q] = poll[q]
<1>1. poll \in [Pollers -> Polls] /\ poll' = [poll EXCEPT ![p] = [pc |-> pc, copy |-> copy]]
  BY Types DEF Typed, pollTo
<1>2. [pc |-> pc, copy |-> copy] \in Polls
  BY DEF Polls
<1> QED BY <1>1, <1>2

(* startUpdate goes on.                                                    *)
LEMMA StartToEffect ==
  ASSUME NEW pc \in StartSteps, NEW copy \in Record, startTo(pc, copy)
  PROVE  start' \in Starts /\ start'.pc = pc /\ start'.copy = copy
BY DEF startTo, Starts

(* A status request ends: only startUpdate's own keeps the answer.         *)
LEMMA ReturnsEffect ==
  ASSUME TypeOK, NEW p \in Pollers, NEW o \in Record, returns(p, o)
  PROVE  /\ poll' \in [Pollers -> Polls]
         /\ poll'[p].pc = (IF p = Starter THEN "result" ELSE "idle")
         /\ poll'[p].copy = (IF p = Starter /\ isActiveOperation(o) THEN o ELSE NoOp)
         /\ \A q \in Pollers \ {p} : poll'[q] = poll[q]
<1>1. CASE p = Starter
  <2>1. pollTo(p, "result", IF isActiveOperation(o) THEN o ELSE NoOp)
    BY <1>1 DEF returns
  <2> QED BY <1>1, <2>1, PollToEffect, RecordFacts DEF PollSteps
<1>2. CASE p # Starter
  <2>1. pollTo(p, "idle", NoOp)
    BY <1>2 DEF returns
  <2> QED BY <1>2, <2>1, PollToEffect, RecordFacts DEF PollSteps
<1> QED BY <1>1, <1>2

(* A runner goes on within its stage.                                      *)
LEMMA RunnerToEffect ==
  ASSUME TypeOK, NEW i \in Ids, NEW step \in Steps, RunnerTo(i, step)
  PROVE  /\ runner' \in [Ids -> Runners]
         /\ runner'[i].step = step /\ runner'[i].stage = runner[i].stage
         /\ runner'[i].code = runner[i].code /\ runner'[i].copy = runner[i].copy
         /\ \A j \in Ids \ {i} : runner'[j] = runner[j]
<1>1. runner \in [Ids -> Runners] /\ runner' = [runner EXCEPT ![i].step = step]
  BY Types DEF Typed, RunnerTo
<1>2. runner[i] \in Runners
  BY <1>1
<1>3. [runner[i] EXCEPT !.step = step] \in Runners
  BY <1>2 DEF Runners
<1> QED BY <1>1, <1>2, <1>3 DEF Runners

(* A runner goes on to another stage.                                      *)
LEMMA StageToEffect ==
  ASSUME TypeOK, NEW i \in Ids, NEW stage \in Phases, NEW code \in Codes,
         stageTo(i, stage, code)
  PROVE  /\ runner' \in [Ids -> Runners]
         /\ runner'[i].step = "read" /\ runner'[i].stage = stage
         /\ runner'[i].code = code /\ runner'[i].copy = runner[i].copy
         /\ \A j \in Ids \ {i} : runner'[j] = runner[j]
<1>1. /\ runner \in [Ids -> Runners]
      /\ runner' = [runner EXCEPT ![i].step = "read", ![i].stage = stage, ![i].code = code]
  BY Types DEF Typed, stageTo
<1>2. runner[i] \in Runners /\ "read" \in Steps
  BY <1>1 DEF Steps
<1>3. [[[runner[i] EXCEPT !.step = "read"] EXCEPT !.stage = stage] EXCEPT !.code = code]
        \in Runners
  BY <1>2 DEF Runners
<1> QED BY <1>1, <1>2, <1>3 DEF Runners

(* A process that is replaced takes its requests with it.                  *)
LEMMA IdleTyped ==
  /\ Idle \in Starts /\ Idle \in Polls
  /\ Idle.pc = "idle" /\ Idle.copy = NoOp
BY RecordFacts DEF Idle, Starts, Polls, StartSteps, PollSteps

(* A runner that does not run.                                             *)
LEMMA NoRunnerTyped ==
  ASSUME NEW step \in Steps
  PROVE  /\ NoRunner(step) \in Runners
         /\ NoRunner(step).step = step /\ NoRunner(step).stage = "preparing"
         /\ NoRunner(step).code = "none" /\ NoRunner(step).copy = NoOp
BY RecordFacts DEF NoRunner, Runners, Phases, Active, Codes

(* The types of what requests and runners hold.                            *)
LEMMA Fields ==
  ASSUME TypeOK
  PROVE  /\ op \in Record /\ start.pc \in StartSteps /\ start.copy \in Record
         /\ \A p \in Pollers : poll[p].pc \in PollSteps /\ poll[p].copy \in Record
         /\ \A i \in Ids : /\ runner[i].step \in Steps /\ runner[i].stage \in Phases
                           /\ runner[i].code \in Codes /\ runner[i].copy \in Record
         /\ conf.env \in Versions /\ conf.compose \in Versions
         /\ server.version \in Versions
<1>1. Typed
  BY Types
<1>2. start \in Starts /\ (\A p \in Pollers : poll[p] \in Polls)
      /\ (\A i \in Ids : runner[i] \in Runners)
  BY <1>1 DEF Typed
<1>3. start.pc \in StartSteps /\ start.copy \in Record
  BY <1>2 DEF Starts
<1>4. \A p \in Pollers : poll[p].pc \in PollSteps /\ poll[p].copy \in Record
  BY <1>2 DEF Polls
<1>5. \A i \in Ids : /\ runner[i].step \in Steps /\ runner[i].stage \in Phases
                     /\ runner[i].code \in Codes /\ runner[i].copy \in Record
  BY <1>2 DEF Runners
<1>6. /\ conf.env \in Versions /\ conf.compose \in Versions /\ op \in Record
      /\ server.version \in Versions
  BY <1>1 DEF Typed, Configs, Servers
<1> QED BY <1>3, <1>4, <1>5, <1>6

(* The step a runner is at says whether it works.                          *)
LEMMA WorkingSteps ==
  ASSUME NEW i \in Ids
  PROVE  /\ runner[i].step \in {"read", "write", "work", "compose", "config", "verify"}
              => Working(i) /\ Alive(i) /\ Pending(i)
         /\ runner[i].step \in {"boot", "requested"} => Pending(i)
         /\ Working(i) => Alive(i) /\ Pending(i) /\ runner[i].step # "boot"
         /\ Alive(i) => Pending(i)
BY DEF Working, Alive, Pending

(* What requests, startUpdate and runners hold is of an operation.         *)
LEMMA Copies ==
  ASSUME TypeOK, Control
  PROVE  /\ start.pc \notin {"idle", "status"} =>
              start.copy \in Operations /\ start.copy.id \in Ids
         /\ \A p \in Pollers : poll[p].pc \in {"read", "recovered", "failed"} =>
              /\ poll[p].copy \in Operations /\ poll[p].copy.id \in Ids
              /\ op \in Operations /\ Same(op, poll[p].copy)
         /\ \A i \in Ids : Pending(i) => op \in Operations /\ op.id = i /\ op.phase \in Active
         /\ \A i \in Ids : Working(i) =>
              runner[i].copy \in Operations /\ runner[i].copy.id = i /\ Same(op, runner[i].copy)
<1>1. start.pc \notin {"idle", "status"} =>
        start.copy \in Operations /\ start.copy.id \in Ids
  BY OperationUpdates DEF Control, Starting
<1>2. \A p \in Pollers : poll[p].pc \in {"read", "recovered", "failed"} =>
        /\ poll[p].copy \in Operations /\ poll[p].copy.id \in Ids
        /\ op \in Operations /\ Same(op, poll[p].copy)
  BY OperationUpdates DEF Control, Reconciling
<1>3. \A i \in Ids : Pending(i) => op \in Operations /\ op.id = i /\ op.phase \in Active
  BY DEF Control, Running
<1>4. \A i \in Ids : Working(i) =>
        runner[i].copy \in Operations /\ runner[i].copy.id = i /\ Same(op, runner[i].copy)
  BY <1>3, WorkingSteps DEF Control, Running, Same
<1> QED BY <1>1, <1>2, <1>3, <1>4

-----------------------------------------------------------------------------
(* What each step does.                                                    *)

(* getStatus reads the record; only an active one is reconciled.           *)
LEMMA GetStatusEffect ==
  ASSUME TypeOK, NEW p \in Pollers, GetStatus(p)
  PROVE  /\ poll[p].pc = "idle" /\ (p = Starter => start.pc = "status")
         /\ ~Overlap => \A q \in Pollers : ~Busy(q)
         /\ poll' \in [Pollers -> Polls] /\ \A q \in Pollers \ {p} : poll'[q] = poll[q]
         /\ \/ /\ op \in Operations /\ op.phase \in Active
               /\ poll'[p].pc = "read" /\ poll'[p].copy = op
            \/ /\ ~isActiveOperation(op) /\ p # Starter /\ poll'[p].pc = "idle"
            \/ /\ ~isActiveOperation(op) /\ p = Starter /\ poll'[p].pc = "result"
               /\ poll'[p].copy = NoOp
         /\ UNCHANGED <<op, validation, conf, backup, server, start, runner, deaths>>
<1>1. /\ poll[p].pc = "idle" /\ (p = Starter => start.pc = "status")
      /\ ~Overlap => \A q \in Pollers : ~Busy(q)
      /\ UNCHANGED <<op, validation, conf, backup, server, start, runner, deaths>>
  BY DEF GetStatus, Busy
<1>2. CASE isActiveOperation(op)
  <2>1. pollTo(p, "read", op)
    BY <1>2 DEF GetStatus
  <2> QED BY <1>1, <1>2, <2>1, PollToEffect, Fields, RecordFacts DEF PollSteps
<1>3. CASE ~isActiveOperation(op)
  <2>1. returns(p, op)
    BY <1>3 DEF GetStatus
  <2> QED BY <1>1, <1>3, <2>1, ReturnsEffect, Fields
<1> QED BY <1>2, <1>3

(* A recent record is returned as it is.                                   *)
LEMMA WithinGraceEffect ==
  ASSUME TypeOK, Control, NEW p \in Pollers, WithinGrace(p)
  PROVE  /\ poll[p].pc = "read"
         /\ poll' \in [Pollers -> Polls] /\ \A q \in Pollers \ {p} : poll'[q] = poll[q]
         /\ \/ p # Starter /\ poll'[p].pc = "idle"
            \/ p = Starter /\ poll'[p].pc = "result" /\ poll'[p].copy = poll[p].copy
         /\ isActiveOperation(poll[p].copy)
         /\ UNCHANGED <<op, validation, conf, backup, server, start, runner, deaths>>
<1>1. /\ poll[p].pc = "read" /\ returns(p, poll[p].copy)
      /\ UNCHANGED <<op, validation, conf, backup, server, start, runner, deaths>>
  BY DEF WithinGrace
<1>2. isActiveOperation(poll[p].copy)
  BY <1>1, Fields, Copies, RecordFacts DEF Control, Reconciling
<1> QED BY <1>1, <1>2, Fields, ReturnsEffect

(* Docker is asked: who finds no runner goes on to read the record again.  *)
LEMMA InspectRunnerEffect ==
  ASSUME TypeOK, Control, NEW p \in Pollers, InspectRunner(p)
  PROVE  /\ poll[p].pc = "read" /\ poll[p].copy.id \in Ids /\ isActiveOperation(poll[p].copy)
         /\ poll' \in [Pollers -> Polls] /\ \A q \in Pollers \ {p} : poll'[q] = poll[q]
         /\ \/ p # Starter /\ poll'[p].pc = "idle"
            \/ p = Starter /\ poll'[p].pc = "result" /\ poll'[p].copy = poll[p].copy
            \/ /\ poll'[p].pc = "recovered"
               /\ poll'[p].copy \in Operations /\ poll'[p].copy.phase = poll[p].copy.phase
               /\ Same(poll[p].copy, poll'[p].copy)
            \/ poll'[p].pc = "latest" /\ ~Pending(poll[p].copy.id)
         /\ UNCHANGED <<op, validation, conf, backup, server, start, runner, deaths>>
<1>1. /\ poll[p].pc = "read"
      /\ UNCHANGED <<op, validation, conf, backup, server, start, runner, deaths>>
  BY DEF InspectRunner
<1>2. /\ poll[p].copy.id \in Ids /\ poll[p].copy \in Operations
      /\ isActiveOperation(poll[p].copy)
  BY <1>1, Fields, Copies, RecordFacts DEF Control, Reconciling
<1>3. CASE returns(p, poll[p].copy)
  BY <1>1, <1>2, <1>3, Fields, ReturnsEffect
<1>4. CASE pollTo(p, "recovered", [poll[p].copy EXCEPT !.known = TRUE])
  <2>1. [poll[p].copy EXCEPT !.known = TRUE] \in Operations
        /\ [poll[p].copy EXCEPT !.known = TRUE].phase = poll[p].copy.phase
        /\ Same(poll[p].copy, [poll[p].copy EXCEPT !.known = TRUE])
    BY <1>2, OperationUpdates
  <2>2. [poll[p].copy EXCEPT !.known = TRUE] \in Record
    BY <2>1, RecordFacts
  <2>3. /\ poll' \in [Pollers -> Polls] /\ poll'[p].pc = "recovered"
        /\ poll'[p].copy = [poll[p].copy EXCEPT !.known = TRUE]
        /\ \A q \in Pollers \ {p} : poll'[q] = poll[q]
    BY <1>4, <2>2, PollToEffect DEF PollSteps
  <2> QED BY <1>1, <1>2, <2>1, <2>3
<1>5. CASE /\ ~Alive(poll[p].copy.id) /\ ~Launching(poll[p].copy.id)
           /\ pollTo(p, "latest", NoOp)
  <2>1. ~Pending(poll[p].copy.id)
    BY <1>5 DEF Pending, Launching
  <2> QED BY <1>1, <1>2, <1>5, <2>1, PollToEffect, RecordFacts DEF PollSteps
<1> QED BY <1>3, <1>4, <1>5 DEF InspectRunner

(* The container id is added to an active record of the operation.         *)
LEMMA WriteRecoveredEffect ==
  ASSUME TypeOK, Control, NEW p \in Pollers, WriteRecovered(p)
  PROVE  /\ poll[p].pc = "recovered" /\ isActiveOperation(poll[p].copy)
         /\ op \in Operations /\ op' = poll[p].copy /\ op' \in Operations
         /\ op'.phase \in Active /\ Same(op, op')
         /\ poll' \in [Pollers -> Polls] /\ \A q \in Pollers \ {p} : poll'[q] = poll[q]
         /\ \/ p # Starter /\ poll'[p].pc = "idle"
            \/ p = Starter /\ poll'[p].pc = "result" /\ poll'[p].copy = poll[p].copy
         /\ UNCHANGED <<validation, conf, backup, server, start, runner, deaths>>
<1>1. /\ poll[p].pc = "recovered" /\ returns(p, poll[p].copy) /\ op' = poll[p].copy
      /\ UNCHANGED <<validation, conf, backup, server, start, runner, deaths>>
  BY DEF WriteRecovered
<1>2. /\ poll[p].copy \in Operations /\ op \in Operations /\ Same(op, poll[p].copy)
      /\ poll[p].copy.phase \in Active /\ isActiveOperation(poll[p].copy)
  BY <1>1, Fields, Copies, RecordFacts DEF Control, Reconciling
<1> QED BY <1>1, <1>2, Fields, ReturnsEffect

(* The record is read again once the runner is known to be gone.           *)
LEMMA ReadLatestEffect ==
  ASSUME TypeOK, NEW p \in Pollers, ReadLatest(p)
  PROVE  /\ poll[p].pc = "latest"
         /\ poll' \in [Pollers -> Polls] /\ \A q \in Pollers \ {p} : poll'[q] = poll[q]
         /\ \/ /\ op \in Operations /\ poll'[p].pc = "failed"
               /\ poll'[p].copy \in Operations /\ Same(op, poll'[p].copy)
               /\ poll'[p].copy.phase = "failed" /\ poll'[p].copy.code = "stopped"
            \/ ~isActiveOperation(op) /\ p # Starter /\ poll'[p].pc = "idle"
            \/ /\ ~isActiveOperation(op) /\ p = Starter /\ poll'[p].pc = "result"
               /\ poll'[p].copy = NoOp
         /\ UNCHANGED <<op, validation, conf, backup, server, start, runner, deaths>>
<1>1. /\ poll[p].pc = "latest"
      /\ UNCHANGED <<op, validation, conf, backup, server, start, runner, deaths>>
  BY DEF ReadLatest
<1>2. CASE isActiveOperation(op)
  <2> DEFINE n == [op EXCEPT !.phase = "failed", !.code = "stopped"]
  <2>1. pollTo(p, "failed", n) /\ op \in Operations
    BY <1>2, Fields, RecordFacts DEF ReadLatest
  <2>2. n \in Operations /\ n.phase = "failed" /\ n.code = "stopped" /\ Same(op, n)
    BY <2>1 DEF Operations, Same, Phases, Final, Codes
  <2> HIDE DEF n
  <2> QED BY <1>1, <2>1, <2>2, PollToEffect, RecordFacts DEF PollSteps
<1>3. CASE ~isActiveOperation(op)
  <2>1. returns(p, op)
    BY <1>3 DEF ReadLatest
  <2> QED BY <1>1, <1>3, <2>1, ReturnsEffect, Fields
<1> QED BY <1>2, <1>3

(* The operation of a runner that is gone is failed.                       *)
LEMMA WriteFailedEffect ==
  ASSUME TypeOK, Control, NEW p \in Pollers, WriteFailed(p)
  PROVE  /\ poll[p].pc = "failed" /\ Nobody
         /\ op \in Operations /\ op' = poll[p].copy /\ op' \in Operations
         /\ op'.phase = "failed" /\ op'.code = "stopped" /\ Same(op, op')
         /\ poll' \in [Pollers -> Polls] /\ \A q \in Pollers \ {p} : poll'[q] = poll[q]
         /\ \/ p # Starter /\ poll'[p].pc = "idle"
            \/ p = Starter /\ poll'[p].pc = "result" /\ poll'[p].copy = NoOp
         /\ UNCHANGED <<validation, conf, backup, server, start, runner, deaths>>
<1>1. /\ poll[p].pc = "failed" /\ returns(p, poll[p].copy) /\ op' = poll[p].copy
      /\ UNCHANGED <<validation, conf, backup, server, start, runner, deaths>>
  BY DEF WriteFailed
<1>2. /\ poll[p].copy \in Operations /\ op \in Operations /\ Same(op, poll[p].copy)
      /\ poll[p].copy.phase = "failed" /\ poll[p].copy.code = "stopped" /\ Nobody
  BY <1>1, Copies DEF Control, Reconciling
<1>3. ~isActiveOperation(poll[p].copy)
  BY <1>2, Fields, RecordFacts DEF Active
<1> QED BY <1>1, <1>2, <1>3, Fields, ReturnsEffect

(* startUpdate begins when an id is left.                                  *)
LEMMA StartUpdateEffect ==
  ASSUME StartUpdate
  PROVE  /\ start.pc = "idle" /\ \E i \in Ids : runner[i].step = "absent"
         /\ start' \in Starts /\ start'.pc = "status" /\ start'.copy = NoOp
         /\ UNCHANGED <<op, validation, conf, backup, server, poll, runner, deaths>>
BY StartToEffect, RecordFacts DEF StartUpdate, StartSteps

(* startUpdate gives up.                                                   *)
LEMMA RefuseEffect ==
  ASSUME TypeOK, Refuse
  PROVE  /\ start' \in Starts /\ start'.pc = "idle" /\ start'.copy = NoOp
         /\ poll' \in [Pollers -> Polls] /\ poll'[Starter].pc = "idle"
         /\ \A q \in Pollers \ {Starter} : poll'[q] = poll[q]
         /\ UNCHANGED <<op, validation, conf, backup, server, runner, deaths>>
<1>1. startTo("idle", NoOp) /\ pollTo(Starter, "idle", NoOp)
      /\ UNCHANGED <<op, validation, conf, backup, server, runner, deaths>>
  BY DEF Refuse
<1> QED
  BY <1>1, UpdaterAssumption, StartToEffect, PollToEffect, RecordFacts
     DEF StartSteps, PollSteps

(* startUpdate is let in and takes an id nobody has.                       *)
LEMMA AcceptEffect ==
  ASSUME TypeOK, Control, Accept
  PROVE  /\ start.pc = "status" /\ Cleared
         /\ start' \in Starts /\ start'.pc = "write"
         /\ start'.copy \in Operations /\ start'.copy.phase = "preparing"
         /\ runner[start'.copy.id].step = "absent"
         /\ poll' \in [Pollers -> Polls] /\ poll'[Starter].pc = "idle"
         /\ \A q \in Pollers \ {Starter} : poll'[q] = poll[q]
         /\ UNCHANGED <<op, validation, conf, backup, server, runner, deaths>>
<1>1. /\ start.pc = "status" /\ Cleared /\ server.version + 1 \in Versions
      /\ startTo("write", NewOperation) /\ pollTo(Starter, "idle", NoOp)
      /\ UNCHANGED <<op, validation, conf, backup, server, runner, deaths>>
  BY DEF Accept, Cleared
<1>2. \E i \in Ids : runner[i].step = "absent"
  BY <1>1 DEF Control, Starting
<1>3. FreshId \in Ids /\ runner[FreshId].step = "absent"
  BY <1>2 DEF FreshId
<1>4. /\ NewOperation \in Operations /\ NewOperation.phase = "preparing"
      /\ NewOperation.id = FreshId
  BY <1>1, <1>3, Fields DEF NewOperation, Operations, Phases, Active, Codes
<1>5. /\ start' \in Starts /\ start'.pc = "write" /\ start'.copy = NewOperation
  BY <1>1, <1>4, StartToEffect, RecordFacts DEF StartSteps
<1>6. /\ poll' \in [Pollers -> Polls] /\ poll'[Starter].pc = "idle"
      /\ \A q \in Pollers \ {Starter} : poll'[q] = poll[q]
  BY <1>1, UpdaterAssumption, PollToEffect, RecordFacts DEF PollSteps
<1> QED BY <1>1, <1>3, <1>4, <1>5, <1>6

(* The record becomes that of the new operation.                           *)
LEMMA WriteOperationEffect ==
  ASSUME TypeOK, Control, WriteOperation
  PROVE  LET i == start.copy.id IN
         /\ start.pc = "write" /\ op' = start.copy
         /\ start' \in Starts /\ start'.pc = "launch" /\ start'.copy = start.copy
         /\ runner' \in [Ids -> Runners] /\ runner'[i].step = "reserved"
         /\ \A j \in Ids \ {i} : runner'[j] = runner[j]
         /\ validation' \in [Ids -> Validations]
         /\ backup' \in [Ids -> Configs \cup {NoConf}]
         /\ \A j \in Ids : runner[j].step # "gone" =>
               validation'[j] = validation[j] /\ backup'[j] = backup[j]
         /\ UNCHANGED <<conf, server, poll, deaths>>
<1> DEFINE i == start.copy.id
<1>1. /\ start.pc = "write" /\ op' = start.copy
      /\ startTo("launch", start.copy) /\ RunnerTo(i, "reserved")
      /\ validation' = Forget(validation) /\ backup' = Forget(backup)
      /\ UNCHANGED <<conf, server, poll, deaths>>
  BY DEF WriteOperation
<1>2. i \in Ids /\ start.copy \in Record
  BY <1>1, Copies, Fields
<1>3. /\ start' \in Starts /\ start'.pc = "launch" /\ start'.copy = start.copy
  BY <1>1, <1>2, StartToEffect DEF StartSteps
<1>4. /\ runner' \in [Ids -> Runners] /\ runner'[i].step = "reserved"
      /\ \A j \in Ids \ {i} : runner'[j] = runner[j]
  BY <1>1, <1>2, RunnerToEffect DEF Steps
<1>5. /\ validation \in [Ids -> Validations] /\ backup \in [Ids -> Configs \cup {NoConf}]
  BY Types DEF Typed
<1>6. /\ validation' \in [Ids -> Validations]
      /\ backup' \in [Ids -> Configs \cup {NoConf}]
      /\ \A j \in Ids : runner[j].step # "gone" =>
            validation'[j] = validation[j] /\ backup'[j] = backup[j]
  BY <1>1, <1>5 DEF Forget, Validations
<1> HIDE DEF i
<1> QED BY <1>1, <1>3, <1>4, <1>6 DEF i

(* Docker is asked for the runner.                                         *)
LEMMA RunUtilityContainerEffect ==
  ASSUME TypeOK, Control, RunUtilityContainer
  PROVE  LET i == start.copy.id IN
         /\ start.pc = "launch"
         /\ start' \in Starts /\ start'.pc = "launched" /\ start'.copy = start.copy
         /\ runner' \in [Ids -> Runners] /\ runner'[i].step = "requested"
         /\ \A j \in Ids \ {i} : runner'[j] = runner[j]
         /\ UNCHANGED <<op, validation, conf, backup, server, poll, deaths>>
<1> DEFINE i == start.copy.id
<1>1. /\ start.pc = "launch" /\ startTo("launched", start.copy) /\ RunnerTo(i, "requested")
      /\ UNCHANGED <<op, validation, conf, backup, server, poll, deaths>>
  BY DEF RunUtilityContainer
<1>2. i \in Ids /\ start.copy \in Record
  BY <1>1, Copies, Fields
<1>3. /\ start' \in Starts /\ start'.pc = "launched" /\ start'.copy = start.copy
  BY <1>1, <1>2, StartToEffect DEF StartSteps
<1>4. /\ runner' \in [Ids -> Runners] /\ runner'[i].step = "requested"
      /\ \A j \in Ids \ {i} : runner'[j] = runner[j]
  BY <1>1, <1>2, RunnerToEffect DEF Steps
<1> HIDE DEF i
<1> QED BY <1>1, <1>3, <1>4 DEF i

(* Docker starts the runner or refuses.                                    *)
LEMMA DockerStartsEffect ==
  ASSUME TypeOK, NEW i \in Ids, DockerStarts(i)
  PROVE  /\ runner[i].step = "requested"
         /\ runner' \in [Ids -> Runners] /\ runner'[i].step \in {"boot", "refused"}
         /\ \A j \in Ids \ {i} : runner'[j] = runner[j]
         /\ UNCHANGED <<op, validation, conf, backup, server, start, poll, deaths>>
BY RunnerToEffect DEF DockerStarts, Steps

(* startUpdate reads the record again: it is still of its operation.       *)
LEMMA ReadAfterLaunchEffect ==
  ASSUME TypeOK, Control, ReadAfterLaunch
  PROVE  /\ start.pc = "launched"
         /\ start' \in Starts /\ start'.pc = "record" /\ start'.copy = op
         /\ op \in Operations
         /\ UNCHANGED <<op, validation, conf, backup, server, poll, runner, deaths>>
<1>1. /\ start.pc = "launched"
      /\ startTo("record", IF op # NoOp /\ op.id = start.copy.id THEN op ELSE start.copy)
      /\ UNCHANGED <<op, validation, conf, backup, server, poll, runner, deaths>>
  BY DEF ReadAfterLaunch
<1>2. op \in Operations /\ op.id = start.copy.id
  BY <1>1 DEF Control, Starting, Same
<1>3. startTo("record", op) /\ op \in Record
  BY <1>1, <1>2, RecordFacts
<1> QED BY <1>1, <1>2, <1>3, StartToEffect DEF StartSteps

(* startUpdate writes what it read, with the container id.                 *)
LEMMA WriteRunnerIdEffect ==
  ASSUME TypeOK, Control, WriteRunnerId
  PROVE  /\ start.pc = "record" /\ start.copy \in Operations
         /\ op' \in Operations /\ Same(op, op') /\ Same(start.copy, op')
         /\ op'.phase = start.copy.phase /\ op'.code = start.copy.code
         /\ start' \in Starts /\ start'.pc = "idle" /\ start'.copy = NoOp
         /\ UNCHANGED <<validation, conf, backup, server, poll, runner, deaths>>
<1>1. /\ start.pc = "record" /\ op' = [start.copy EXCEPT !.known = TRUE]
      /\ startTo("idle", NoOp)
      /\ UNCHANGED <<validation, conf, backup, server, poll, runner, deaths>>
  BY DEF WriteRunnerId
<1>2. start.copy \in Operations /\ Same(op, start.copy)
  BY <1>1 DEF Control, Starting
<1>3. /\ op' \in Operations /\ Same(start.copy, op')
      /\ op'.phase = start.copy.phase /\ op'.code = start.copy.code
  BY <1>1, <1>2, OperationUpdates
<1>4. Same(op, op')
  BY <1>2, <1>3 DEF Same
<1> QED BY <1>1, <1>2, <1>3, <1>4, StartToEffect, RecordFacts DEF StartSteps

(* startUpdate fails the operation that Docker refused.                    *)
LEMMA LaunchFailedEffect ==
  ASSUME TypeOK, Control, LaunchFailed
  PROVE  /\ start.pc = "launched" /\ start.copy \in Operations
         /\ runner[start.copy.id].step = "refused"
         /\ op' \in Operations /\ Same(op, op') /\ Same(start.copy, op')
         /\ op'.phase = "failed" /\ op'.code = "start"
         /\ start' \in Starts /\ start'.pc = "idle" /\ start'.copy = NoOp
         /\ UNCHANGED <<validation, conf, backup, server, poll, runner, deaths>>
<1>1. /\ start.pc = "launched" /\ runner[start.copy.id].step = "refused"
      /\ op' = [start.copy EXCEPT !.phase = "failed", !.code = "start"]
      /\ startTo("idle", NoOp)
      /\ UNCHANGED <<validation, conf, backup, server, poll, runner, deaths>>
  BY DEF LaunchFailed
<1>2. start.copy \in Operations /\ Same(op, start.copy)
  BY <1>1 DEF Control, Starting
<1>3. /\ op' \in Operations /\ Same(start.copy, op')
      /\ op'.phase = "failed" /\ op'.code = "start"
  <2>1. "failed" \in Phases /\ "start" \in Codes
    BY DEF Phases, Final, Codes
  <2> QED BY <1>1, <1>2, <2>1 DEF Operations, Same
<1>4. Same(op, op')
  BY <1>2, <1>3 DEF Same
<1> QED BY <1>1, <1>2, <1>3, <1>4, StartToEffect, RecordFacts DEF StartSteps

(* A runner that goes on to a step leaves the others alone.                *)
Moves(i, step, stage, code, copy) ==
  /\ runner' \in [Ids -> Runners] /\ \A j \in Ids \ {i} : runner'[j] = runner[j]
  /\ runner'[i].step = step /\ runner'[i].stage = stage
  /\ runner'[i].code = code /\ runner'[i].copy = copy

(* A runner that is replaced as a whole.                                   *)
LEMMA SetRunner ==
  ASSUME TypeOK, NEW i \in Ids, NEW r \in Runners, runner' = [runner EXCEPT ![i] = r]
  PROVE  Moves(i, r.step, r.stage, r.code, r.copy)
<1>1. runner \in [Ids -> Runners]
  BY Types DEF Typed
<1> QED BY <1>1 DEF Moves

(* RunnerTo in these terms.                                                *)
LEMMA RunnerToMoves ==
  ASSUME TypeOK, NEW i \in Ids, NEW step \in Steps, RunnerTo(i, step)
  PROVE  Moves(i, step, runner[i].stage, runner[i].code, runner[i].copy)
BY RunnerToEffect DEF Moves

(* stageTo in these terms.                                                 *)
LEMMA StageToMoves ==
  ASSUME TypeOK, NEW i \in Ids, NEW stage \in Phases, NEW code \in Codes,
         stageTo(i, stage, code)
  PROVE  Moves(i, "read", stage, code, runner[i].copy)
BY StageToEffect DEF Moves

(* The three ways out of the catch block.                                  *)
LEMMA FailMoves ==
  ASSUME TypeOK, NEW i \in Ids, Fail(i)
  PROVE  \/ /\ Rollback(i)
            /\ Moves(i, "read", "failed", "rollback", runner[i].copy)
         \/ /\ ~Rollback(i) /\ FilesChanged(i)
            /\ Moves(i, "read", "rolling_back", "update", runner[i].copy)
         \/ /\ ~Rollback(i) /\ ~FilesChanged(i)
            /\ Moves(i, "read", "failed", "update", runner[i].copy)
<1>1. {"failed", "rolling_back"} \subseteq Phases /\ {"rollback", "update"} \subseteq Codes
  BY DEF Phases, Active, Final, Codes
<1> QED BY <1>1, StageToMoves DEF Fail, Rollback

(* A runner finds the record of its operation.                             *)
LEMMA BootEffect ==
  ASSUME TypeOK, Control, NEW i \in Ids, Boot(i)
  PROVE  /\ runner[i].step = "boot"
         /\ Moves(i, "read", "preparing", "none", op)
         /\ UNCHANGED <<op, validation, conf, backup, server, start, poll, deaths>>
<1>1. /\ runner[i].step = "boot"
      /\ UNCHANGED <<op, validation, conf, backup, server, start, poll, deaths>>
  BY DEF Boot, runnerOnly
<1>2. op \in Operations /\ op.id = i /\ op \in Record /\ op # NoOp
  BY <1>1, WorkingSteps, Copies, RecordFacts
<1> DEFINE r == [step |-> "read", stage |-> "preparing", code |-> "none", copy |-> op]
<1>3. runner' = [runner EXCEPT ![i] = r]
  BY <1>2 DEF Boot
<1>4. r \in Runners
  BY <1>2 DEF Runners, Steps, Phases, Active, Codes
<1>5. Moves(i, r.step, r.stage, r.code, r.copy)
  BY <1>3, <1>4, SetRunner
<1> QED BY <1>1, <1>5

(* A runner reads the record and sets the phase of its stage.              *)
LEMMA ReadOperationEffect ==
  ASSUME TypeOK, Control, NEW i \in Ids, ReadOperation(i)
  PROVE  /\ runner[i].step = "read"
         /\ \E copy \in Operations :
               /\ copy.phase = runner[i].stage /\ copy.code = runner[i].code
               /\ Same(op, copy)
               /\ Moves(i, "write", runner[i].stage, runner[i].code, copy)
         /\ UNCHANGED <<op, validation, conf, backup, server, start, poll, deaths>>
<1> DEFINE copy == [op EXCEPT !.phase = runner[i].stage, !.code = runner[i].code]
           r == [[runner[i] EXCEPT !.step = "write"] EXCEPT !.copy = copy]
<1>1. /\ runner[i].step = "read"
      /\ UNCHANGED <<op, validation, conf, backup, server, start, poll, deaths>>
  BY DEF ReadOperation, runnerOnly
<1>2. op \in Operations /\ op.id = i /\ op # NoOp
  BY <1>1, WorkingSteps, Copies, RecordFacts
<1>3. runner' = [runner EXCEPT ![i].step = "write", ![i].copy = copy]
  BY <1>2 DEF ReadOperation
<1>4. /\ copy \in Operations /\ Same(op, copy)
      /\ copy.phase = runner[i].stage /\ copy.code = runner[i].code
  <2>1. runner[i].stage \in Phases /\ runner[i].code \in Codes
    BY Fields
  <2> QED BY <1>2, <2>1 DEF Operations, Same
<1>5. runner \in [Ids -> Runners] /\ runner[i] \in Runners
  BY Types DEF Typed
<1> HIDE DEF copy
<1>6. /\ r \in Runners /\ r.step = "write" /\ r.stage = runner[i].stage
      /\ r.code = runner[i].code /\ r.copy = copy
  BY <1>4, <1>5, RecordFacts DEF Runners, Steps
<1>7. runner' = [runner EXCEPT ![i] = r]
  BY <1>3, <1>5
<1>8. Moves(i, r.step, r.stage, r.code, r.copy)
  BY <1>6, <1>7, SetRunner
<1>9. Moves(i, "write", runner[i].stage, runner[i].code, copy)
  BY <1>6, <1>8
<1> QED BY <1>1, <1>4, <1>9

(* A runner writes the record, and exits after a final phase.              *)
LEMMA TransitionEffect ==
  ASSUME TypeOK, Control, NEW i \in Ids, Transition(i)
  PROVE  /\ runner[i].step = "write" /\ op \in Operations
         /\ op' = runner[i].copy /\ op' \in Operations /\ Same(op, op')
         /\ op'.phase = runner[i].stage /\ op'.code = runner[i].code
         /\ \/ /\ runner[i].stage \in Final
               /\ Moves(i, "gone", "preparing", "none", NoOp)
            \/ /\ runner[i].stage \in Active
               /\ Moves(i, "work", runner[i].stage, runner[i].code, runner[i].copy)
         /\ UNCHANGED <<validation, conf, backup, server, start, poll, deaths>>
<1>1. /\ runner[i].step = "write" /\ op' = runner[i].copy
      /\ UNCHANGED <<validation, conf, backup, server, start, poll, deaths>>
  BY DEF Transition, runnerOnly
<1>2. /\ op \in Operations /\ runner[i].copy \in Operations /\ Same(op, runner[i].copy)
      /\ runner[i].copy.phase = runner[i].stage /\ runner[i].copy.code = runner[i].code
  BY <1>1, WorkingSteps, Copies DEF Control, Running
<1>3. CASE runner[i].stage \in Final
  <2>1. runner' = [runner EXCEPT ![i] = NoRunner("gone")]
    BY <1>3 DEF Transition
  <2>2. /\ NoRunner("gone") \in Runners
        /\ NoRunner("gone").step = "gone" /\ NoRunner("gone").stage = "preparing"
        /\ NoRunner("gone").code = "none" /\ NoRunner("gone").copy = NoOp
    BY NoRunnerTyped DEF Steps
  <2>3. Moves(i, "gone", "preparing", "none", NoOp)
    BY <2>1, <2>2, SetRunner
  <2> QED BY <1>1, <1>2, <1>3, <2>3
<1>4. CASE runner[i].stage \notin Final
  <2> DEFINE r == [runner[i] EXCEPT !.step = "work"]
  <2>1. runner \in [Ids -> Runners] /\ runner[i] \in Runners
    BY Types DEF Typed
  <2>2. runner' = [runner EXCEPT ![i] = r]
    BY <1>4, <2>1 DEF Transition
  <2>3. /\ r \in Runners /\ r.step = "work" /\ r.stage = runner[i].stage
        /\ r.code = runner[i].code /\ r.copy = runner[i].copy
    BY <2>1 DEF Runners, Steps
  <2> HIDE DEF r
  <2>4. Moves(i, "work", runner[i].stage, runner[i].code, runner[i].copy)
    BY <2>2, <2>3, SetRunner
  <2>5. runner[i].stage \in Active
    BY <1>4, Fields DEF Phases
  <2> QED BY <1>1, <1>2, <2>4, <2>5
<1> QED BY <1>3, <1>4

(* A step of a stage fails.                                                *)
LEMMA StepFailsEffect ==
  ASSUME TypeOK, NEW i \in Ids, StepFails(i)
  PROVE  /\ runner[i].step \in {"work", "compose", "config"}
         /\ runner[i].stage \notin {"restarting", "verifying"}
         /\ \/ /\ Rollback(i)
               /\ Moves(i, "read", "failed", "rollback", runner[i].copy)
            \/ /\ ~Rollback(i) /\ FilesChanged(i)
               /\ Moves(i, "read", "rolling_back", "update", runner[i].copy)
            \/ /\ ~Rollback(i) /\ ~FilesChanged(i)
               /\ Moves(i, "read", "failed", "update", runner[i].copy)
         /\ UNCHANGED <<op, validation, conf, backup, server, start, poll, deaths>>
BY FailMoves DEF StepFails, runnerOnly

(* The Compose file is downloaded.                                         *)
LEMMA DownloadEffect ==
  ASSUME TypeOK, NEW i \in Ids, Download(i)
  PROVE  /\ runner[i].step = "work" /\ runner[i].stage = "preparing"
         /\ Moves(i, "read", "backing_up", "none", runner[i].copy)
         /\ UNCHANGED <<op, validation, conf, backup, server, start, poll, deaths>>
<1>1. "backing_up" \in Phases /\ "none" \in Codes
  BY DEF Phases, Active, Codes
<1> QED BY <1>1, StageToMoves DEF Download, runnerOnly

(* The installation is backed up.                                          *)
LEMMA BackupInstallationEffect ==
  ASSUME TypeOK, NEW i \in Ids, BackupInstallation(i)
  PROVE  /\ runner[i].step = "work" /\ runner[i].stage = "backing_up"
         /\ Moves(i, "read", "pulling", "none", runner[i].copy)
         /\ backup' \in [Ids -> Configs \cup {NoConf}]
         /\ backup'[i] = conf /\ conf \in Configs
         /\ \A j \in Ids \ {i} : backup'[j] = backup[j]
         /\ UNCHANGED <<op, validation, conf, server, start, poll, deaths>>
<1>1. "pulling" \in Phases /\ "none" \in Codes
  BY DEF Phases, Active, Codes
<1>2. conf \in Configs /\ backup \in [Ids -> Configs \cup {NoConf}]
  BY Types DEF Typed
<1>3. Moves(i, "read", "pulling", "none", runner[i].copy)
  BY <1>1, StageToMoves DEF BackupInstallation
<1> QED BY <1>2, <1>3 DEF BackupInstallation

(* The .env is written, or restored.                                       *)
LEMMA WriteEnvEffect ==
  ASSUME TypeOK, Control, NEW i \in Ids, WriteEnv(i)
  PROVE  /\ runner[i].step = "work" /\ runner[i].stage \in {"pulling", "rolling_back"}
         /\ Moves(i, "compose", runner[i].stage, runner[i].code, runner[i].copy)
         /\ conf' \in Configs
         /\ Rollback(i) => conf'.env = runner[i].copy.source
         /\ ~Rollback(i) => conf' = [conf EXCEPT !.env = runner[i].copy.target]
         /\ UNCHANGED <<op, validation, backup, server, start, poll, deaths>>
<1>1. /\ runner[i].step = "work" /\ runner[i].stage \in {"pulling", "rolling_back"}
      /\ conf' = [conf EXCEPT !.env = IF Rollback(i) THEN runner[i].copy.source
                                      ELSE runner[i].copy.target]
      /\ RunnerTo(i, "compose")
      /\ UNCHANGED <<op, validation, backup, server, start, poll, deaths>>
  BY DEF WriteEnv
<1>2. conf \in Configs /\ runner[i].copy \in Operations
  BY <1>1, Types, WorkingSteps, Copies DEF Typed
<1>3. runner[i].copy.source \in Versions /\ runner[i].copy.target \in Versions
  BY <1>2, OperationUpdates
<1>4. Moves(i, "compose", runner[i].stage, runner[i].code, runner[i].copy)
  BY <1>1, RunnerToMoves DEF Steps
<1>5. /\ conf' \in Configs
      /\ Rollback(i) => conf'.env = runner[i].copy.source
      /\ ~Rollback(i) => conf' = [conf EXCEPT !.env = runner[i].copy.target]
  BY <1>1, <1>2, <1>3 DEF Configs
<1> QED BY <1>1, <1>4, <1>5

(* The Compose file is written, or restored.                               *)
LEMMA WriteComposeEffect ==
  ASSUME TypeOK, Control, BackedUp, Staged, NEW i \in Ids, WriteCompose(i)
  PROVE  /\ runner[i].step = "compose"
         /\ Moves(i, "config", runner[i].stage, runner[i].code, runner[i].copy)
         /\ conf' \in Configs /\ conf'.env = conf.env
         /\ Rollback(i) => conf'.compose = backup[i].compose
         /\ ~Rollback(i) => conf'.compose = runner[i].copy.target
         /\ UNCHANGED <<op, validation, backup, server, start, poll, deaths>>
<1>1. /\ runner[i].step = "compose"
      /\ conf' = [conf EXCEPT !.compose = IF Rollback(i) THEN backup[i].compose
                                          ELSE runner[i].copy.target]
      /\ RunnerTo(i, "config")
      /\ UNCHANGED <<op, validation, backup, server, start, poll, deaths>>
  BY DEF WriteCompose
<1>2. conf \in Configs /\ runner[i].copy \in Operations /\ Working(i)
  BY <1>1, Types, WorkingSteps, Copies DEF Typed
<1>3. runner[i].copy.target \in Versions
  BY <1>2, OperationUpdates
<1>4. Rollback(i) => backup[i] \in Configs
  BY <1>2 DEF BackedUp, Rollback
<1>5. Moves(i, "config", runner[i].stage, runner[i].code, runner[i].copy)
  BY <1>1, RunnerToMoves DEF Steps
<1>6. /\ conf' \in Configs /\ conf'.env = conf.env
      /\ Rollback(i) => conf'.compose = backup[i].compose
      /\ ~Rollback(i) => conf'.compose = runner[i].copy.target
  BY <1>1, <1>2, <1>3, <1>4 DEF Configs
<1> QED BY <1>1, <1>5, <1>6

(* The files are accepted.                                                 *)
LEMMA ComposeConfigEffect ==
  ASSUME TypeOK, NEW i \in Ids, ComposeConfig(i)
  PROVE  /\ runner[i].step = "config" /\ ~Rollback(i)
         /\ Moves(i, "read", "restarting", "none", runner[i].copy)
         /\ UNCHANGED <<op, validation, conf, backup, server, start, poll, deaths>>
<1>1. "restarting" \in Phases /\ "none" \in Codes
  BY DEF Phases, Active, Codes
<1> QED BY <1>1, StageToMoves DEF ComposeConfig, runnerOnly

(* A new server process has no requests.                                   *)
LEMMA NewProcessEffect ==
  ASSUME NEW v \in Versions, newProcess(v)
  PROVE  /\ server' \in Servers /\ server'.version = v
         /\ start' \in Starts /\ start'.pc = "idle"
         /\ poll' \in [Pollers -> Polls] /\ \A q \in Pollers : poll'[q].pc = "idle"
<1>1. server' \in Servers /\ server'.version = v
  BY DEF newProcess, Servers
<1>2. /\ start' \in Starts /\ start'.pc = "idle"
      /\ poll' \in [Pollers -> Polls] /\ \A q \in Pollers : poll'[q].pc = "idle"
  BY IdleTyped DEF newProcess
<1> QED BY <1>1, <1>2

(* The container is replaced by one of the version the .env names.         *)
LEMMA ComposeUpEffect ==
  ASSUME TypeOK, NEW i \in Ids, ComposeUp(i)
  PROVE  /\ AtUp(i)
         /\ server' \in Servers /\ server'.version = conf.env
         /\ start' \in Starts /\ start'.pc = "idle"
         /\ poll' \in [Pollers -> Polls] /\ \A q \in Pollers : poll'[q].pc = "idle"
         /\ \/ /\ Rollback(i)
               /\ Moves(i, "verify", runner[i].stage, runner[i].code, runner[i].copy)
            \/ /\ ~Rollback(i)
               /\ Moves(i, "read", "verifying", "none", runner[i].copy)
         /\ UNCHANGED <<op, validation, conf, backup, deaths>>
<1>1. AtUp(i) /\ newProcess(conf.env) /\ UNCHANGED <<op, validation, conf, backup, deaths>>
  BY DEF ComposeUp
<1>2. CASE Rollback(i)
  <2>1. Moves(i, "verify", runner[i].stage, runner[i].code, runner[i].copy)
    BY <1>2, RunnerToMoves DEF ComposeUp, Steps
  <2> QED BY <1>1, <1>2, <2>1, NewProcessEffect, Fields
<1>3. CASE ~Rollback(i)
  <2>1. "verifying" \in Phases /\ "none" \in Codes
    BY DEF Phases, Active, Codes
  <2>2. Moves(i, "read", "verifying", "none", runner[i].copy)
    BY <1>3, <2>1, StageToMoves DEF ComposeUp
  <2> QED BY <1>1, <1>3, <2>2, NewProcessEffect, Fields
<1> QED BY <1>2, <1>3

(* The replacement fails, with or without the old container.               *)
LEMMA ComposeUpFailsEffect ==
  ASSUME TypeOK, NEW i \in Ids, ComposeUpFails(i)
  PROVE  /\ AtUp(i)
         /\ server' \in Servers /\ server'.version = server.version
         /\ \/ UNCHANGED <<start, poll>>
            \/ /\ start' \in Starts /\ start'.pc = "idle"
               /\ poll' \in [Pollers -> Polls] /\ \A q \in Pollers : poll'[q].pc = "idle"
         /\ \/ /\ Rollback(i)
               /\ Moves(i, "read", "failed", "rollback", runner[i].copy)
            \/ /\ ~Rollback(i) /\ FilesChanged(i)
               /\ Moves(i, "read", "rolling_back", "update", runner[i].copy)
         /\ UNCHANGED <<op, validation, conf, backup, deaths>>
<1>1. AtUp(i) /\ Fail(i) /\ UNCHANGED <<op, validation, conf, backup, deaths>>
  BY DEF ComposeUpFails
<1>2. \/ /\ Rollback(i)
         /\ Moves(i, "read", "failed", "rollback", runner[i].copy)
      \/ /\ ~Rollback(i) /\ FilesChanged(i)
         /\ Moves(i, "read", "rolling_back", "update", runner[i].copy)
  <2>1. ~Rollback(i) => FilesChanged(i)
    BY <1>1 DEF AtUp, FilesChanged
  <2> QED BY <1>1, <2>1, FailMoves
<1>3. server \in Servers
  BY Types DEF Typed
<1>4. CASE UNCHANGED <<server, start, poll>>
  BY <1>1, <1>2, <1>3, <1>4
<1>5. CASE /\ server' = [server EXCEPT !.state = "down", !.ok = FALSE]
           /\ start' = Idle
           /\ poll' = [p \in Pollers |-> Idle]
  <2>1. server' \in Servers /\ server'.version = server.version
    BY <1>3, <1>5 DEF Servers
  <2>2. /\ start' \in Starts /\ start'.pc = "idle"
        /\ poll' \in [Pollers -> Polls] /\ \A q \in Pollers : poll'[q].pc = "idle"
    BY <1>5, IdleTyped
  <2> QED BY <1>1, <1>2, <2>1, <2>2
<1> QED BY <1>4, <1>5 DEF ComposeUpFails

(* The version is verified.                                                *)
LEMMA WaitForVersionEffect ==
  ASSUME TypeOK, NEW i \in Ids, WaitForVersion(i)
  PROVE  /\ AtVerify(i) /\ Verified(i)
         /\ \/ /\ Rollback(i)
               /\ Moves(i, "read", "rolled_back", "update", runner[i].copy)
            \/ /\ ~Rollback(i)
               /\ Moves(i, "read", "completed", "none", runner[i].copy)
         /\ UNCHANGED <<op, validation, conf, backup, server, start, poll, deaths>>
<1>1. {"rolled_back", "completed"} \subseteq Phases /\ {"update", "none"} \subseteq Codes
  BY DEF Phases, Final, Codes
<1> QED BY <1>1, StageToMoves DEF WaitForVersion, runnerOnly

(* The version is not verified in time.                                    *)
LEMMA WaitFailsEffect ==
  ASSUME TypeOK, Staged, NEW i \in Ids, WaitFails(i)
  PROVE  /\ AtVerify(i)
         /\ \/ /\ Rollback(i)
               /\ Moves(i, "read", "failed", "rollback", runner[i].copy)
            \/ /\ ~Rollback(i) /\ FilesChanged(i)
               /\ Moves(i, "read", "rolling_back", "update", runner[i].copy)
         /\ UNCHANGED <<op, validation, conf, backup, server, start, poll, deaths>>
<1>1. /\ AtVerify(i) /\ Fail(i)
      /\ UNCHANGED <<op, validation, conf, backup, server, start, poll, deaths>>
  BY DEF WaitFails, runnerOnly
<1>2. ~Rollback(i) => FilesChanged(i)
  BY <1>1 DEF AtVerify, FilesChanged, Staged, Rollback
<1> QED BY <1>1, <1>2, FailMoves

(* A runner dies.                                                          *)
LEMMA RunnerDiesEffect ==
  ASSUME TypeOK, NEW i \in Ids, RunnerDies(i)
  PROVE  /\ Alive(i) /\ Moves(i, "gone", "preparing", "none", NoOp)
         /\ deaths' \in 0..MaxDeaths /\ deaths' # 0
         /\ UNCHANGED <<op, validation, conf, backup, server, start, poll>>
<1>1. /\ Alive(i) /\ deaths < MaxDeaths /\ deaths' = deaths + 1
      /\ runner' = [runner EXCEPT ![i] = NoRunner("gone")]
      /\ UNCHANGED <<op, validation, conf, backup, server, start, poll>>
  BY DEF RunnerDies
<1>2. deaths' \in 0..MaxDeaths /\ deaths' # 0
  BY <1>1, Types, UpdaterAssumption DEF Typed
<1>3. /\ NoRunner("gone") \in Runners
      /\ NoRunner("gone").step = "gone" /\ NoRunner("gone").stage = "preparing"
      /\ NoRunner("gone").code = "none" /\ NoRunner("gone").copy = NoOp
  BY NoRunnerTyped DEF Steps
<1> QED BY <1>1, <1>2, <1>3, SetRunner

(* The server has started and records it.                                  *)
LEMMA ServerStartsEffect ==
  ASSUME TypeOK, ServerStarts
  PROVE  /\ server.state = "booting"
         /\ server' \in Servers /\ server'.version = server.version
         /\ validation' \in [Ids -> Validations]
         /\ UNCHANGED <<op, conf, backup, start, poll, runner, deaths>>
<1>1. server \in Servers /\ validation \in [Ids -> Validations] /\ op \in Record
  BY Types DEF Typed
<1>2. PICK ok \in BOOLEAN :
        /\ server' = [server EXCEPT !.state = "up", !.ok = ok]
        /\ validation' =
              IF Validates(op)
              THEN [validation EXCEPT ![op.id] = [version |-> server.version, ok |-> ok]]
              ELSE validation
  BY DEF ServerStarts
<1>3. server' \in Servers /\ server'.version = server.version
  BY <1>1, <1>2 DEF Servers
<1>4. [version |-> server.version, ok |-> ok] \in Validations
  BY Fields DEF Validations
<1>5. validation' \in [Ids -> Validations]
  BY <1>1, <1>2, <1>4
<1> QED BY <1>3, <1>5 DEF ServerStarts

(* The server dies and is restarted.                                       *)
LEMMA ServerDiesEffect ==
  ASSUME TypeOK, ServerDies
  PROVE  /\ server' \in Servers /\ server'.version = server.version
         /\ start' \in Starts /\ start'.pc = "idle"
         /\ poll' \in [Pollers -> Polls] /\ \A q \in Pollers : poll'[q].pc = "idle"
         /\ deaths' \in 0..MaxDeaths /\ deaths' # 0
         /\ UNCHANGED <<op, validation, conf, backup, runner>>
<1>1. deaths' \in 0..MaxDeaths /\ deaths' # 0
  BY Types, UpdaterAssumption DEF Typed, ServerDies
<1> QED BY <1>1, Fields, NewProcessEffect DEF ServerDies

-----------------------------------------------------------------------------
(* The steps of the runners, and those of the server and of Docker.        *)

RunnerActs(i) == RunnerStep(i) \/ RunnerDies(i)

ServerActs ==
  \/ \E p \in Pollers : GetStatus(p) \/ PollStep(p)
  \/ StartUpdate \/ StartStep
  \/ \E i \in Ids : DockerStarts(i)
  \/ ServerStarts \/ ServerDies

(* Every step is one of the two.                                           *)
LEMMA StepCases ==
  ASSUME [Next]_vars
  PROVE  (\E i \in Ids : RunnerActs(i)) \/ ServerActs \/ UNCHANGED vars
BY DEF Next, RunnerActs, ServerActs

(* An operation that is not active has no runner.                          *)
LEMMA InactiveIsIdle ==
  ASSUME TypeOK, Control, ~isActiveOperation(op)
  PROVE  Nobody
BY Fields, Copies, RecordFacts DEF Nobody

(* Nobody else works while a runner is there.                              *)
LEMMA OnlyRunner ==
  ASSUME TypeOK, Control, NEW i \in Ids, Pending(i)
  PROVE  /\ \A j \in Ids \ {i} : ~Pending(j)
         /\ ~Nobody /\ ~Cleared /\ op \in Operations /\ op.id = i /\ op.phase \in Active
         /\ start.pc = "record" => start.copy.phase \in Active
<1>1. op \in Operations /\ op.id = i /\ op.phase \in Active
  BY Copies
<1>2. \A j \in Ids \ {i} : ~Pending(j)
  BY <1>1, Copies
<1>3. ~Nobody
  BY DEF Nobody
<1>4. isActiveOperation(op)
  BY <1>1, RecordFacts
<1>5. ~Cleared
  BY <1>4 DEF Control, LetIn
<1>6. start.pc = "record" => start.copy.phase \in Active
  <2> SUFFICES ASSUME start.pc = "record" PROVE start.copy.phase \in Active
    OBVIOUS
  <2>1. start.copy \in Operations /\ start.copy.phase \notin Final
    BY <1>3 DEF Control, Starting
  <2> QED BY <2>1 DEF Operations, Phases
<1> QED BY <1>1, <1>2, <1>3, <1>5, <1>6

(* What the steps of a runner have in common: the record stays that of its *)
(* operation, and active unless the runner goes away; requests go on or    *)
(* die with the server's container.                                        *)
GoesOn(i) ==
  /\ Alive(i) /\ \A j \in Ids \ {i} : runner'[j] = runner[j]
  /\ \/ UNCHANGED <<start, poll>>
     \/ start'.pc = "idle" /\ \A q \in Pollers : poll'[q].pc = "idle"
  /\ op' \in Operations /\ Same(op, op')
  /\ \/ runner'[i].step = "gone"
     \/ /\ runner'[i].step \in {"read", "write", "work", "compose", "config", "verify"}
        /\ op'.phase \in Active
        /\ runner'[i].copy \in Operations /\ Same(op', runner'[i].copy)
        /\ runner'[i].step = "write" =>
              /\ runner'[i].copy.phase = runner'[i].stage
              /\ runner'[i].copy.code = runner'[i].code

(* Each step of a runner does this.                                        *)
LEMMA RunnerGoesOn ==
  ASSUME TypeOK, Control, Staged, BackedUp, NEW i \in Ids, RunnerActs(i)
  PROVE  GoesOn(i)
<1>1. \A o \in Operations : Same(o, o)
  BY DEF Same
<1>2. Alive(i) => op \in Operations /\ op.phase \in Active
  BY Copies, WorkingSteps
<1>3. Working(i) => runner[i].copy \in Operations /\ Same(op, runner[i].copy)
  BY Copies
<1> USE <1>1, <1>2, <1>3 DEF GoesOn, Moves, Alive, Working
<1>4. CASE Boot(i)
  BY <1>4, BootEffect
<1>5. CASE ReadOperation(i)
  BY <1>5, ReadOperationEffect
<1>6. CASE Transition(i)
  BY <1>6, TransitionEffect
<1>7. CASE StepFails(i)
  BY <1>7, StepFailsEffect
<1>8. CASE Download(i)
  BY <1>8, DownloadEffect
<1>9. CASE BackupInstallation(i)
  BY <1>9, BackupInstallationEffect
<1>10. CASE WriteEnv(i)
  BY <1>10, WriteEnvEffect
<1>11. CASE WriteCompose(i)
  BY <1>11, WriteComposeEffect
<1>12. CASE ComposeConfig(i)
  BY <1>12, ComposeConfigEffect
<1>13. CASE ComposeUp(i)
  BY <1>13, ComposeUpEffect DEF AtUp
<1>14. CASE ComposeUpFails(i)
  BY <1>14, ComposeUpFailsEffect DEF AtUp
<1>15. CASE WaitForVersion(i)
  BY <1>15, WaitForVersionEffect DEF AtVerify
<1>16. CASE WaitFails(i)
  BY <1>16, WaitFailsEffect DEF AtVerify
<1>17. CASE RunnerDies(i)
  BY <1>17, RunnerDiesEffect
<1> QED
  BY <1>4, <1>5, <1>6, <1>7, <1>8, <1>9, <1>10, <1>11, <1>12, <1>13, <1>14, <1>15,
     <1>16, <1>17
  DEF RunnerActs, RunnerStep

(* And this keeps Control: a runner leaves everybody else's part alone.    *)
LEMMA GoesOnControl ==
  ASSUME TypeOK, Control, NEW i \in Ids, GoesOn(i)
  PROVE  Control'
<1>1. Pending(i) /\ ~Nobody /\ ~Cleared /\ (\A j \in Ids \ {i} : ~Pending(j))
      /\ (start.pc = "record" => start.copy.phase \in Active)
  BY OnlyRunner, WorkingSteps DEF GoesOn
<1>2. op \in Operations /\ op.id = i /\ op' \in Operations /\ op'.id = i
  BY <1>1, OnlyRunner DEF GoesOn, Same
<1>3. start.pc # "launch"
  BY <1>2 DEF GoesOn, Alive, Control, Starting, Same
<1>4. \A a, b, c : Same(a, b) /\ Same(a, c) => Same(b, c)
  BY DEF Same
<1>5. Starting'
  <2>1. CASE start'.pc = "idle"
    BY <2>1 DEF Starting
  <2>2. CASE UNCHANGED <<start, poll>>
    <3>1. start.pc = "status" => \E j \in Ids : runner'[j].step = "absent"
      BY DEF GoesOn, Alive, Control, Starting
    <3>2. start.pc = "write" => runner'[start.copy.id].step = "absent"
      BY <1>1 DEF Cleared
    <3>3. start.pc = "launched" => runner'[start.copy.id].step \notin {"absent", "reserved"}
      BY <1>2 DEF GoesOn, Control, Starting, Same
    <3>4. start.pc \in {"launch", "launched", "record"} => Same(op', start.copy)
      BY <1>4 DEF GoesOn, Control, Starting
    <3>5. start.pc = "record" => start.copy.phase \notin Final
      BY <1>1 DEF Active, Final
    <3> QED BY <1>2, <1>3, <2>2, <3>1, <3>2, <3>3, <3>4, <3>5 DEF Control, Starting
  <2> QED BY <2>1, <2>2 DEF GoesOn
<1>6. OnePoller'
  BY UpdaterAssumption DEF GoesOn, Control, OnePoller, Busy
<1>7. Reconciling'
  <2>1. CASE \A q \in Pollers : poll'[q].pc = "idle"
    BY <2>1 DEF Reconciling
  <2>2. CASE UNCHANGED <<start, poll>>
    BY <1>1, <1>2, <1>4, <2>2 DEF GoesOn, Control, Reconciling
  <2> QED BY <2>1, <2>2 DEF GoesOn
<1>8. LetIn'
  <2>1. ~Cleared'
    BY <1>1, UpdaterAssumption DEF GoesOn, Cleared
  <2> QED BY <2>1 DEF LetIn
<1>9. Running'
  <2> SUFFICES ASSUME NEW j \in Ids
               PROVE  (/\ Pending(j) => op \in Operations /\ op.id = j /\ op.phase \in Active
                       /\ Working(j) => runner[j].copy \in Operations /\ Same(op, runner[j].copy)
                       /\ runner[j].step = "write" =>
                            /\ runner[j].copy.phase = runner[j].stage
                            /\ runner[j].copy.code = runner[j].code)'
    BY DEF Running
  <2>1. start'.pc # "launch"
    BY <1>3 DEF GoesOn
  <2>2. CASE j # i
    <3>1. ~Pending(j)'
      BY <1>1, <2>1, <2>2 DEF GoesOn, Pending, Alive
    <3> QED BY <3>1 DEF Pending, Working, Alive
  <2>3. CASE j = i /\ runner'[i].step = "gone"
    BY <2>1, <2>3 DEF Pending, Working, Alive
  <2>4. CASE j = i /\ runner'[i].step # "gone"
    BY <1>2, <2>4 DEF GoesOn
  <2> QED BY <2>2, <2>3, <2>4
<1> QED BY <1>5, <1>6, <1>7, <1>8, <1>9 DEF Control

(* The steps of the server and of Docker keep each part of Control.        *)
LEMMA ServerStarting ==
  ASSUME TypeOK, Control, ~Overlap, ServerActs
  PROVE  Starting'
<1> USE DEF Control
<1>1. ASSUME NEW p \in Pollers, GetStatus(p) PROVE Starting'
  BY <1>1, GetStatusEffect DEF Starting, Nobody, Pending, Alive, Same, Moves
<1>2. ASSUME NEW p \in Pollers, WithinGrace(p) PROVE Starting'
  BY <1>2, WithinGraceEffect DEF Starting, Nobody, Pending, Alive, Same, Moves
<1>3. ASSUME NEW p \in Pollers, InspectRunner(p) PROVE Starting'
  BY <1>3, InspectRunnerEffect DEF Starting, Nobody, Pending, Alive, Same, Moves
<1>4. ASSUME NEW p \in Pollers, WriteRecovered(p) PROVE Starting'
  BY <1>4, WriteRecoveredEffect DEF Starting, Nobody, Pending, Alive, Same, Moves
<1>5. ASSUME NEW p \in Pollers, ReadLatest(p) PROVE Starting'
  BY <1>5, ReadLatestEffect DEF Starting, Nobody, Pending, Alive, Same, Moves
<1>6. ASSUME NEW p \in Pollers, WriteFailed(p) PROVE Starting'
  BY <1>6, WriteFailedEffect DEF Starting, Nobody, Pending, Alive, Same, Moves
<1>7. CASE StartUpdate
  BY <1>7, StartUpdateEffect DEF Starting, Nobody, Pending, Alive, Same, Moves
<1>8. CASE Refuse
  BY <1>8, RefuseEffect DEF Starting, Nobody, Pending, Alive, Same, Moves
<1>9. CASE Accept
  BY <1>9, AcceptEffect DEF Starting, Nobody, Pending, Alive, Same, Moves
<1>10. CASE WriteOperation
  BY <1>10, WriteOperationEffect DEF Starting, Nobody, Pending, Alive, Same, Moves
<1>11. CASE RunUtilityContainer
  BY <1>11, RunUtilityContainerEffect
     DEF Starting, Nobody, Pending, Alive, Same, Moves
<1>12. CASE ReadAfterLaunch
  <2>1. op.phase \in Final => Nobody'
    <3> SUFFICES ASSUME op.phase \in Final, NEW i \in Ids, Pending(i)' PROVE FALSE
      BY DEF Nobody
    <3>1. Pending(i)
      BY <1>12, ReadAfterLaunchEffect DEF Pending, Alive
    <3> QED BY <3>1, Copies DEF Active, Final
  <2>2. Same(op, op)
    BY DEF Same
  <2> QED BY <1>12, <2>1, <2>2, ReadAfterLaunchEffect DEF Starting
<1>13. CASE WriteRunnerId
  BY <1>13, WriteRunnerIdEffect DEF Starting, Nobody, Pending, Alive, Same, Moves
<1>14. CASE LaunchFailed
  BY <1>14, LaunchFailedEffect DEF Starting, Nobody, Pending, Alive, Same, Moves
<1>15. ASSUME NEW i \in Ids, DockerStarts(i) PROVE Starting'
  <2>1. Pending(i)
    BY <1>15, DockerStartsEffect, WorkingSteps
  <2>2. start.pc = "record" => start.copy.phase \notin Final
    BY <2>1, OnlyRunner DEF Active, Final
  <2>3. start.pc \in {"write", "launch"} => start.copy.id # i
    BY <1>15, DockerStartsEffect DEF Starting
  <2>4. start.pc \notin {"idle", "status"} => start.copy.id \in Ids
    BY Copies
  <2> QED BY <1>15, <2>2, <2>3, <2>4, DockerStartsEffect DEF Starting, Same
<1>16. CASE ServerStarts
  BY <1>16, ServerStartsEffect DEF Starting, Nobody, Pending, Alive, Same, Moves
<1>17. CASE ServerDies
  BY <1>17, ServerDiesEffect DEF Starting, Nobody, Pending, Alive, Same, Moves
<1> QED
  BY <1>1, <1>2, <1>3, <1>4, <1>5, <1>6, <1>7, <1>8, <1>9, <1>10, <1>11, <1>12,
     <1>13, <1>14, <1>15, <1>16, <1>17
  DEF ServerActs, PollStep, StartStep

(* Only one request reconciles.                                            *)
LEMMA ServerOnePoller ==
  ASSUME TypeOK, Control, ~Overlap, ServerActs
  PROVE  OnePoller'
<1> USE UpdaterAssumption DEF Control
<1>1. ASSUME NEW p \in Pollers, GetStatus(p) PROVE OnePoller'
  BY <1>1, GetStatusEffect DEF OnePoller, Busy
<1>2. ASSUME NEW p \in Pollers, WithinGrace(p) PROVE OnePoller'
  BY <1>2, WithinGraceEffect DEF OnePoller, Busy
<1>3. ASSUME NEW p \in Pollers, InspectRunner(p) PROVE OnePoller'
  BY <1>3, InspectRunnerEffect DEF OnePoller, Busy
<1>4. ASSUME NEW p \in Pollers, WriteRecovered(p) PROVE OnePoller'
  BY <1>4, WriteRecoveredEffect DEF OnePoller, Busy
<1>5. ASSUME NEW p \in Pollers, ReadLatest(p) PROVE OnePoller'
  BY <1>5, ReadLatestEffect DEF OnePoller, Busy
<1>6. ASSUME NEW p \in Pollers, WriteFailed(p) PROVE OnePoller'
  BY <1>6, WriteFailedEffect DEF OnePoller, Busy
<1>7. CASE StartUpdate
  BY <1>7, StartUpdateEffect DEF OnePoller, Busy
<1>8. CASE Refuse
  BY <1>8, RefuseEffect DEF OnePoller, Busy
<1>9. CASE Accept
  BY <1>9, AcceptEffect DEF OnePoller, Busy
<1>10. CASE WriteOperation
  BY <1>10, WriteOperationEffect DEF OnePoller, Busy
<1>11. CASE RunUtilityContainer
  BY <1>11, RunUtilityContainerEffect DEF OnePoller, Busy
<1>12. CASE ReadAfterLaunch
  BY <1>12, ReadAfterLaunchEffect DEF OnePoller, Busy
<1>13. CASE WriteRunnerId
  BY <1>13, WriteRunnerIdEffect DEF OnePoller, Busy
<1>14. CASE LaunchFailed
  BY <1>14, LaunchFailedEffect DEF OnePoller, Busy
<1>15. ASSUME NEW i \in Ids, DockerStarts(i) PROVE OnePoller'
  BY <1>15, DockerStartsEffect DEF OnePoller, Busy
<1>16. CASE ServerStarts
  BY <1>16, ServerStartsEffect DEF OnePoller, Busy
<1>17. CASE ServerDies
  BY <1>17, ServerDiesEffect DEF OnePoller, Busy
<1> QED
  BY <1>1, <1>2, <1>3, <1>4, <1>5, <1>6, <1>7, <1>8, <1>9, <1>10, <1>11, <1>12,
     <1>13, <1>14, <1>15, <1>16, <1>17
  DEF ServerActs, PollStep, StartStep

(* What a request holds stays true while it waits.                         *)
LEMMA ServerReconciling ==
  ASSUME TypeOK, Control, ~Overlap, ServerActs
  PROVE  Reconciling'
<1> USE UpdaterAssumption DEF Control
<1>1. ASSUME NEW p \in Pollers, GetStatus(p) PROVE Reconciling'
  BY <1>1, GetStatusEffect
     DEF OnePoller, Reconciling, LetIn, Busy, Nobody, Pending, Alive, Same,
         Moves, Cleared
<1>2. ASSUME NEW p \in Pollers, WithinGrace(p) PROVE Reconciling'
  BY <1>2, WithinGraceEffect
     DEF OnePoller, Reconciling, LetIn, Busy, Nobody, Pending, Alive, Same,
         Moves, Cleared
<1>3. ASSUME NEW p \in Pollers, InspectRunner(p) PROVE Reconciling'
  <2>1. poll[p].copy.id = op.id /\ op \in Operations
    BY <1>3, InspectRunnerEffect DEF Reconciling, Same
  <2>2. poll'[p].pc = "latest" => Nobody'
    <3> SUFFICES ASSUME poll'[p].pc = "latest", NEW i \in Ids, Pending(i)' PROVE FALSE
      BY DEF Nobody
    <3>1. Pending(i)
      BY <1>3, InspectRunnerEffect DEF Pending, Alive
    <3>2. ~Pending(op.id)
      BY <1>3, <2>1, InspectRunnerEffect
    <3> QED BY <3>1, <3>2, Copies
  <2>3. \A q \in Pollers \ {p} : ~Busy(q)
    BY <1>3, InspectRunnerEffect DEF OnePoller, Busy
  <2>4. poll[p].copy.phase \in Active
    BY <1>3, InspectRunnerEffect DEF Reconciling
  <2>5. /\ poll'[p].pc \in {"idle", "result", "recovered", "latest"}
        /\ poll'[p].pc = "recovered" =>
              /\ poll'[p].copy \in Operations /\ Same(op', poll'[p].copy)
              /\ poll'[p].copy.phase \in Active /\ op' \in Operations
    BY <1>3, <2>1, <2>4, InspectRunnerEffect DEF Reconciling, Same
  <2>6. \A q \in Pollers \ {p} : poll'[q].pc \in {"idle", "result"}
    BY <1>3, <2>3, InspectRunnerEffect DEF Busy
  <2> QED BY <2>2, <2>5, <2>6 DEF Reconciling
<1>4. ASSUME NEW p \in Pollers, WriteRecovered(p) PROVE Reconciling'
  BY <1>4, WriteRecoveredEffect
     DEF OnePoller, Reconciling, LetIn, Busy, Nobody, Pending, Alive, Same,
         Moves, Cleared
<1>5. ASSUME NEW p \in Pollers, ReadLatest(p) PROVE Reconciling'
  BY <1>5, ReadLatestEffect
     DEF OnePoller, Reconciling, LetIn, Busy, Nobody, Pending, Alive, Same,
         Moves, Cleared
<1>6. ASSUME NEW p \in Pollers, WriteFailed(p) PROVE Reconciling'
  BY <1>6, WriteFailedEffect
     DEF OnePoller, Reconciling, LetIn, Busy, Nobody, Pending, Alive, Same,
         Moves, Cleared
<1>7. CASE StartUpdate
  BY <1>7, StartUpdateEffect
     DEF OnePoller, Reconciling, LetIn, Busy, Nobody, Pending, Alive, Same,
         Moves, Cleared
<1>8. CASE Refuse
  BY <1>8, RefuseEffect
     DEF OnePoller, Reconciling, LetIn, Busy, Nobody, Pending, Alive, Same,
         Moves, Cleared
<1>9. CASE Accept
  BY <1>9, AcceptEffect
     DEF OnePoller, Reconciling, LetIn, Busy, Nobody, Pending, Alive, Same,
         Moves, Cleared
<1>10. CASE WriteOperation
  BY <1>10, WriteOperationEffect
     DEF OnePoller, Reconciling, LetIn, Busy, Nobody, Pending, Alive, Same,
         Moves, Cleared
<1>11. CASE RunUtilityContainer
  BY <1>11, RunUtilityContainerEffect
     DEF OnePoller, Reconciling, LetIn, Busy, Nobody, Pending, Alive, Same,
         Moves, Cleared
<1>12. CASE ReadAfterLaunch
  BY <1>12, ReadAfterLaunchEffect
     DEF OnePoller, Reconciling, LetIn, Busy, Nobody, Pending, Alive, Same,
         Moves, Cleared
<1>13. CASE WriteRunnerId
  BY <1>13, WriteRunnerIdEffect
     DEF OnePoller, Reconciling, LetIn, Busy, Nobody, Pending, Alive, Same,
         Moves, Cleared
<1>14. CASE LaunchFailed
  BY <1>14, LaunchFailedEffect
     DEF OnePoller, Reconciling, LetIn, Busy, Nobody, Pending, Alive, Same,
         Moves, Cleared
<1>15. ASSUME NEW i \in Ids, DockerStarts(i) PROVE Reconciling'
  BY <1>15, DockerStartsEffect
     DEF OnePoller, Reconciling, LetIn, Busy, Nobody, Pending, Alive, Same,
         Moves, Cleared
<1>16. CASE ServerStarts
  BY <1>16, ServerStartsEffect
     DEF OnePoller, Reconciling, LetIn, Busy, Nobody, Pending, Alive, Same,
         Moves, Cleared
<1>17. CASE ServerDies
  BY <1>17, ServerDiesEffect
     DEF OnePoller, Reconciling, LetIn, Busy, Nobody, Pending, Alive, Same,
         Moves, Cleared
<1> QED
  BY <1>1, <1>2, <1>3, <1>4, <1>5, <1>6, <1>7, <1>8, <1>9, <1>10, <1>11, <1>12,
     <1>13, <1>14, <1>15, <1>16, <1>17
  DEF ServerActs, PollStep, StartStep

(* startUpdate is let in only after the last operation.                    *)
LEMMA ServerLetIn ==
  ASSUME TypeOK, Control, ~Overlap, ServerActs
  PROVE  LetIn'
<1> USE UpdaterAssumption DEF Control
<1>1. ASSUME NEW p \in Pollers, GetStatus(p) PROVE LetIn'
  <2>1. CASE p # Starter
    BY <1>1, <2>1, GetStatusEffect, Fields, RecordFacts DEF LetIn, Busy, Cleared
  <2>2. CASE p = Starter /\ poll'[p].pc = "read"
    BY <1>1, <2>2, GetStatusEffect DEF LetIn, Cleared
  <2>3. CASE p = Starter /\ poll'[p].pc = "result"
    <3>1. ~isActiveOperation(op')
      BY <1>1, <2>3, GetStatusEffect
    <3>2. \A q \in Pollers : ~Busy(q)'
      BY <1>1, <2>3, GetStatusEffect DEF Busy
    <3> QED BY <3>1, <3>2 DEF LetIn
  <2> QED BY <1>1, <2>1, <2>2, <2>3, GetStatusEffect
<1>2. ASSUME NEW p \in Pollers, WithinGrace(p) PROVE LetIn'
  BY <1>2, WithinGraceEffect, RecordFacts DEF OnePoller, LetIn, Busy, Cleared
<1>3. ASSUME NEW p \in Pollers, InspectRunner(p) PROVE LetIn'
  BY <1>3, InspectRunnerEffect, RecordFacts DEF OnePoller, LetIn, Busy, Cleared
<1>4. ASSUME NEW p \in Pollers, WriteRecovered(p) PROVE LetIn'
  BY <1>4, WriteRecoveredEffect, RecordFacts DEF OnePoller, LetIn, Busy, Cleared
<1>5. ASSUME NEW p \in Pollers, ReadLatest(p) PROVE LetIn'
  BY <1>5, ReadLatestEffect, RecordFacts DEF OnePoller, LetIn, Busy, Cleared
<1>6. ASSUME NEW p \in Pollers, WriteFailed(p) PROVE LetIn'
  <2>1. ~isActiveOperation(op')
    BY <1>6, WriteFailedEffect, RecordFacts DEF Active
  <2>2. \A q \in Pollers : ~Busy(q)'
    BY <1>6, WriteFailedEffect DEF OnePoller, Busy
  <2> QED BY <2>1, <2>2 DEF LetIn
<1>7. CASE StartUpdate
  BY <1>7, StartUpdateEffect, RecordFacts DEF OnePoller, LetIn, Busy, Cleared
<1>8. CASE Refuse
  BY <1>8, RefuseEffect, RecordFacts DEF OnePoller, LetIn, Busy, Cleared
<1>9. CASE Accept
  BY <1>9, AcceptEffect, RecordFacts DEF OnePoller, LetIn, Busy, Cleared
<1>10. CASE WriteOperation
  BY <1>10, WriteOperationEffect, RecordFacts DEF OnePoller, LetIn, Busy, Cleared
<1>11. CASE RunUtilityContainer
  BY <1>11, RunUtilityContainerEffect, RecordFacts
     DEF OnePoller, LetIn, Busy, Cleared
<1>12. CASE ReadAfterLaunch
  BY <1>12, ReadAfterLaunchEffect, RecordFacts DEF OnePoller, LetIn, Busy, Cleared
<1>13. CASE WriteRunnerId
  BY <1>13, WriteRunnerIdEffect, RecordFacts DEF OnePoller, LetIn, Busy, Cleared
<1>14. CASE LaunchFailed
  BY <1>14, LaunchFailedEffect, RecordFacts DEF OnePoller, LetIn, Busy, Cleared
<1>15. ASSUME NEW i \in Ids, DockerStarts(i) PROVE LetIn'
  BY <1>15, DockerStartsEffect, RecordFacts DEF OnePoller, LetIn, Busy, Cleared
<1>16. CASE ServerStarts
  BY <1>16, ServerStartsEffect, RecordFacts DEF OnePoller, LetIn, Busy, Cleared
<1>17. CASE ServerDies
  BY <1>17, ServerDiesEffect, RecordFacts DEF OnePoller, LetIn, Busy, Cleared
<1> QED
  BY <1>1, <1>2, <1>3, <1>4, <1>5, <1>6, <1>7, <1>8, <1>9, <1>10, <1>11, <1>12,
     <1>13, <1>14, <1>15, <1>16, <1>17
  DEF ServerActs, PollStep, StartStep

(* A runner's record is replaced by no other while it may run.             *)
LEMMA ServerRunning ==
  ASSUME TypeOK, Control, ~Overlap, ServerActs
  PROVE  Running'
<1> USE DEF Control
<1>1. ASSUME NEW p \in Pollers, GetStatus(p) PROVE Running'
  BY <1>1, GetStatusEffect DEF Running, Pending, Alive, Working, Same, Moves
<1>2. ASSUME NEW p \in Pollers, WithinGrace(p) PROVE Running'
  BY <1>2, WithinGraceEffect DEF Running, Pending, Alive, Working, Same, Moves
<1>3. ASSUME NEW p \in Pollers, InspectRunner(p) PROVE Running'
  BY <1>3, InspectRunnerEffect DEF Running, Pending, Alive, Working, Same, Moves
<1>4. ASSUME NEW p \in Pollers, WriteRecovered(p) PROVE Running'
  BY <1>4, WriteRecoveredEffect DEF Running, Pending, Alive, Working, Same, Moves
<1>5. ASSUME NEW p \in Pollers, ReadLatest(p) PROVE Running'
  BY <1>5, ReadLatestEffect DEF Running, Pending, Alive, Working, Same, Moves
<1>6. ASSUME NEW p \in Pollers, WriteFailed(p) PROVE Running'
  <2>1. \A i \in Ids : ~Pending(i)' /\ ~Working(i)' /\ runner'[i].step # "write"
    BY <1>6, WriteFailedEffect, WorkingSteps DEF Nobody, Pending, Working, Alive
  <2> QED BY <2>1 DEF Running
<1>7. CASE StartUpdate
  BY <1>7, StartUpdateEffect DEF Running, Pending, Alive, Working, Same, Moves
<1>8. CASE Refuse
  BY <1>8, RefuseEffect DEF Running, Pending, Alive, Working, Same, Moves
<1>9. CASE Accept
  BY <1>9, AcceptEffect DEF Running, Pending, Alive, Working, Same, Moves
<1>10. CASE WriteOperation
  <2>1. Nobody
    BY <1>10, WriteOperationEffect, InactiveIsIdle DEF LetIn, Cleared
  <2>2. start.copy \in Operations /\ start.copy.id \in Ids /\ start.copy.phase \in Active
    BY <1>10, WriteOperationEffect, Copies DEF Starting, Active
  <2>3. \A i \in Ids : ~Working(i)' /\ runner'[i].step # "write"
    BY <1>10, <2>1, <2>2, WriteOperationEffect DEF Nobody, Pending, Working, Alive
  <2>4. \A i \in Ids : Pending(i)' => i = start.copy.id
    BY <1>10, <2>1, <2>2, WriteOperationEffect DEF Nobody, Pending, Alive
  <2> QED BY <1>10, <2>2, <2>3, <2>4, WriteOperationEffect DEF Running
<1>11. CASE RunUtilityContainer
  BY <1>11, RunUtilityContainerEffect
     DEF Running, Pending, Alive, Working, Same, Moves
<1>12. CASE ReadAfterLaunch
  BY <1>12, ReadAfterLaunchEffect DEF Running, Pending, Alive, Working, Same, Moves
<1>13. CASE WriteRunnerId
  <2>1. CASE start.copy.phase \in Final
    <3>1. \A i \in Ids : ~Pending(i)' /\ ~Working(i)' /\ runner'[i].step # "write"
      BY <1>13, <2>1, WriteRunnerIdEffect DEF Starting, Nobody, Pending, Working, Alive
    <3> QED BY <3>1 DEF Running
  <2>2. CASE start.copy.phase \notin Final
    <3>1. op'.phase \in Active
      BY <1>13, <2>2, WriteRunnerIdEffect DEF Operations, Phases
    <3>2. op \in Operations /\ op'.id = op.id
      BY <1>13, WriteRunnerIdEffect DEF Starting, Same
    <3> QED BY <1>13, <3>1, <3>2, WriteRunnerIdEffect
            DEF Running, Pending, Alive, Working, Same
  <2> QED BY <2>1, <2>2
<1>14. CASE LaunchFailed
  BY <1>14, LaunchFailedEffect DEF Running, Pending, Alive, Working, Same, Moves
<1>15. ASSUME NEW i \in Ids, DockerStarts(i) PROVE Running'
  BY <1>15, DockerStartsEffect DEF Running, Pending, Alive, Working, Same, Moves
<1>16. CASE ServerStarts
  BY <1>16, ServerStartsEffect DEF Running, Pending, Alive, Working, Same, Moves
<1>17. CASE ServerDies
  BY <1>17, ServerDiesEffect DEF Running, Pending, Alive, Working, Same, Moves
<1> QED
  BY <1>1, <1>2, <1>3, <1>4, <1>5, <1>6, <1>7, <1>8, <1>9, <1>10, <1>11, <1>12,
     <1>13, <1>14, <1>15, <1>16, <1>17
  DEF ServerActs, PollStep, StartStep

(* Every step keeps Control.                                               *)
LEMMA NextControl ==
  ASSUME IInv, ~Overlap, [Next]_vars
  PROVE  Control'
<1>1. ASSUME NEW i \in Ids, RunnerActs(i) PROVE Control'
  BY <1>1, RunnerGoesOn, GoesOnControl DEF IInv
<1>2. CASE ServerActs
  BY <1>2, ServerStarting, ServerOnePoller, ServerReconciling, ServerLetIn, ServerRunning
     DEF IInv, Control
<1>3. CASE UNCHANGED vars
  <2>1. UNCHANGED <<op, start, poll, runner>>
    BY <1>3 DEF vars
  <2>2. Starting' /\ Running'
    BY <2>1 DEF IInv, Control, Starting, Running, Nobody, Pending, Working, Alive
  <2>3. OnePoller' /\ Reconciling' /\ LetIn'
    BY <2>1 DEF IInv, Control, OnePoller, Reconciling, LetIn, Busy, Cleared, Nobody, Pending,
       Alive
  <2> QED BY <2>2, <2>3 DEF Control
<1> QED BY <1>1, <1>2, <1>3, StepCases

(* Every step keeps the types.                                             *)
LEMMA RunnerTypeOK ==
  ASSUME TypeOK, Control, Staged, BackedUp, NEW i \in Ids, RunnerActs(i)
  PROVE  TypeOK'
<1>1. CASE Boot(i)
  BY <1>1, BootEffect, Types DEF Typed, Moves
<1>2. CASE ReadOperation(i)
  BY <1>2, ReadOperationEffect, Types DEF Typed, Moves
<1>3. CASE Transition(i)
  BY <1>3, TransitionEffect, Types, RecordFacts DEF Typed, Moves
<1>4. CASE StepFails(i)
  BY <1>4, StepFailsEffect, Types DEF Typed, Moves
<1>5. CASE Download(i)
  BY <1>5, DownloadEffect, Types DEF Typed, Moves
<1>6. CASE BackupInstallation(i)
  BY <1>6, BackupInstallationEffect, Types DEF Typed, Moves
<1>7. CASE WriteEnv(i)
  BY <1>7, WriteEnvEffect, Types DEF Typed, Moves
<1>8. CASE WriteCompose(i)
  BY <1>8, WriteComposeEffect, Types DEF Typed, Moves
<1>9. CASE ComposeConfig(i)
  BY <1>9, ComposeConfigEffect, Types DEF Typed, Moves
<1>10. CASE ComposeUp(i)
  BY <1>10, ComposeUpEffect, Types DEF Typed, Moves
<1>11. CASE ComposeUpFails(i)
  BY <1>11, ComposeUpFailsEffect, Types DEF Typed, Moves
<1>12. CASE WaitForVersion(i)
  BY <1>12, WaitForVersionEffect, Types DEF Typed, Moves
<1>13. CASE WaitFails(i)
  BY <1>13, WaitFailsEffect, Types DEF Typed, Moves
<1>14. CASE RunnerDies(i)
  BY <1>14, RunnerDiesEffect, Types DEF Typed, Moves
<1> QED
  BY <1>1, <1>2, <1>3, <1>4, <1>5, <1>6, <1>7, <1>8, <1>9, <1>10, <1>11, <1>12,
     <1>13, <1>14
  DEF RunnerActs, RunnerStep

(* The steps of the server keep the types.                                 *)
LEMMA ServerTypeOK ==
  ASSUME TypeOK, Control, ServerActs
  PROVE  TypeOK'
<1>1. ASSUME NEW p \in Pollers, GetStatus(p) PROVE TypeOK'
  BY <1>1, GetStatusEffect, Types DEF Typed
<1>2. ASSUME NEW p \in Pollers, WithinGrace(p) PROVE TypeOK'
  BY <1>2, WithinGraceEffect, Types DEF Typed
<1>3. ASSUME NEW p \in Pollers, InspectRunner(p) PROVE TypeOK'
  BY <1>3, InspectRunnerEffect, Types DEF Typed
<1>4. ASSUME NEW p \in Pollers, WriteRecovered(p) PROVE TypeOK'
  BY <1>4, WriteRecoveredEffect, Types, Copies, RecordFacts DEF Typed
<1>5. ASSUME NEW p \in Pollers, ReadLatest(p) PROVE TypeOK'
  BY <1>5, ReadLatestEffect, Types DEF Typed
<1>6. ASSUME NEW p \in Pollers, WriteFailed(p) PROVE TypeOK'
  BY <1>6, WriteFailedEffect, Types, Copies, RecordFacts DEF Typed
<1>7. CASE StartUpdate
  BY <1>7, StartUpdateEffect, Types DEF Typed
<1>8. CASE Refuse
  BY <1>8, RefuseEffect, Types DEF Typed
<1>9. CASE Accept
  BY <1>9, AcceptEffect, Types DEF Typed
<1>10. CASE WriteOperation
  BY <1>10, WriteOperationEffect, Types, Copies, RecordFacts DEF Typed
<1>11. CASE RunUtilityContainer
  BY <1>11, RunUtilityContainerEffect, Types DEF Typed
<1>12. CASE ReadAfterLaunch
  BY <1>12, ReadAfterLaunchEffect, Types DEF Typed
<1>13. CASE WriteRunnerId
  BY <1>13, WriteRunnerIdEffect, Types, Copies, RecordFacts DEF Typed
<1>14. CASE LaunchFailed
  BY <1>14, LaunchFailedEffect, Types, Copies, RecordFacts DEF Typed
<1>15. ASSUME NEW i \in Ids, DockerStarts(i) PROVE TypeOK'
  BY <1>15, DockerStartsEffect, Types DEF Typed
<1>16. CASE ServerStarts
  BY <1>16, ServerStartsEffect, Types DEF Typed
<1>17. CASE ServerDies
  BY <1>17, ServerDiesEffect, Types DEF Typed
<1> QED
  BY <1>1, <1>2, <1>3, <1>4, <1>5, <1>6, <1>7, <1>8, <1>9, <1>10, <1>11, <1>12,
     <1>13, <1>14, <1>15, <1>16, <1>17
  DEF ServerActs, PollStep, StartStep

(* And so does every step.                                                 *)
LEMMA NextTypeOK ==
  ASSUME IInv, [Next]_vars
  PROVE  TypeOK'
<1>1. CASE UNCHANGED vars
  BY <1>1, Types DEF IInv, Typed, vars
<1> QED BY <1>1, StepCases, RunnerTypeOK, ServerTypeOK DEF IInv

(* A runner goes through the steps of its stage and to the next one.       *)
LEMMA RunnerStaged ==
  ASSUME TypeOK, Control, Staged, BackedUp, NEW i \in Ids, RunnerActs(i)
  PROVE  Staged'
<1>1. CASE Boot(i)
  BY <1>1, BootEffect DEF Staged, Moves
<1>2. CASE ReadOperation(i)
  BY <1>2, ReadOperationEffect DEF Staged, Moves
<1>3. CASE Transition(i)
  BY <1>3, TransitionEffect DEF Staged, Moves
<1>4. CASE StepFails(i)
  BY <1>4, StepFailsEffect DEF Staged, Moves
<1>5. CASE Download(i)
  BY <1>5, DownloadEffect DEF Staged, Moves
<1>6. CASE BackupInstallation(i)
  BY <1>6, BackupInstallationEffect DEF Staged, Moves
<1>7. CASE WriteEnv(i)
  BY <1>7, WriteEnvEffect DEF Staged, Moves
<1>8. CASE WriteCompose(i)
  BY <1>8, WriteComposeEffect DEF Staged, Moves
<1>9. CASE ComposeConfig(i)
  BY <1>9, ComposeConfigEffect DEF Staged, Moves
<1>10. CASE ComposeUp(i)
  BY <1>10, ComposeUpEffect DEF Staged, Moves, Rollback
<1>11. CASE ComposeUpFails(i)
  BY <1>11, ComposeUpFailsEffect DEF Staged, Moves
<1>12. CASE WaitForVersion(i)
  BY <1>12, WaitForVersionEffect DEF Staged, Moves
<1>13. CASE WaitFails(i)
  BY <1>13, WaitFailsEffect DEF Staged, Moves
<1>14. CASE RunnerDies(i)
  BY <1>14, RunnerDiesEffect DEF Staged, Moves
<1> QED
  BY <1>1, <1>2, <1>3, <1>4, <1>5, <1>6, <1>7, <1>8, <1>9, <1>10, <1>11, <1>12,
     <1>13, <1>14
  DEF RunnerActs, RunnerStep

(* The server and Docker leave a runner that runs alone.                   *)
LEMMA ServerLeavesRunners ==
  ASSUME TypeOK, Control, ServerActs
  PROVE  \A j \in Ids :
           \/ runner'[j] = runner[j]
           \/ /\ runner[j].step \in {"absent", "reserved", "requested"}
              /\ runner'[j].step \in {"reserved", "requested", "boot", "refused"}
<1> DEFINE Left == \A j \in Ids :
             \/ runner'[j] = runner[j]
             \/ /\ runner[j].step \in {"absent", "reserved", "requested"}
                /\ runner'[j].step \in {"reserved", "requested", "boot", "refused"}
<1>1. ASSUME NEW p \in Pollers, GetStatus(p) PROVE Left
  BY <1>1, GetStatusEffect
<1>2. ASSUME NEW p \in Pollers, WithinGrace(p) PROVE Left
  BY <1>2, WithinGraceEffect
<1>3. ASSUME NEW p \in Pollers, InspectRunner(p) PROVE Left
  BY <1>3, InspectRunnerEffect
<1>4. ASSUME NEW p \in Pollers, WriteRecovered(p) PROVE Left
  BY <1>4, WriteRecoveredEffect
<1>5. ASSUME NEW p \in Pollers, ReadLatest(p) PROVE Left
  BY <1>5, ReadLatestEffect
<1>6. ASSUME NEW p \in Pollers, WriteFailed(p) PROVE Left
  BY <1>6, WriteFailedEffect
<1>7. CASE StartUpdate
  BY <1>7, StartUpdateEffect
<1>8. CASE Refuse
  BY <1>8, RefuseEffect
<1>9. CASE Accept
  BY <1>9, AcceptEffect
<1>10. CASE WriteOperation
  BY <1>10, WriteOperationEffect, Copies DEF Control, Starting
<1>11. CASE RunUtilityContainer
  BY <1>11, RunUtilityContainerEffect, Copies DEF Control, Starting
<1>12. CASE ReadAfterLaunch
  BY <1>12, ReadAfterLaunchEffect
<1>13. CASE WriteRunnerId
  BY <1>13, WriteRunnerIdEffect
<1>14. CASE LaunchFailed
  BY <1>14, LaunchFailedEffect
<1>15. ASSUME NEW i \in Ids, DockerStarts(i) PROVE Left
  BY <1>15, DockerStartsEffect
<1>16. CASE ServerStarts
  BY <1>16, ServerStartsEffect
<1>17. CASE ServerDies
  BY <1>17, ServerDiesEffect
<1> QED
  BY <1>1, <1>2, <1>3, <1>4, <1>5, <1>6, <1>7, <1>8, <1>9, <1>10, <1>11, <1>12,
     <1>13, <1>14, <1>15, <1>16, <1>17
  DEF ServerActs, PollStep, StartStep

(* Every step keeps the steps of the stages.                               *)
LEMMA NextStaged ==
  ASSUME IInv, [Next]_vars
  PROVE  Staged'
<1> USE DEF IInv
<1>1. CASE ServerActs
  BY <1>1, ServerLeavesRunners DEF Staged
<1>2. CASE UNCHANGED vars
  BY <1>2 DEF Staged, vars
<1> QED BY <1>1, <1>2, StepCases, RunnerStaged

(* A backup is made once, and stays until the runner is gone.              *)
LEMMA RunnerBackedUp ==
  ASSUME TypeOK, Control, Staged, BackedUp, NEW i \in Ids, RunnerActs(i)
  PROVE  BackedUp'
<1>1. CASE Boot(i)
  BY <1>1, BootEffect DEF BackedUp, Moves, Working, Alive
<1>2. CASE ReadOperation(i)
  BY <1>2, ReadOperationEffect DEF BackedUp, Moves, Working, Alive
<1>3. CASE Transition(i)
  BY <1>3, TransitionEffect DEF BackedUp, Moves, Working, Alive
<1>4. CASE StepFails(i)
  BY <1>4, StepFailsEffect
     DEF BackedUp, Moves, Working, Alive, FilesChanged, Rollback, Staged
<1>5. CASE Download(i)
  BY <1>5, DownloadEffect DEF BackedUp, Moves, Working, Alive
<1>6. CASE BackupInstallation(i)
  BY <1>6, BackupInstallationEffect DEF BackedUp, Moves, Working, Alive
<1>7. CASE WriteEnv(i)
  BY <1>7, WriteEnvEffect DEF BackedUp, Moves, Working, Alive
<1>8. CASE WriteCompose(i)
  BY <1>8, WriteComposeEffect DEF BackedUp, Moves, Working, Alive
<1>9. CASE ComposeConfig(i)
  BY <1>9, ComposeConfigEffect DEF BackedUp, Moves, Working, Alive, Rollback, Staged
<1>10. CASE ComposeUp(i)
  BY <1>10, ComposeUpEffect DEF BackedUp, Moves, Working, Alive, AtUp, Rollback
<1>11. CASE ComposeUpFails(i)
  BY <1>11, ComposeUpFailsEffect
     DEF BackedUp, Moves, Working, Alive, AtUp, FilesChanged, Rollback
<1>12. CASE WaitForVersion(i)
  BY <1>12, WaitForVersionEffect DEF BackedUp, Moves, Working, Alive
<1>13. CASE WaitFails(i)
  BY <1>13, WaitFailsEffect
     DEF BackedUp, Moves, Working, Alive, AtVerify, FilesChanged, Rollback,
         Staged
<1>14. CASE RunnerDies(i)
  BY <1>14, RunnerDiesEffect DEF BackedUp, Moves, Working, Alive
<1> QED
  BY <1>1, <1>2, <1>3, <1>4, <1>5, <1>6, <1>7, <1>8, <1>9, <1>10, <1>11, <1>12,
     <1>13, <1>14
  DEF RunnerActs, RunnerStep

(* Nor do they touch the files, and what is installed stays so.            *)
LEMMA ServerLeavesFiles ==
  ASSUME TypeOK, Control, ServerActs
  PROVE  /\ conf' = conf /\ server'.version = server.version
         /\ \/ /\ WriteOperation /\ Nobody
               /\ \A j \in Ids : runner[j].step # "gone" => backup'[j] = backup[j]
            \/ /\ backup' = backup
               /\ \A o \in Operations : Installed(o) => Installed(o)'
<1> DEFINE Kept == /\ conf' = conf /\ server'.version = server.version
                   /\ \/ /\ WriteOperation /\ Nobody
                         /\ \A j \in Ids : runner[j].step # "gone" => backup'[j] = backup[j]
                      \/ /\ backup' = backup
                         /\ \A o \in Operations : Installed(o) => Installed(o)'
<1>1. ASSUME NEW p \in Pollers, GetStatus(p) PROVE Kept
  BY <1>1, GetStatusEffect DEF Installed
<1>2. ASSUME NEW p \in Pollers, WithinGrace(p) PROVE Kept
  BY <1>2, WithinGraceEffect DEF Installed
<1>3. ASSUME NEW p \in Pollers, InspectRunner(p) PROVE Kept
  BY <1>3, InspectRunnerEffect DEF Installed
<1>4. ASSUME NEW p \in Pollers, WriteRecovered(p) PROVE Kept
  BY <1>4, WriteRecoveredEffect DEF Installed
<1>5. ASSUME NEW p \in Pollers, ReadLatest(p) PROVE Kept
  BY <1>5, ReadLatestEffect DEF Installed
<1>6. ASSUME NEW p \in Pollers, WriteFailed(p) PROVE Kept
  BY <1>6, WriteFailedEffect DEF Installed
<1>7. CASE StartUpdate
  BY <1>7, StartUpdateEffect DEF Installed
<1>8. CASE Refuse
  BY <1>8, RefuseEffect DEF Installed
<1>9. CASE Accept
  BY <1>9, AcceptEffect DEF Installed
<1>10. CASE WriteOperation
  <2>1. Nobody
    BY <1>10, WriteOperationEffect, InactiveIsIdle DEF Control, LetIn, Cleared
  <2> QED BY <1>10, <2>1, WriteOperationEffect
<1>11. CASE RunUtilityContainer
  BY <1>11, RunUtilityContainerEffect DEF Installed
<1>12. CASE ReadAfterLaunch
  BY <1>12, ReadAfterLaunchEffect DEF Installed
<1>13. CASE WriteRunnerId
  BY <1>13, WriteRunnerIdEffect DEF Installed
<1>14. CASE LaunchFailed
  BY <1>14, LaunchFailedEffect DEF Installed
<1>15. ASSUME NEW i \in Ids, DockerStarts(i) PROVE Kept
  BY <1>15, DockerStartsEffect DEF Installed
<1>16. CASE ServerStarts
  BY <1>16, ServerStartsEffect DEF Installed
<1>17. CASE ServerDies
  BY <1>17, ServerDiesEffect DEF Installed
<1> QED
  BY <1>1, <1>2, <1>3, <1>4, <1>5, <1>6, <1>7, <1>8, <1>9, <1>10, <1>11, <1>12,
     <1>13, <1>14, <1>15, <1>16, <1>17
  DEF ServerActs, PollStep, StartStep

(* Every step keeps what is said of the backups.                           *)
LEMMA NextBackedUp ==
  ASSUME IInv, [Next]_vars
  PROVE  BackedUp'
<1> USE DEF IInv
<1>1. ASSUME ServerActs PROVE BackedUp'
  <2>1. \A j \in Ids : runner[j].step # "gone" => backup'[j] = backup[j]
    BY <1>1, ServerLeavesFiles
  <2>2. \A j \in Ids : \/ runner'[j] = runner[j]
                      \/ /\ runner[j].step \in {"absent", "reserved", "requested"}
                         /\ runner'[j].step \in {"reserved", "requested", "boot", "refused"}
    BY <1>1, ServerLeavesRunners
  <2> QED BY <2>1, <2>2 DEF BackedUp, Working, Alive
<1>2. CASE UNCHANGED vars
  BY <1>2 DEF BackedUp, Working, Alive, vars
<1> QED BY <1>1, <1>2, StepCases, RunnerBackedUp

-----------------------------------------------------------------------------
(* The installation.                                                       *)

(* Only the runner that acts is to be looked at.                           *)
LEMMA FilesOf ==
  ASSUME TypeOK, Control, NEW i \in Ids, GoesOn(i),
         Working(i)' => Forward(i)' /\ Backward(i)' /\ Ended(i)'
  PROVE  Files'
<1> SUFFICES ASSUME NEW j \in Ids, Working(j)' PROVE Forward(j)' /\ Backward(j)' /\ Ended(j)'
  BY DEF Files
<1>1. CASE j = i
  BY <1>1
<1>2. CASE j # i
  <2>1. Pending(i)
    BY WorkingSteps DEF GoesOn
  <2>2. ~Working(j)
    BY <1>2, <2>1, OnlyRunner, WorkingSteps
  <2> QED BY <1>2, <2>2 DEF GoesOn, Working, Alive
<1> QED BY <1>1, <1>2

(* What the runner finds and leaves at each of its steps.                  *)
LEMMA RunnerFilesOf ==
  ASSUME TypeOK, Control, Staged, BackedUp, Files, NEW i \in Ids, RunnerActs(i)
  PROVE  Working(i)' => Forward(i)' /\ Backward(i)' /\ Ended(i)'
<1>1. Working(i) => Forward(i) /\ Backward(i) /\ Ended(i)
  BY DEF Files
<1> USE <1>1, WorkingSteps
<1>2. CASE Boot(i)
  BY <1>2, BootEffect DEF Forward, Backward, Ended, Moves, Installed, Unchanged
<1>3. CASE ReadOperation(i)
  <2>1. PICK copy \in Operations :
          Same(op, copy) /\ Moves(i, "write", runner[i].stage, runner[i].code, copy)
    BY <1>3, ReadOperationEffect
  <2>2. Working(i) /\ runner[i].step = "read" /\ Same(op, runner[i].copy)
    BY <1>3, ReadOperationEffect, Copies
  <2>3. /\ runner'[i].copy.id = runner[i].copy.id
        /\ runner'[i].copy.source = runner[i].copy.source
        /\ runner'[i].copy.target = runner[i].copy.target
        /\ runner'[i].step = "write" /\ runner'[i].stage = runner[i].stage
        /\ runner'[i].code = runner[i].code
    BY <2>1, <2>2 DEF Same, Moves
  <2>4. UNCHANGED <<conf, server, validation, backup, deaths>>
    BY <1>3, ReadOperationEffect
  <2>5. Forward(i)' /\ Backward(i)'
    BY <2>2, <2>3, <2>4 DEF Forward, Backward
  <2>6. Ended(i)'
    BY <2>2, <2>3, <2>4 DEF Ended, Installed, Unchanged
  <2> QED BY <2>5, <2>6
<1>4. CASE Transition(i)
  BY <1>4, TransitionEffect
     DEF Forward, Backward, Ended, Moves, Installed, Unchanged
<1>5. CASE StepFails(i)
  <2>1. /\ Working(i) /\ UNCHANGED <<conf, backup>>
        /\ runner[i].step \in {"work", "compose", "config"} /\ runner[i].copy.id = i
    BY <1>5, StepFailsEffect, Copies
  <2>2. CASE /\ Moves(i, "read", "failed", "update", runner[i].copy)
             /\ ~Rollback(i) /\ ~FilesChanged(i)
    <3>1. \/ runner[i].stage \in {"preparing", "backing_up"}
          \/ runner[i].stage = "pulling" /\ runner[i].step = "work"
      BY <2>1, <2>2 DEF Staged, Active, FilesChanged, Rollback
    <3>2. backup[i] = NoConf \/ conf = backup[i]
      BY <2>1, <3>1 DEF BackedUp, Forward
    <3>3. Unchanged(runner[i].copy)'
      BY <2>1, <2>2, <3>2 DEF Unchanged, Moves
    <3> QED BY <2>2, <3>3 DEF Forward, Backward, Ended, Moves
  <2>3. CASE Moves(i, "read", "failed", "rollback", runner[i].copy)
    BY <2>3 DEF Forward, Backward, Ended, Moves
  <2>4. CASE Moves(i, "read", "rolling_back", "update", runner[i].copy)
    BY <2>4 DEF Forward, Backward, Ended, Moves
  <2> QED BY <1>5, <2>2, <2>3, <2>4, StepFailsEffect
<1>6. CASE Download(i)
  BY <1>6, DownloadEffect DEF Forward, Backward, Ended, Moves, Installed, Unchanged
<1>7. CASE BackupInstallation(i)
  BY <1>7, BackupInstallationEffect
     DEF Forward, Backward, Ended, Moves, Installed, Unchanged
<1>8. CASE WriteEnv(i)
  <2>1. /\ Working(i) /\ runner[i].step = "work" /\ backup' = backup
        /\ runner[i].stage \in {"pulling", "rolling_back"}
        /\ runner'[i].stage = runner[i].stage /\ runner'[i].step = "compose"
        /\ runner'[i].copy = runner[i].copy
    BY <1>8, WriteEnvEffect DEF Moves
  <2>2. CASE Rollback(i)
    BY <1>8, <2>1, <2>2, WriteEnvEffect DEF Forward, Backward, Ended, Rollback
  <2>3. CASE ~Rollback(i)
    <3>1. runner[i].stage = "pulling" /\ conf = backup[i]
      BY <2>1, <2>3 DEF Rollback, Forward
    <3>2. conf' = [backup'[i] EXCEPT !.env = runner'[i].copy.target]
      BY <1>8, <2>1, <2>3, <3>1, WriteEnvEffect
    <3> QED BY <2>1, <3>1, <3>2 DEF Forward, Backward, Ended
  <2> QED BY <2>2, <2>3
<1>9. CASE WriteCompose(i)
  <2>1. /\ Working(i) /\ runner[i].step = "compose" /\ backup' = backup
        /\ runner'[i].stage = runner[i].stage /\ runner'[i].step = "config"
        /\ runner'[i].copy = runner[i].copy
        /\ conf' = [env |-> conf'.env, compose |-> conf'.compose] /\ conf'.env = conf.env
    BY <1>9, WriteComposeEffect DEF Moves, Configs
  <2>2. CASE Rollback(i)
    BY <1>9, <2>1, <2>2, WriteComposeEffect DEF Forward, Backward, Ended, Rollback
  <2>3. CASE ~Rollback(i)
    <3>1. runner[i].stage = "pulling"
      BY <2>1, <2>3 DEF Rollback, Staged
    <3>2. backup[i] \in Configs /\ conf = [backup[i] EXCEPT !.env = runner[i].copy.target]
      BY <2>1, <3>1 DEF BackedUp, Forward
    <3>3. conf.env = runner[i].copy.target
      BY <3>2 DEF Configs
    <3>4. conf' = [env |-> runner'[i].copy.target, compose |-> runner'[i].copy.target]
      BY <1>9, <2>1, <2>3, <3>3, WriteComposeEffect
    <3> QED BY <2>1, <3>1, <3>4 DEF Forward, Backward, Ended
  <2> QED BY <2>2, <2>3
<1>10. CASE ComposeConfig(i)
  <2>1. Working(i) /\ runner[i].stage = "pulling" /\ runner[i].step = "config"
    BY <1>10, ComposeConfigEffect DEF Staged, Rollback
  <2>2. conf = [env |-> runner[i].copy.target, compose |-> runner[i].copy.target]
    BY <2>1 DEF Forward
  <2> QED BY <1>10, <2>2, ComposeConfigEffect DEF Forward, Backward, Ended, Moves
<1>11. CASE ComposeUp(i)
  <2>1. Working(i) /\ server'.version = conf.env /\ UNCHANGED <<conf, backup>>
    BY <1>11, ComposeUpEffect DEF AtUp
  <2>2. CASE Rollback(i)
    <3>1. /\ runner[i].step = "config" /\ runner[i].stage = "rolling_back"
          /\ Moves(i, "verify", runner[i].stage, runner[i].code, runner[i].copy)
      BY <1>11, <2>2, ComposeUpEffect DEF AtUp, Rollback
    <3>2. conf = [env |-> runner[i].copy.source, compose |-> backup[i].compose]
      BY <2>1, <3>1 DEF Backward
    <3> QED BY <2>1, <3>1, <3>2 DEF Forward, Backward, Ended, Moves
  <2>3. CASE ~Rollback(i)
    <3>1. /\ runner[i].stage = "restarting"
          /\ Moves(i, "read", "verifying", "none", runner[i].copy)
      BY <1>11, <2>3, ComposeUpEffect DEF AtUp
    <3>2. conf = [env |-> runner[i].copy.target, compose |-> runner[i].copy.target]
      BY <2>1, <3>1 DEF Forward
    <3> QED BY <2>1, <3>1, <3>2 DEF Forward, Backward, Ended, Moves
  <2> QED BY <2>2, <2>3
<1>12. CASE ComposeUpFails(i)
  BY <1>12, ComposeUpFailsEffect
     DEF Forward, Backward, Ended, Moves, Installed, Unchanged
<1>13. CASE WaitForVersion(i)
  <2>1. /\ Working(i) /\ runner[i].copy.id = i /\ AtVerify(i) /\ Verified(i)
        /\ UNCHANGED <<conf, server, validation>>
    BY <1>13, WaitForVersionEffect, Copies DEF AtVerify
  <2>2. CASE Moves(i, "read", "rolled_back", "update", runner[i].copy)
    BY <2>2 DEF Forward, Backward, Ended, Moves
  <2>3. CASE ~Rollback(i) /\ Moves(i, "read", "completed", "none", runner[i].copy)
    <3>1. runner[i].stage = "verifying" /\ Expected(i) = runner[i].copy.target
      BY <2>1, <2>3 DEF AtVerify, Staged, Rollback, Expected
    <3>2. conf = [env |-> runner[i].copy.target, compose |-> runner[i].copy.target]
      BY <2>1, <3>1 DEF Forward
    <3>3. Installed(runner[i].copy)'
      BY <2>1, <2>3, <3>1, <3>2 DEF Installed, Verified, Moves
    <3> QED BY <2>3, <3>3 DEF Forward, Backward, Ended, Moves
  <2> QED BY <1>13, <2>2, <2>3, WaitForVersionEffect
<1>14. CASE WaitFails(i)
  BY <1>14, WaitFailsEffect
     DEF Forward, Backward, Ended, Moves, Installed, Unchanged
<1>15. CASE RunnerDies(i)
  BY <1>15, RunnerDiesEffect
     DEF Forward, Backward, Ended, Moves, Installed, Unchanged
<1> QED
  BY <1>2, <1>3, <1>4, <1>5, <1>6, <1>7, <1>8, <1>9, <1>10, <1>11, <1>12, <1>13,
     <1>14, <1>15
  DEF RunnerActs, RunnerStep

(* Every step keeps what is said of the files.                             *)
LEMMA NextFiles ==
  ASSUME IInv, [Next]_vars
  PROVE  Files'
<1> USE DEF IInv
<1>1. ASSUME NEW i \in Ids, RunnerActs(i) PROVE Files'
  BY <1>1, RunnerGoesOn, RunnerFilesOf, FilesOf
<1>2. ASSUME ServerActs PROVE Files'
  <2> SUFFICES ASSUME NEW i \in Ids, Working(i)' PROVE Forward(i)' /\ Backward(i)' /\ Ended(i)'
    BY DEF Files
  <2>1. runner'[i] = runner[i] /\ Working(i)
    BY <1>2, ServerLeavesRunners DEF Working, Alive
  <2>2. Forward(i) /\ Backward(i) /\ Ended(i) /\ ~Nobody /\ runner[i].copy \in Operations
    BY <2>1, Copies, WorkingSteps DEF Files, Nobody
  <2>3. /\ conf' = conf /\ server'.version = server.version /\ backup' = backup
        /\ \A o \in Operations : Installed(o) => Installed(o)'
    BY <1>2, <2>2, ServerLeavesFiles
  <2>4. Forward(i)' /\ Backward(i)'
    BY <2>1, <2>2, <2>3 DEF Forward, Backward
  <2>5. Ended(i)'
    <3>1. Installed(runner[i].copy) => Installed(runner[i].copy)'
      BY <2>1, <2>2, <2>3 DEF Installed
    <3>2. Unchanged(runner[i].copy) => Unchanged(runner[i].copy)'
      BY <2>1, <2>3 DEF Unchanged
    <3> QED BY <2>1, <2>2, <3>1, <3>2 DEF Ended
  <2> QED BY <2>4, <2>5
<1>3. CASE UNCHANGED vars
  BY <1>3 DEF Files, Forward, Backward, Ended, Installed, Unchanged, Working, Alive, vars
<1> QED BY <1>1, <1>2, <1>3, StepCases

(* A runner writes only what is so; while it changes the installation the  *)
(* record is of an active operation and says nothing of it.                *)
LEMMA RunnerTruth ==
  ASSUME TypeOK, Control, Staged, BackedUp, Files, Truth, NEW i \in Ids, RunnerActs(i)
  PROVE  Truth'
<1>1. GoesOn(i) /\ Pending(i)
  BY RunnerGoesOn, WorkingSteps DEF GoesOn
<1>2. /\ op \in Operations /\ op.phase \in Active
      /\ start.pc = "record" => start.copy.phase \in Active
  BY <1>1, OnlyRunner
<1>3. start' = start \/ start'.pc = "idle"
  BY <1>1 DEF GoesOn
<1>4. start'.pc = "record" => Told(start.copy)'
  BY <1>2, <1>3 DEF Told, Active
<1>5. op' = op => Truth'
  BY <1>2, <1>4 DEF Truth, Told, Active
<1>6. CASE Boot(i)
  BY <1>6, BootEffect, <1>5
<1>7. CASE ReadOperation(i)
  BY <1>7, ReadOperationEffect, <1>5
<1>8. CASE Transition(i)
  <2>1. /\ op' \in Operations /\ op' = runner[i].copy /\ Working(i)
        /\ op'.phase = runner[i].stage /\ op'.code = runner[i].code
        /\ UNCHANGED <<conf, server, validation, backup, deaths>>
    BY <1>8, TransitionEffect, WorkingSteps
  <2>2. Ended(i)
    BY <2>1 DEF Files
  <2>3. Told(op)'
    BY <2>1, <2>2 DEF Ended, Told, Installed, Unchanged
  <2> QED BY <1>4, <2>3 DEF Truth
<1>9. CASE StepFails(i)
  BY <1>9, StepFailsEffect, <1>5
<1>10. CASE Download(i)
  BY <1>10, DownloadEffect, <1>5
<1>11. CASE BackupInstallation(i)
  BY <1>11, BackupInstallationEffect, <1>5
<1>12. CASE WriteEnv(i)
  BY <1>12, WriteEnvEffect, <1>5
<1>13. CASE WriteCompose(i)
  BY <1>13, WriteComposeEffect, <1>5
<1>14. CASE ComposeConfig(i)
  BY <1>14, ComposeConfigEffect, <1>5
<1>15. CASE ComposeUp(i)
  BY <1>15, ComposeUpEffect, <1>5
<1>16. CASE ComposeUpFails(i)
  BY <1>16, ComposeUpFailsEffect, <1>5
<1>17. CASE WaitForVersion(i)
  BY <1>17, WaitForVersionEffect, <1>5
<1>18. CASE WaitFails(i)
  BY <1>18, WaitFailsEffect, <1>5
<1>19. CASE RunnerDies(i)
  BY <1>19, RunnerDiesEffect, <1>5
<1> QED
  BY <1>6, <1>7, <1>8, <1>9, <1>10, <1>11, <1>12, <1>13, <1>14, <1>15, <1>16,
     <1>17, <1>18, <1>19
  DEF RunnerActs, RunnerStep

(* The server records what it has read or been told.                       *)
LEMMA ServerTruth ==
  ASSUME TypeOK, Control, Truth, ServerActs
  PROVE  Truth'
<1>1. ASSUME NEW p \in Pollers, GetStatus(p) PROVE Truth'
  BY <1>1, GetStatusEffect DEF Truth, Told, Installed, Unchanged
<1>2. ASSUME NEW p \in Pollers, WithinGrace(p) PROVE Truth'
  BY <1>2, WithinGraceEffect DEF Truth, Told, Installed, Unchanged
<1>3. ASSUME NEW p \in Pollers, InspectRunner(p) PROVE Truth'
  BY <1>3, InspectRunnerEffect DEF Truth, Told, Installed, Unchanged
<1>4. ASSUME NEW p \in Pollers, WriteRecovered(p) PROVE Truth'
  BY <1>4, WriteRecoveredEffect DEF Truth, Told, Installed, Unchanged, Active
<1>5. ASSUME NEW p \in Pollers, ReadLatest(p) PROVE Truth'
  BY <1>5, ReadLatestEffect DEF Truth, Told, Installed, Unchanged
<1>6. ASSUME NEW p \in Pollers, WriteFailed(p) PROVE Truth'
  BY <1>6, WriteFailedEffect DEF Truth, Told, Installed, Unchanged
<1>7. CASE StartUpdate
  BY <1>7, StartUpdateEffect DEF Truth, Told, Installed, Unchanged
<1>8. CASE Refuse
  BY <1>8, RefuseEffect DEF Truth, Told, Installed, Unchanged
<1>9. CASE Accept
  BY <1>9, AcceptEffect DEF Truth, Told, Installed, Unchanged
<1>10. CASE WriteOperation
  <2>1. op'.phase = "preparing" /\ start'.pc = "launch"
    BY <1>10, WriteOperationEffect DEF Control, Starting
  <2> QED BY <2>1 DEF Truth, Told
<1>11. CASE RunUtilityContainer
  BY <1>11, RunUtilityContainerEffect DEF Truth, Told, Installed, Unchanged
<1>12. CASE ReadAfterLaunch
  BY <1>12, ReadAfterLaunchEffect DEF Truth, Told, Installed, Unchanged
<1>13. CASE WriteRunnerId
  <2>1. Told(start.copy)
    BY <1>13, WriteRunnerIdEffect DEF Truth
  <2>2. Told(op)'
    BY <1>13, <2>1, WriteRunnerIdEffect DEF Told, Installed, Unchanged, Same
  <2> QED BY <1>13, <2>2, WriteRunnerIdEffect DEF Truth
<1>14. CASE LaunchFailed
  BY <1>14, LaunchFailedEffect DEF Truth, Told, Installed, Unchanged
<1>15. ASSUME NEW i \in Ids, DockerStarts(i) PROVE Truth'
  BY <1>15, DockerStartsEffect DEF Truth, Told, Installed, Unchanged
<1>16. CASE ServerStarts
  BY <1>16, ServerStartsEffect DEF Truth, Told, Installed, Unchanged
<1>17. CASE ServerDies
  BY <1>17, ServerDiesEffect DEF Truth, Told, Installed, Unchanged
<1> QED
  BY <1>1, <1>2, <1>3, <1>4, <1>5, <1>6, <1>7, <1>8, <1>9, <1>10, <1>11, <1>12,
     <1>13, <1>14, <1>15, <1>16, <1>17
  DEF ServerActs, PollStep, StartStep

(* Every step keeps what is recorded true.                                 *)
LEMMA NextTruth ==
  ASSUME IInv, [Next]_vars
  PROVE  Truth'
<1>1. CASE UNCHANGED vars
  BY <1>1 DEF IInv, Truth, Told, Installed, Unchanged, vars
<1> QED BY <1>1, StepCases, RunnerTruth, ServerTruth DEF IInv

-----------------------------------------------------------------------------
(* The theorems.                                                           *)

(* No operation is recorded and nothing runs.                              *)
LEMMA InitIInv == Init => IInv
<1> SUFFICES ASSUME Init PROVE IInv
  OBVIOUS
<1>1. Typed
  <2>1. 1 \in Versions
    BY UpdaterAssumption DEF Versions
  <2>2. conf \in Configs /\ server \in Servers
    BY <2>1 DEF Init, Configs, Servers
  <2>3. op \in Record /\ start \in Starts /\ poll \in [Pollers -> Polls]
    BY RecordFacts, IdleTyped DEF Init
  <2>4. runner \in [Ids -> Runners]
    BY NoRunnerTyped DEF Init, Steps
  <2>5. /\ validation \in [Ids -> Validations] /\ backup \in [Ids -> Configs \cup {NoConf}]
        /\ deaths \in 0..MaxDeaths
    BY UpdaterAssumption DEF Init, Validations
  <2> QED BY <2>2, <2>3, <2>4, <2>5 DEF Typed
<1>2. /\ op = NoOp /\ start.pc = "idle" /\ \A p \in Pollers : poll[p].pc = "idle"
      /\ \A i \in Ids : runner[i].step = "absent" /\ backup[i] = NoConf
  BY IdleTyped, NoRunnerTyped DEF Init, Steps
<1>3. Starting /\ Reconciling
  BY <1>2 DEF Starting, Reconciling
<1>4. OnePoller /\ LetIn
  BY <1>2, UpdaterAssumption DEF OnePoller, LetIn, Busy, Cleared
<1>5. Running
  BY <1>2 DEF Running, Pending, Working, Alive
<1>6. Staged /\ BackedUp
  BY <1>2 DEF Staged, BackedUp, Working, Alive
<1>7. Files /\ Truth
  BY <1>2, RecordFacts DEF Files, Truth, Working, Alive
<1> QED BY <1>1, <1>3, <1>4, <1>5, <1>6, <1>7, Types DEF IInv, Control

(* The invariant is inductive.                                             *)
LEMMA NextIInv ==
  ASSUME ~Overlap
  PROVE  IInv /\ [Next]_vars => IInv'
<1> SUFFICES ASSUME IInv, [Next]_vars PROVE IInv'
  OBVIOUS
<1> QED BY NextTypeOK, NextControl, NextStaged, NextBackedUp, NextFiles, NextTruth DEF IInv

(* It holds as long as no two requests reconcile at the same time.         *)
LEMMA UpdaterInvariant ==
  ASSUME ~Overlap
  PROVE  Spec => []IInv
<1>1. IInv /\ [Next]_vars => IInv'
  BY NextIInv
<1> QED BY InitIInv, <1>1, PTL DEF Spec

(* While no two status requests reconcile at the same time, every record,  *)
(* file, container and runner of the update has its type.                  *)
THEOREM UpdaterTypes ==
  ASSUME ~Overlap
  PROVE  Spec => []TypeOK
<1>1. IInv => TypeOK
  BY DEF IInv
<1> QED BY UpdaterInvariant, <1>1, PTL

(* While no two status requests reconcile at the same time, only one       *)
(* runner changes the installation, however many updates are started and   *)
(* whichever processes die: status.json is active and of its operation     *)
(* from before Docker is asked for the runner until it is gone.            *)
THEOREM OneRunnerAtATime ==
  ASSUME ~Overlap
  PROVE  Spec => []OneRunner
<1>1. IInv => OneRunner
  BY Copies, WorkingSteps DEF IInv, OneRunner
<1> QED BY UpdaterInvariant, <1>1, PTL

(* Under the same condition a rollback that has recreated the container    *)
(* has brought back the source's image and both files, also if the update  *)
(* failed between the two.                                                 *)
THEOREM RollbacksRestore ==
  ASSUME ~Overlap
  PROVE  Spec => []RollbackRestores
<1>1. ASSUME IInv PROVE RollbackRestores
  <2> SUFFICES ASSUME NEW i \in Ids, runner[i].step = "verify"
               PROVE  /\ conf = [env |-> runner[i].copy.source, compose |-> backup[i].compose]
                      /\ server.version = runner[i].copy.source
    BY DEF RollbackRestores
  <2>1. runner[i].stage = "rolling_back" /\ Backward(i)
    BY <1>1, WorkingSteps DEF IInv, Staged, Files
  <2> QED BY <2>1 DEF Backward
<1>2. IInv => RollbackRestores
  BY <1>1
<1> QED BY UpdaterInvariant, <1>2, PTL

(* Under the same condition a completed update is what both files and the  *)
(* container are, and its start was validated unless something crashed:    *)
(* no late write of another record makes it untrue.                        *)
THEOREM CompletionsAreInstalled ==
  ASSUME ~Overlap
  PROVE  Spec => []CompletedIsInstalled
<1>1. ASSUME IInv PROVE CompletedIsInstalled
  <2>1. op # NoOp => op \in Operations
    BY <1>1, Fields, RecordFacts DEF IInv
  <2> QED BY <1>1, <2>1 DEF IInv, Truth, Told, Installed, CompletedIsInstalled
<1>2. IInv => CompletedIsInstalled
  BY <1>1
<1> QED BY UpdaterInvariant, <1>2, PTL

(* Under the same condition a failed record is true: UPDATE_RUNNER_STOPPED *)
(* is recorded only of a runner that is gone, and a failure before the     *)
(* replacement left the files as they were backed up.                      *)
THEOREM FailuresAreTrue ==
  ASSUME ~Overlap
  PROVE  Spec => []FailedIsTrue
<1>1. ASSUME IInv PROVE FailedIsTrue
  <2>1. op # NoOp => op \in Operations /\ op.id \in Ids
    BY <1>1, Fields, RecordFacts, OperationUpdates DEF IInv
  <2>2. StoppedBeforeReplace
    BY <1>1, <2>1 DEF IInv, Truth, Told, Unchanged, StoppedBeforeReplace
  <2>3. StoppedIsGone
    BY <1>1, <2>1, Copies, WorkingSteps DEF IInv, StoppedIsGone, Active
  <2> QED BY <2>2, <2>3 DEF FailedIsTrue
<1>2. IInv => FailedIsTrue
  BY <1>1
<1> QED BY UpdaterInvariant, <1>2, PTL

=============================================================================
