------------------------------ MODULE Archive ------------------------------
(***************************************************************************)
(* Archiving and restoring the services of one project group, from         *)
(* src/src/pipeline/deploy/lifecycle.ts (archive, archiveGroup, unarchive, *)
(* unarchiveGroup) and the locks that DeployPipeline puts around them.     *)
(*                                                                         *)
(* Every service has two rows, both with an archived_at column: projects   *)
(* (row) and services (mark).  The row of the primary service is at the    *)
(* same time the row of the group, and its archived_at the group's marker. *)
(* One operation writes one timestamp on all that it archives; a restore   *)
(* takes back the services that carry the timestamp it looks for.          *)
(*                                                                         *)
(* A stateful Compose resource keeps its container: it is stopped, taken   *)
(* off the network, renamed, and a failure on the way has to undo all      *)
(* that.  Other services are archived in the database first and lose their *)
(* container.                                                              *)
(***************************************************************************)
EXTENDS Naturals

CONSTANTS
  Deployables,  \* the services getDeployablesByGroup finds in the group
  Primary,      \* the one that shares its project row with the group
  Children,     \* the Compose children of each deployable service
  Stateful,     \* the children whose runtime_role is resource
  Clients,      \* requests in flight at the same time
  MaxOps,       \* bound: operations
  MaxFaults,    \* bound: Docker or database calls that throw
  MaxCrashes,   \* bound: restarts of the process
  Overlap,      \* whether a restore may overlap another operation
  None

Kids == UNION {Children[d] : d \in Deployables}
Services == Deployables \cup Kids
ChildrenOf(x) == IF x \in Deployables THEN Children[x] ELSE {}
Leaves == {d \in Deployables : Children[d] = {}}

ASSUME ArchiveAssumption ==
  /\ Primary \in Deployables
  /\ Deployables \cap Kids = {}
  /\ Stateful \subseteq Kids
  /\ MaxOps \in Nat /\ MaxFaults \in Nat /\ MaxCrashes \in Nat
  /\ Overlap \in BOOLEAN
  /\ None \notin Clients /\ None \notin Services

VARIABLES
  row,      \* projects.archived_at: 0, or the operation that wrote it
  mark,     \* services.archived_at
  rec,      \* services.container_id (is there one) and container_name
  ctr,      \* the container itself
  locks,    \* deploy_lock_session of each project row
  op,       \* what each client is doing
  ops, faults, crashes,
  why,      \* history: the operation that archived the service
  last,     \* history: the archive that has just returned, undisturbed
  torn      \* history: resources whose catch block undoes too much

rows == <<row, mark, rec>>
bounds == <<ops, faults, crashes>>
history == <<why, last, torn>>
vars == <<rows, ctr, locks, op, bounds, history>>

Archives == {"archive", "archiveGroup"}
Restores == {"unarchive", "unarchiveGroup"}

Gone == [up |-> FALSE, name |-> "none", net |-> FALSE]
Serving == [up |-> TRUE, name |-> "canonical", net |-> TRUE]
Recorded == [cid |-> TRUE, name |-> "canonical"]

(* What an operation has done to the container, to be undone if it fails.  *)
Flags == {"stopped", "disconnected", "renamed", "connected", "found"}

Idle == [kind |-> "none", pc |-> "idle", target |-> None, id |-> 0,
         shared |-> FALSE, alone |-> FALSE, marker |-> 0, todo |-> {},
         root |-> None, kids |-> {}, cur |-> None, done |-> {},
         before |-> {}, owed |-> None]

Steps == {"idle", "lock", "list", "next", "visit", "end", "return",
          "row", "clear", "unset", "remove", "mark",
          "stop", "disconnect", "rename", "save", "undo",
          "resume", "connect", "start", "clearRow", "clearMark", "record",
          "port", "release", "unmark"}

Times == 0..MaxOps

Containers == [up : BOOLEAN, net : BOOLEAN, name : {"none", "canonical", "preserved"}]

Operations ==
  [kind : Archives \cup Restores \cup {"none"}, pc : Steps,
   target : Services \cup {None}, id : Times, shared : BOOLEAN, alone : BOOLEAN,
   marker : Times, todo : SUBSET Deployables, root : Deployables \cup {None},
   kids : SUBSET Kids, cur : Services \cup {None}, done : SUBSET Flags,
   before : SUBSET Services, owed : {None} \cup SUBSET Services]

Archived == [kind : Archives, target : Services, before : SUBSET Services] \cup {None}

TypeOK ==
  /\ row \in [Services -> Times]
  /\ mark \in [Services -> Times]
  /\ rec \in [Services -> [cid : BOOLEAN, name : {"canonical", "preserved"}]]
  /\ ctr \in [Services -> Containers]
  /\ locks \in [Services -> Clients \cup {None}]
  /\ op \in [Clients -> Operations]
  /\ ops \in Times /\ faults \in 0..MaxFaults /\ crashes \in 0..MaxCrashes
  /\ why \in [Services -> Times]
  /\ last \in Archived
  /\ torn \subseteq Kids

Init ==
  /\ row = [x \in Services |-> 0]
  /\ mark = [x \in Services |-> 0]
  /\ rec = [x \in Services |->
              IF x \in Leaves \cup Kids THEN Recorded
              ELSE [cid |-> FALSE, name |-> "canonical"]]
  /\ ctr = [x \in Services |->
              IF x \in Leaves \cup Kids THEN Serving ELSE Gone]
  /\ locks = [x \in Services |-> None]
  /\ op = [c \in Clients |-> Idle]
  /\ ops = 0 /\ faults = 0 /\ crashes = 0
  /\ why = [x \in Services |-> 0]
  /\ last = None
  /\ torn = {}

-----------------------------------------------------------------------------
(* Bookkeeping of an operation.                                            *)

Active == {x \in Services : mark[x] = 0}
Quiet == \A c \in Clients : op[c].pc = "idle"

At(c, s) == op[c].pc = s

(* The operation goes on.                                                  *)
Go(c, o) == op' = [op EXCEPT ![c] = o]
Goto(c, s) == op' = [op EXCEPT ![c].pc = s]
GotoDone(c, s, done) == op' = [op EXCEPT ![c].pc = s, ![c].done = done]

(* withDeployLock's finally: whatever the outcome, the locks are given up. *)
Leave(c) ==
  /\ op' = [op EXCEPT ![c] = Idle]
  /\ locks' = [x \in Services |-> IF locks[x] = c THEN None ELSE locks[x]]

(* A call throws and nothing catches it.                                   *)
Faulty == faults < MaxFaults /\ faults' = faults + 1
Throw(c) ==
  /\ Faulty
  /\ Leave(c)
  /\ UNCHANGED <<rows, ctr, ops, crashes, history>>

(* A call throws inside a try: its catch block runs next.                  *)
Caught(c, s) ==
  /\ Faulty
  /\ Goto(c, s)
  /\ UNCHANGED <<rows, ctr, locks, ops, crashes, history>>

(* The service that the step is about.                                     *)
Cur(c) == op[c].cur

(* The container of the step's service changes, nothing else does.         *)
Runtime(c, container) ==
  /\ ctr' = [ctr EXCEPT ![Cur(c)] = container]
  /\ UNCHANGED <<rows, locks, bounds, history>>

(* That container, stopped or started, on or off its network, renamed.     *)
Powered(c, up) == [ctr[Cur(c)] EXCEPT !.up = up]
Connected(c, net) == [ctr[Cur(c)] EXCEPT !.net = net]
Named(c, name) == [ctr[Cur(c)] EXCEPT !.name = name]

Still == UNCHANGED <<rows, ctr, locks, bounds, history>>

(* A Docker call inside a try block: it takes effect, or it throws.        *)
Try(c, s, container, next, done, handler) ==
  /\ At(c, s)
  /\ \/ Runtime(c, container) /\ GotoDone(c, next, done)
     \/ Caught(c, handler)

-----------------------------------------------------------------------------
(* Requests.                                                               *)

(* archive_service and its route refuse an archived service; the other     *)
(* requests are not checked.  Without Overlap a restore runs alone.        *)
Admitted(kind, x) ==
  /\ kind = "archive" => mark[x] = 0
  /\ ~Overlap => IF kind \in Restores THEN Quiet
                 ELSE \A c \in Clients : op[c].kind \notin Restores

(* history: this restore follows the archive it undoes at once, so what    *)
(* was active before that archive has to be active after it.               *)
Owed(kind, x) ==
  IF /\ last # None /\ last.target = x
     /\ <<last.kind, kind>> \in
          {<<"archive", "unarchive">>, <<"archiveGroup", "unarchiveGroup">>}
  THEN last.before ELSE None

Begin(c, kind, x) ==
  /\ At(c, "idle") /\ ops < MaxOps
  /\ Admitted(kind, x)
  /\ op' = [op EXCEPT ![c] =
              [Idle EXCEPT !.kind = kind, !.target = x, !.id = ops + 1,
                 !.alone = Quiet, !.before = Active, !.owed = Owed(kind, x),
                 !.pc = IF kind \in Archives THEN "lock" ELSE "list"]]
  /\ ops' = ops + 1
  /\ last' = None
  /\ UNCHANGED <<rows, ctr, locks, faults, crashes, why, torn>>

RequestService(c, x) == \E kind \in {"archive", "unarchive"} : Begin(c, kind, x)
RequestGroup(c) ==
  \E kind \in {"archiveGroup", "unarchiveGroup"} : Begin(c, kind, Primary)

(* collectArchiveLockProjectIds: the roots and their Compose children; of  *)
(* the group its row and the services that are active when it is called.   *)
LockSet(c) ==
  LET roots == IF op[c].kind = "archive" THEN {op[c].target}
               ELSE {Primary} \cup (Deployables \cap Active)
  IN  roots \cup UNION {ChildrenOf(x) : x \in roots}

(* withArchiveLocks: all of them or DeployLockedError.                     *)
AcquireLocks(c) ==
  /\ At(c, "lock")
  /\ IF \A x \in LockSet(c) : locks[x] = None
     THEN /\ locks' = [x \in Services |->
                         IF x \in LockSet(c) THEN c ELSE locks[x]]
          /\ Goto(c, "list")
     ELSE Leave(c)
  /\ UNCHANGED <<rows, ctr, bounds, history>>

(* The services an operation starts from.  archive gives all of a Compose  *)
(* stack one marker; archiveGroup takes what is active; unarchiveGroup     *)
(* what carries the group's marker, and nothing if there is no marker.     *)
ListServices(c) ==
  /\ At(c, "list")
  /\ LET x == op[c].target
         marker == IF row[x] # 0 THEN row[x] ELSE mark[x]
     IN  CASE op[c].kind = "archive" ->
                Go(c, [op[c] EXCEPT !.cur = x, !.pc = "visit",
                                    !.shared = ChildrenOf(x) # {}])
           [] op[c].kind = "archiveGroup" ->
                IF Deployables \cap Active = {} THEN Goto(c, "return")
                ELSE Go(c, [op[c] EXCEPT !.todo = Deployables \cap Active,
                                         !.pc = "next", !.shared = TRUE])
           [] op[c].kind = "unarchive" ->
                Go(c, [op[c] EXCEPT !.cur = x, !.pc = "visit", !.marker = marker])
           [] op[c].kind = "unarchiveGroup" ->
                IF row[Primary] = 0 THEN Goto(c, "return")
                ELSE Go(c, [op[c] EXCEPT
                              !.todo = {d \in Deployables : mark[d] = row[Primary]},
                              !.pc = "next", !.marker = row[Primary]])
  /\ Still

(* The loops: the children of the service at hand, then the service        *)
(* itself, then the next one of the group.                                 *)
NextService(c) ==
  /\ At(c, "next")
  /\ \/ \E k \in op[c].kids :
          Go(c, [op[c] EXCEPT !.cur = k, !.kids = @ \ {k}, !.pc = "visit"])
     \/ /\ op[c].kids = {} /\ op[c].root # None
        /\ Go(c, [op[c] EXCEPT
                     !.cur = op[c].root, !.root = None,
                     !.pc = IF op[c].kind \in Archives THEN "row" ELSE "clearRow"])
     \/ /\ op[c].kids = {} /\ op[c].root = None
        /\ \E d \in op[c].todo :
             Go(c, [op[c] EXCEPT !.cur = d, !.todo = @ \ {d}, !.pc = "visit"])
     \/ /\ op[c].kids = {} /\ op[c].root = None /\ op[c].todo = {}
        /\ Goto(c, "end")
  /\ Still

(* What remains after the last service.                                    *)
End(c) ==
  /\ At(c, "end")
  /\ Goto(c, CASE op[c].kind = "archiveGroup" -> "mark"
               [] op[c].kind = "unarchiveGroup" -> "unmark"
               [] op[c].kind = "archive" /\ op[c].shared
                  /\ op[c].target = Primary -> "clear"
               [] OTHER -> "return")
  /\ Still

(* setProjectArchivedAt on the group, after all its services.              *)
WriteGroup(c) ==
  /\ At(c, "mark") \/ At(c, "unmark")
  /\ \/ /\ row' = [row EXCEPT ![Primary] =
                       IF At(c, "mark") THEN op[c].id ELSE 0]
        /\ Goto(c, "return")
        /\ UNCHANGED <<mark, rec, ctr, locks, bounds, history>>
     \/ Throw(c)

(* The operation returns.  history: an archive that did something, and     *)
(* that nobody overlapped, may be undone by the restore that comes next.   *)
Return(c) ==
  /\ At(c, "return")
  /\ Leave(c)
  /\ last' = IF /\ op[c].kind \in Archives /\ op[c].before # Active
                /\ op[c].alone /\ op[c].id = ops
             THEN [kind |-> op[c].kind, target |-> op[c].target,
                   before |-> op[c].before]
             ELSE None
  /\ UNCHANGED <<rows, ctr, bounds, why, torn>>

-----------------------------------------------------------------------------
(* archiveRuntimeProject.                                                  *)

SkipsNothing(c) == FALSE

(* A marker given by a parent or group operation leaves older ones alone.  *)
(* An operation on one service does not look again: of two requests that   *)
(* were both admitted, the second archives what is archived (history).     *)
Skips(c) == op[c].shared /\ mark[Cur(c)] # 0

VisitArchive(c) ==
  /\ At(c, "visit") /\ op[c].kind \in Archives
  /\ LET x == Cur(c)
     IN  IF Skips(c) THEN Goto(c, "next")
         ELSE IF ChildrenOf(x) # {}
              THEN Go(c, [op[c] EXCEPT !.kids = ChildrenOf(x), !.root = x,
                                       !.pc = "next"])
         ELSE IF x \in Stateful /\ rec[x].cid THEN GotoDone(c, "stop", {})
         ELSE Goto(c, "row")
  /\ torn' = IF Cur(c) \in Stateful /\ ~Skips(c) /\ mark[Cur(c)] # 0
             THEN torn \cup {Cur(c)} ELSE torn
  /\ UNCHANGED <<rows, ctr, locks, bounds, why, last>>

(* history: the first operation that archives a service is the reason.     *)
Reason(c) ==
  why' = IF mark[Cur(c)] # 0 THEN why ELSE [why EXCEPT ![Cur(c)] = op[c].id]

(* db.archiveProject: one transaction over the two rows.                   *)
SetMarks(c) ==
  /\ row' = [row EXCEPT ![Cur(c)] = op[c].id]
  /\ mark' = [mark EXCEPT ![Cur(c)] = op[c].id]
  /\ Reason(c)

(* A service without a container to keep: the database comes first.        *)
ArchiveRow(c) ==
  \/ /\ At(c, "row")
     /\ SetMarks(c)
     /\ rec' = [rec EXCEPT ![Cur(c)].cid = FALSE]
     /\ Goto(c, IF ~op[c].shared /\ Cur(c) = Primary THEN "clear"
                ELSE "remove")
     /\ UNCHANGED <<ctr, locks, bounds, last, torn>>
  \/ At(c, "row") /\ Throw(c)

(* clearPartialGroupArchiveMarkerAfterRuntimeArchive: the group stays      *)
(* active as long as one of its other services is.                         *)
AfterClear(c) == IF op[c].shared THEN "return" ELSE "remove"

ReadSiblings(c) ==
  /\ At(c, "clear")
  /\ Goto(c, IF (Deployables \ {Primary}) \cap Active # {} THEN "unset"
             ELSE AfterClear(c))
  /\ Still

UnsetGroup(c) ==
  \/ /\ At(c, "unset")
     /\ row' = [row EXCEPT ![Primary] = 0]
     /\ Goto(c, AfterClear(c))
     /\ UNCHANGED <<mark, rec, ctr, locks, bounds, history>>
  \/ At(c, "unset") /\ Throw(c)

RemoveRecorded(c) ==
  /\ At(c, "remove")
  /\ Goto(c, "next")
  /\ ctr' = IF rec[Cur(c)].cid THEN [ctr EXCEPT ![Cur(c)] = Gone] ELSE ctr
  /\ UNCHANGED <<rows, locks, bounds, history>>

(* stopContainer and removeContainer; their errors are only logged.        *)
RemoveContainer(c) ==
  /\ At(c, "remove")
  /\ Goto(c, "next")
  /\ \/ /\ ctr' = [ctr EXCEPT ![Cur(c)] = Gone]
        /\ UNCHANGED faults
     \/ /\ Faulty
        /\ \E up \in {ctr[Cur(c)].up, FALSE} :
             ctr' = [ctr EXCEPT ![Cur(c)].up = up]
  /\ UNCHANGED <<rows, locks, ops, crashes, history>>

DisconnectUnrecorded(c) ==
  Try(c, "disconnect", Connected(c, FALSE),
      IF rec[Cur(c)].name = "preserved" THEN "save" ELSE "rename", op[c].done,
      "undo")

(* A stateful resource: stop, disconnect, rename, and only then the rows.  *)
StopResource(c) ==
  Try(c, "stop", Powered(c, FALSE), "disconnect", {"stopped"}, "undo")

DisconnectResource(c) ==
  Try(c, "disconnect", Connected(c, FALSE),
      IF rec[Cur(c)].name = "preserved" THEN "save" ELSE "rename",
      op[c].done \cup {"disconnected"}, "undo")

RenameResource(c) ==
  Try(c, "rename", Named(c, "preserved"), "save", op[c].done \cup {"renamed"},
      "undo")

SaveResource(c) ==
  \/ /\ At(c, "save")
     /\ SetMarks(c)
     /\ rec' = [rec EXCEPT ![Cur(c)] = [cid |-> TRUE, name |-> "preserved"]]
     /\ Goto(c, "next")
     /\ UNCHANGED <<ctr, locks, bounds, last, torn>>
  \/ At(c, "save") /\ Caught(c, "undo")

(* The catch block: backwards over what was done, then the error is thrown *)
(* again.  A call that fails here ends the attempt.                        *)
UndoStep(c) ==
  LET done == op[c].done
  IN  \/ /\ "renamed" \in done
         /\ Runtime(c, Named(c, rec[Cur(c)].name))
         /\ GotoDone(c, "undo", done \ {"renamed"})
      \/ /\ "renamed" \notin done /\ "disconnected" \in done
         /\ Runtime(c, Connected(c, TRUE))
         /\ GotoDone(c, "undo", done \ {"disconnected"})
      \/ /\ done = {"stopped"}
         /\ Runtime(c, Powered(c, TRUE))
         /\ GotoDone(c, "undo", {})

UndoArchive(c) ==
  /\ At(c, "undo")
  /\ \/ UndoStep(c)
     \/ op[c].done # {} /\ Throw(c)
     \/ /\ op[c].done = {}
        /\ Leave(c)
        /\ UNCHANGED <<rows, ctr, bounds, history>>

-----------------------------------------------------------------------------
(* unarchiveRuntimeProject.                                                *)

MatchingGroup(x) == {k \in ChildrenOf(x) : row[k] = row[Primary]}

(* The children that carry the marker of the service that is restored.     *)
Matching(x) ==
  LET marker == IF row[x] # 0 THEN row[x] ELSE mark[x]
  IN  {k \in ChildrenOf(x) : row[k] = marker}

VisitRestore(c) ==
  /\ At(c, "visit") /\ op[c].kind \in Restores
  /\ LET x == Cur(c)
     IN  IF row[x] = 0 /\ mark[x] = 0 THEN Goto(c, "next")
         ELSE IF Matching(x) # {}
              THEN Go(c, [op[c] EXCEPT !.kids = Matching(x), !.root = x, !.pc = "next"])
         ELSE IF x \in Kids /\ rec[x].cid THEN GotoDone(c, "resume", {"found"})
         ELSE GotoDone(c, "clearRow", {})
  /\ Still

ResumeNameUnrecorded(c) ==
  Try(c, "resume", Named(c, "canonical"), "connect", op[c].done, "release")

(* A retained container: give it back its name (it may have it), put it on *)
(* its network, start it.                                                  *)
ResumeName(c) ==
  LET flag == IF rec[Cur(c)].name = "canonical" THEN {} ELSE {"renamed"}
  IN  Try(c, "resume", Named(c, "canonical"), "connect", op[c].done \cup flag,
          "release")

ResumeNetwork(c) ==
  Try(c, "connect", Connected(c, TRUE), "start", op[c].done \cup {"connected"},
      "release")

ResumeStart(c) ==
  Try(c, "start", Powered(c, TRUE), "clearRow", op[c].done, "release")

(* A database call of the restore throws: a retained container is released *)
(* again, anything else has no catch block.                                *)
Resuming(c) == "found" \in op[c].done
WriteFails(c) == IF Resuming(c) THEN Caught(c, "release") ELSE Throw(c)

(* db.unarchiveProject: two updates, not one transaction.                  *)
ClearRow(c) ==
  \/ /\ At(c, "clearRow")
     /\ row' = [row EXCEPT ![Cur(c)] = 0]
     /\ Goto(c, "clearMark")
     /\ UNCHANGED <<mark, rec, ctr, locks, bounds, history>>
  \/ At(c, "clearRow") /\ WriteFails(c)

ClearMark(c) ==
  \/ /\ At(c, "clearMark")
     /\ mark' = [mark EXCEPT ![Cur(c)] = 0]
     /\ why' = [why EXCEPT ![Cur(c)] = 0]
     /\ Goto(c, IF Resuming(c) THEN "record"
                ELSE IF Cur(c) \in Kids THEN "next" ELSE "port")
     /\ UNCHANGED <<row, rec, ctr, locks, bounds, last, torn>>
  \/ At(c, "clearMark") /\ WriteFails(c)

(* updateService: the resource runs again under its own name.              *)
RecordResource(c) ==
  \/ /\ At(c, "record")
     /\ mark' = [mark EXCEPT ![Cur(c)] = 0]
     /\ rec' = [rec EXCEPT ![Cur(c)] = Recorded]
     /\ GotoDone(c, "next", {})
     /\ UNCHANGED <<row, ctr, locks, bounds, history>>
  \/ /\ At(c, "record")
     /\ Faulty
     /\ Goto(c, "release")
     /\ torn' = torn \cup {Cur(c)}
     /\ UNCHANGED <<rows, ctr, locks, ops, crashes, why, last>>

(* allocatePort and updateProject.                                         *)
AllocatePort(c) ==
  \/ At(c, "port") /\ Goto(c, "next") /\ Still
  \/ At(c, "port") /\ Throw(c)

(* The catch block: disconnect, rename, throw.  The container stays up.    *)
ReleaseStep(c) ==
  LET done == op[c].done
  IN  \/ /\ "connected" \in done
         /\ Runtime(c, Connected(c, FALSE))
         /\ GotoDone(c, "release", done \ {"connected"})
      \/ /\ "connected" \notin done /\ "renamed" \in done
         /\ Runtime(c, Named(c, "preserved"))
         /\ GotoDone(c, "release", done \ {"renamed"})

Releasing(c) == op[c].done \cap {"connected", "renamed"} # {}

ReleaseResource(c) ==
  /\ At(c, "release")
  /\ \/ ReleaseStep(c)
     \/ Releasing(c) /\ Throw(c)
     \/ ~Releasing(c) /\ Leave(c) /\ UNCHANGED <<rows, ctr, bounds, history>>

-----------------------------------------------------------------------------
(* A deploy, under its lock and refused for an archived service or group,  *)
(* gives a service a new container.                                        *)
Deploy(x) ==
  /\ Quiet
  /\ mark[x] = 0 /\ row[x] = 0 /\ row[Primary] = 0 /\ ~rec[x].cid
  /\ ctr' = [ctr EXCEPT ![x] = Serving]
  /\ rec' = [rec EXCEPT ![x] = Recorded]
  /\ UNCHANGED <<row, mark, locks, op, bounds, history>>

(* The process is replaced; the leases of its locks run out.               *)
Crash ==
  /\ ~Quiet /\ crashes < MaxCrashes
  /\ crashes' = crashes + 1
  /\ op' = [c \in Clients |-> Idle]
  /\ locks' = [x \in Services |-> None]
  /\ UNCHANGED <<rows, ctr, ops, faults, history>>

Proceed(c) ==
  \/ AcquireLocks(c) \/ ListServices(c) \/ NextService(c) \/ End(c)
  \/ WriteGroup(c) \/ Return(c)
  \/ VisitArchive(c) \/ ArchiveRow(c) \/ ReadSiblings(c) \/ UnsetGroup(c)
  \/ RemoveContainer(c) \/ StopResource(c) \/ DisconnectResource(c)
  \/ RenameResource(c) \/ SaveResource(c) \/ UndoArchive(c)
  \/ VisitRestore(c) \/ ResumeName(c) \/ ResumeNetwork(c) \/ ResumeStart(c)
  \/ ClearRow(c) \/ ClearMark(c) \/ RecordResource(c) \/ AllocatePort(c)
  \/ ReleaseResource(c)

Next ==
  \/ \E c \in Clients :
       RequestGroup(c) \/ Proceed(c) \/ \E x \in Services : RequestService(c, x)
  \/ \E x \in Leaves : Deploy(x)
  \/ Crash

Spec == Init /\ [][Next]_vars

-----------------------------------------------------------------------------
(* Undo of a failed archive: as long as one call at most has failed, an    *)
(* active stateful resource runs, under its own name and on its network,   *)
(* whatever was archived, restored or failed before.  (Not after a restore *)
(* whose last write failed: its catch block undoes the runtime of a        *)
(* service that its rows already call active.)                             *)
ActiveResourceServes ==
  Quiet /\ faults <= 1 /\ crashes = 0 =>
    \A x \in Stateful \ torn :
      mark[x] = 0 => ctr[x] = Serving /\ rec[x] = Recorded

(* An archived stateful resource keeps its container, off the network and  *)
(* under the name the row records, so that unarchive finds it; also after  *)
(* a restore that failed half way.  (Not after a second archive of what    *)
(* was archived already failed: its catch block starts the container.)     *)
ArchivedResourceIsKept ==
  Quiet /\ faults <= 1 /\ crashes = 0 =>
    \A x \in Stateful \ torn :
      mark[x] # 0 => /\ ctr[x].name = "preserved" /\ ~ctr[x].net
                     /\ rec[x] = [cid |-> TRUE, name |-> "preserved"]

(* Other services leave no container behind, unless Docker refused.        *)
ArchivedLeafIsRemoved ==
  Quiet /\ faults = 0 /\ crashes = 0 =>
    \A x \in Leaves : mark[x] # 0 => ctr[x] = Gone

(* A restore brings back the service it names and those that the same      *)
(* operation archived, never one that had been archived before: one        *)
(* marker for each operation and no older marker overwritten.  (Where the  *)
(* primary service is a stack: one without children, archived by two       *)
(* requests that were both admitted, carries the marker of the second and  *)
(* comes back with a group that has that one.)                             *)
OnlyItsOwnArchive ==
  [][\A x \in Services : mark[x] # 0 /\ mark'[x] = 0 =>
       \E c \in Clients : /\ op[c].kind \in Restores /\ Cur(c) = x
                          /\ \/ op[c].kind = "unarchive" /\ op[c].target = x
                             \/ why[x] = op[c].marker]_vars

(* Archive and restore are inverse: a restore of the same target right     *)
(* after an archive leaves the same services active as before it, whatever *)
(* had been archived, by whom, in earlier operations.                      *)
RoundTrip ==
  \A c \in Clients : At(c, "return") /\ op[c].owed # None => Active = op[c].owed

(* Rows and containers agree whenever no operation is under way: active    *)
(* resources serve, archived ones are kept aside, and other archived       *)
(* services have no container.                                             *)
RowsMatchRuntime == ActiveResourceServes /\ ArchivedResourceIsKept /\ ArchivedLeafIsRemoved

=============================================================================
