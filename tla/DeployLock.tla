----------------------------- MODULE DeployLock -----------------------------
(***************************************************************************)
(* The persisted deploy lock: the columns deploy_lock_session and          *)
(* deploy_lock_at of a project's row, the three SQL statements that write  *)
(* them (db/repos/project.repo.ts), withDeployLock, which every mutating   *)
(* entry point of the pipeline nests its work in, and the listeners of     *)
(* web/api/routes.ts that release the lock again when a terminal event of  *)
(* a deploy is published.                                                  *)
(*                                                                         *)
(* A caller is one mutating operation: it has a session id of its own      *)
(* (nanoid), so callers and sessions are identified.  Route[c] lists the   *)
(* projects the nested withDeployLock frames of c lock, outermost first:   *)
(*   <<p>>        a deploy, a rollback, a managed resource operation;      *)
(*   <<p, q, r>>  archive, which locks a project and its compose children  *)
(*                in sorted order under one session;                       *)
(*   <<p, p>>     a tool that acquires the lock and calls redeployService  *)
(*                with lockSessionId, which acquires it again.             *)
(* Nobody waits for the lock: a caller that finds it taken gives up.       *)
(***************************************************************************)
EXTENDS Integers, Sequences, FiniteSets

CONSTANTS Projects,     \* the ids of the project rows
          Callers,      \* the operations, each with its own session id
          NoSession,    \* SQL NULL
          Route,        \* [Callers -> non-empty sequences of Projects]
          Scoped,       \* callers that publish terminal events with a sessionId
          Sessionless,  \* callers that may publish them without a sessionId
          TTL,          \* age after which cleanExpiredDeployLocks clears a lock
          MaxClock      \* bound on the clock

ASSUME RouteAssumption ==
    /\ Route \in [Callers -> Seq(Projects)]
    /\ \A c \in Callers : Len(Route[c]) >= 1

ASSUME CallerAssumption ==
    /\ NoSession \notin Callers
    /\ Scoped \subseteq Callers
    /\ Sessionless \subseteq Callers

ASSUME ClockAssumption == TTL \in Nat /\ MaxClock \in Nat

VARIABLES
    lockSession,  \* deploy_lock_session of every project row
    lockAt,       \* deploy_lock_at of every project row (0 when NULL)
    now,          \* the clock of the database server
    stage,        \* where every caller is
    depth,        \* how many frames of Route[c] the caller has entered
    leaseAt,      \* when the caller last acquired a project, by its own account
    sweptAt,      \* when the caller last swept the expired locks
    releases      \* releases the event listeners have been asked for

lockVars ==
    <<lockSession, lockAt, now, stage, depth, leaseAt, sweptAt, releases>>

Sessions == Callers \cup {NoSession}

(* A caller is about to acquire its next frame, has swept the expired      *)
(* locks, runs its operation, is leaving its frames (refused or finished), *)
(* or has returned.                                                        *)
PCs == {"acquire", "swept", "body", "unwind", "done"}

Events == [project : Projects, session : Sessions]

LockTypeOK ==
    /\ lockSession \in [Projects -> Sessions]
    /\ lockAt \in [Projects -> Nat]
    /\ now \in Nat
    /\ stage \in [Callers -> PCs]
    /\ depth \in [Callers -> Nat]
    /\ \A c \in Callers : depth[c] <= Len(Route[c])
    /\ leaseAt \in [Callers -> [Projects -> Nat]]
    /\ sweptAt \in [Callers -> Nat]
    /\ releases \subseteq Events

LockInit ==
    /\ lockSession = [p \in Projects |-> NoSession]
    /\ lockAt = [p \in Projects |-> 0]
    /\ now = 0
    /\ stage = [c \in Callers |-> "acquire"]
    /\ depth = [c \in Callers |-> 0]
    /\ leaseAt = [c \in Callers |-> [p \in Projects |-> 0]]
    /\ sweptAt = [c \in Callers |-> 0]
    /\ releases = {}

-----------------------------------------------------------------------------
(* The statements of project.repo.ts.                                      *)

(* Mutant: a lock is already expired at the very end of its lease.         *)
ExpiredAtTTL(p) == lockSession[p] # NoSession /\ lockAt[p] + TTL <= now

Expired(p) == lockSession[p] # NoSession /\ lockAt[p] + TTL < now

cleanExpiredDeployLocks ==
    /\ lockSession' = [p \in Projects |->
                          IF Expired(p) THEN NoSession ELSE lockSession[p]]
    /\ lockAt' = [p \in Projects |-> IF Expired(p) THEN 0 ELSE lockAt[p]]

FreeFor(p, s) == lockSession[p] \in {NoSession, s}

clear(p) ==
    /\ lockSession' = [lockSession EXCEPT ![p] = NoSession]
    /\ lockAt' = [lockAt EXCEPT ![p] = 0]

(* With a session the UPDATE only matches a row that names it; without one *)
(* it matches the row whoever holds it.                                    *)
releaseDeployLock(p, s) ==
    IF s = NoSession \/ lockSession[p] = s
    THEN clear(p)
    ELSE UNCHANGED <<lockSession, lockAt>>

-----------------------------------------------------------------------------
(* acquireDeployLock is two statements with an await between them.         *)

(* Mutant: acquireDeployLock without its first statement.                  *)
SweepNothing(c) ==
    /\ stage[c] = "acquire"
    /\ stage' = [stage EXCEPT ![c] = "swept"]
    /\ sweptAt' = [sweptAt EXCEPT ![c] = now]
    /\ UNCHANGED <<lockSession, lockAt, now, depth, leaseAt, releases>>

Sweep(c) ==
    /\ stage[c] = "acquire"
    /\ cleanExpiredDeployLocks
    /\ stage' = [stage EXCEPT ![c] = "swept"]
    /\ sweptAt' = [sweptAt EXCEPT ![c] = now]
    /\ UNCHANGED <<now, depth, leaseAt, releases>>

Target(c) == Route[c][depth[c] + 1]

(* The UPDATE matched: the frame is entered, its timestamp renewed if the  *)
(* session held the lock already.  The operation starts in the last frame. *)
Enter(c) ==
    /\ stage[c] = "swept"
    /\ FreeFor(Target(c), c)
    /\ lockSession' = [lockSession EXCEPT ![Target(c)] = c]
    /\ lockAt' = [lockAt EXCEPT ![Target(c)] = now]
    /\ leaseAt' = [leaseAt EXCEPT ![c][Target(c)] = now]
    /\ depth' = [depth EXCEPT ![c] = depth[c] + 1]
    /\ stage' = [stage EXCEPT ![c] =
                 IF depth[c] + 1 = Len(Route[c]) THEN "body" ELSE "acquire"]
    /\ UNCHANGED <<now, sweptAt, releases>>

(* The session ids the terminal events of a caller carry.                  *)
TerminalSessions(c) ==
    (IF c \in Scoped THEN {c} ELSE {})
        \cup (IF c \in Sessionless THEN {NoSession} ELSE {})

(* The UPDATE matched no row: DeployLockedError leaves the frames entered  *)
(* so far.  A fire-and-forget deploy turns the error into a deploy:failed  *)
(* event that carries no session (recordBackgroundFailure).                *)
Refused(c) ==
    /\ stage[c] = "swept"
    /\ ~FreeFor(Target(c), c)
    /\ stage' = [stage EXCEPT ![c] = "unwind"]
    /\ releases' = releases \cup
           (IF c \in Sessionless
            THEN {[project |-> Target(c), session |-> NoSession]}
            ELSE {})
    /\ UNCHANGED <<lockSession, lockAt, now, depth, leaseAt, sweptAt>>

(* The operation ends and publishes its terminal event, if it has one: the *)
(* success and failure paths carry the session, the early failures do not. *)
FinishBody(c) ==
    /\ stage[c] = "body"
    /\ stage' = [stage EXCEPT ![c] = "unwind"]
    /\ \/ /\ TerminalSessions(c) = {}
          /\ UNCHANGED releases
       \/ \E s \in TerminalSessions(c) :
             releases' = releases \cup
                 {[project |-> Route[c][depth[c]], session |-> s]}
    /\ UNCHANGED <<lockSession, lockAt, now, depth, leaseAt, sweptAt>>

(* Mutant: every frame releases the outermost project.                     *)
LeaveOutermost(c) ==
    /\ stage[c] = "unwind"
    /\ depth[c] > 0
    /\ releaseDeployLock(Route[c][1], c)
    /\ depth' = [depth EXCEPT ![c] = depth[c] - 1]
    /\ UNCHANGED <<now, stage, leaseAt, sweptAt, releases>>

(* The finally block of the innermost frame still open.                    *)
Leave(c) ==
    /\ stage[c] = "unwind"
    /\ depth[c] > 0
    /\ releaseDeployLock(Route[c][depth[c]], c)
    /\ depth' = [depth EXCEPT ![c] = depth[c] - 1]
    /\ UNCHANGED <<now, stage, leaseAt, sweptAt, releases>>

ReturnToCaller(c) ==
    /\ stage[c] = "unwind"
    /\ depth[c] = 0
    /\ stage' = [stage EXCEPT ![c] = "done"]
    /\ UNCHANGED <<lockSession, lockAt, now, depth, leaseAt, sweptAt, releases>>

(* A listener of routes.ts: its UPDATE runs some time after the event was  *)
(* published (void ... .catch), in no order with the caller's own release. *)
AutoRelease(e) ==
    /\ releaseDeployLock(e.project, e.session)
    /\ releases' = releases \ {e}
    /\ UNCHANGED <<now, stage, depth, leaseAt, sweptAt>>

(* The sweep of the reconciler's watchdog, timeoutStuckRecovering.         *)
ReconcilerSweep ==
    /\ cleanExpiredDeployLocks
    /\ UNCHANGED <<now, stage, depth, leaseAt, sweptAt, releases>>

(* The server process dies.  The rows stay; no finally block and no        *)
(* listener runs for the callers it was serving.                           *)
InFlight(c) == stage[c] # "done" /\ ~(stage[c] = "acquire" /\ depth[c] = 0)

ProcessDies ==
    /\ \E c \in Callers : InFlight(c)
    /\ stage' = [c \in Callers |-> IF InFlight(c) THEN "done" ELSE stage[c]]
    /\ depth' = [c \in Callers |-> IF InFlight(c) THEN 0 ELSE depth[c]]
    /\ releases' = {}
    /\ UNCHANGED <<lockSession, lockAt, now, leaseAt, sweptAt>>

LockTick ==
    /\ now < MaxClock
    /\ now' = now + 1
    /\ UNCHANGED <<lockSession, lockAt, stage, depth, leaseAt, sweptAt,
                   releases>>

LockNext ==
    \/ \E c \in Callers :
          Sweep(c) \/ Enter(c) \/ Refused(c) \/ FinishBody(c) \/ Leave(c)
             \/ ReturnToCaller(c)
    \/ \E e \in releases : AutoRelease(e)
    \/ ReconcilerSweep
    \/ ProcessDies
    \/ LockTick

LockSpec == LockInit /\ [][LockNext]_lockVars

-----------------------------------------------------------------------------
(* Properties.                                                             *)

(* Caller c counts on holding p: it has entered a frame on p and is not    *)
(* leaving its frames yet.                                                 *)
Claims(c, p) ==
    /\ stage[c] \in {"acquire", "swept", "body"}
    /\ \E i \in 1..depth[c] : Route[c][i] = p

InLease(c, p) == now <= leaseAt[c][p] + TTL

(* The projects that some caller can publish a sessionless event for.      *)
Exposed == {p \in Projects :
               \E c \in Sessionless : \E i \in 1..Len(Route[c]) : Route[c][i] = p}

(* Mutual exclusion as far as the code gives it: two operations that both  *)
(* count on the lock of one project overlap only after one of them has     *)
(* outlived the 30 minute lease, and only on projects no sessionless       *)
(* terminal event can be published for.  Covers nested and multi-project   *)
(* frames, late listener releases, crashes and both sweeps.                *)
LeaseExclusion ==
    \A p \in Projects \ Exposed : \A c, d \in Callers :
        Claims(c, p) /\ Claims(d, p) /\ InLease(c, p) /\ InLease(d, p) => c = d

(* A lock a dead process left behind never refuses anybody for longer than *)
(* the lease: whoever is refused swept the locks before, so the lock that  *)
(* refuses it was at most TTL old at that moment.                          *)
RefusalJustified ==
    [][\A c \in Callers :
          stage[c] = "swept" /\ stage'[c] = "unwind"
              => lockAt[Target(c)] + TTL >= sweptAt[c]]_lockVars

(* A lock that names a caller which has returned without a crash is only   *)
(* there because the process died before the caller's finally block: as    *)
(* long as nothing crashed, the rows of returned callers are free.  The    *)
(* action form: the last frame a caller leaves is free or another's.       *)
LeavesNothing ==
    [][\A c \in Callers :
          stage[c] = "unwind" /\ stage'[c] = "done" /\ depth[c] = 0
              => \A p \in Projects : lockSession[p] # c]_lockVars

-----------------------------------------------------------------------------
(* The abstract lock.  On the projects that no sessionless event reaches,  *)
(* the callers that rely on a project are the ones that claim it within    *)
(* their lease.                                                            *)
Protected == Projects \ Exposed

Reliers == [p \in Protected |-> {c \in Callers : Claims(c, p) /\ InLease(c, p)}]

Abstract == INSTANCE LeaseLock
                WITH Resources <- Protected, Clients <- Callers, reliers <- Reliers

(* The rows, the two statements of acquireDeployLock, both sweeps, nested  *)
(* and re-entrant frames, late listeners and crashes implement the         *)
(* abstract lock: a caller only ever comes to rely on a project nobody     *)
(* else relies on, one project at a time.                                  *)
ImplementsLeaseLock == Abstract!Spec
=============================================================================
