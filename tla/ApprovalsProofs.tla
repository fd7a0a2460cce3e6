-------------------------- MODULE ApprovalsProofs --------------------------
(***************************************************************************)
(* For any number of requests, services, reviewers and agents, and any     *)
(* number of crashes: a request touches each service at most once, a       *)
(* rejected one touches nothing and stays rejected, and a row is running   *)
(* exactly while one executor works on it, or because a failing call to    *)
(* the database ended its executor; a restart settles what it interrupts,  *)
(* and what a batch reports is true.                                       *)
(***************************************************************************)
EXTENDS Approvals, TLAPS

(* The part of the type invariant the argument rests on.                   *)
Types ==
  /\ status \in [Runs -> Statuses]
  /\ approval \in [Runs -> ApprovalStatuses]
  /\ pc \in [Actors -> Steps]
  /\ run \in [Actors -> Runs \cup {None}]
  /\ \A a \in Actors : pc[a] # "idle" => run[a] \in Runs
  /\ \A a \in Actors : pc[a] = "idle" => run[a] = None
  /\ server # "up" => \A a \in Actors : pc[a] = "idle"

(* What an actor at each step knows about the row of its request.          *)
Known ==
  /\ \A r \in Runs : approval[r] = "none" <=> status[r] = "none"
  /\ \A a \in Actors : pc[a] = "create" => status[run[a]] = "none"
  /\ \A a \in Actors : pc[a] \notin {"idle", "create"} => status[run[a]] # "none"
  /\ \A a, b \in Actors : pc[a] = "create" /\ run[b] = run[a] => a = b
  /\ \A a \in Actors : pc[a] = "close" => approval[run[a]] = "rejected"
  /\ \A a \in Actors : pc[a] \in Executing =>
        status[run[a]] = "running" /\ approval[run[a]] = "approved"

(* One executor for a running row, none for a stranded one, and none for   *)
(* any other.                                                              *)
Owned ==
  /\ \A a, b \in Actors :
        pc[a] \in Executing /\ pc[b] \in Executing /\ run[a] = run[b] => a = b
  /\ server = "up" =>
        \A r \in Runs : status[r] = "running" =>
          r \in stranded \/ \E a \in Actors : run[a] = r /\ pc[a] \in Executing
  /\ \A r \in stranded : r \in Runs /\ status[r] = "running" /\ approval[r] = "approved"
  /\ \A a \in Actors : pc[a] \in Executing => run[a] \notin stranded
  /\ server = "sweep_pending" => stranded = {} /\ \A r \in Runs : status[r] # "running"

(* A request touches a service once, and nothing before it is claimed.     *)
Touched ==
  /\ acted \in [Runs -> [Services -> Int]]
  /\ \A r \in Runs, s \in Services : acted[r][s] \in {0, 1}
  /\ \A r \in Runs : approval[r] # "approved" \/ status[r] = "pending_approval" =>
        \A s \in Services : acted[r][s] = 0

(* What the executor still is to touch, it has not touched.                *)
Ahead ==
  /\ todo \in [Actors -> SUBSET Services]
  /\ turn \in [Actors -> Services \cup {None}]
  /\ \A a \in Actors : pc[a] \in {"load", "check", "act"} =>
        \A s \in Services : acted[run[a]][s] = 0
  /\ \A a \in Actors : pc[a] \in {"next", "turn"} =>
        \A s \in todo[a] : acted[run[a]][s] = 0
  /\ \A a \in Actors : pc[a] = "turn" =>
        turn[a] \in Services /\ turn[a] \notin todo[a] /\ acted[run[a]][turn[a]] = 0

(* Rows of an earlier life of the process: each statement of the sweep at  *)
(* startup closes its part of them, and once the server is up they are     *)
(* closed; nothing reopens a closed row.                                   *)
Settled ==
  /\ \A r \in earlier : r \in Runs /\ status[r] # "none"
  /\ server = "sweep_pending" =>
        \A r \in Runs : status[r] \notin {"running", "pending_approval"}
  /\ server \in {"up", "sweep_approved", "sweep_stale", "sweep_pending"}
  /\ server = "up" =>
        \A r \in earlier : status[r] \in {"succeeded", "failed"} /\ approval[r] # "pending"

(* A service in `barred` is still closed, to everyone or to the agent that *)
(* claimed the request, so no executor gets past its permission check.     *)
Guarded ==
  /\ perm \in [Services -> Permissions]
  /\ \A a \in Actors : pc[a] \in {"create", "recheck", "start"} => a \in Agents
  /\ \A b \in barred :
        /\ b \in Runs \X Services /\ b[2] \in Named[b[1]]
        /\ status[b[1]] \notin {"none", "pending_approval"}
        /\ \/ perm[b[2]] = "block"
           \/ /\ perm[b[2]] = "approval_required"
              /\ \A a \in Actors : run[a] = b[1] /\ pc[a] \in Executing => a \in Agents
  /\ \A a \in Actors : pc[a] = "act" => \A s \in todo[a] : <<run[a], s>> \notin barred
  /\ \A a \in Actors : pc[a] = "turn" => <<run[a], turn[a]>> \notin barred
  /\ ClosedUntouched

(* The executor of a batch that has no failure has touched every service   *)
(* of its request that does not lie ahead of it.                           *)
Complete ==
  /\ failures \in [Actors -> BOOLEAN]
  /\ \A a \in Actors : pc[a] \in {"check", "act"} => run[a] \notin Batch
  /\ \A a \in Actors : pc[a] \in {"next", "turn"} /\ ~failures[a] =>
        \A s \in Roots[run[a]] :
           acted[run[a]][s] = 1 \/ s \in todo[a] \/ (pc[a] = "turn" /\ s = turn[a])
  /\ \A a \in Actors : pc[a] \in {"plan", "record"} /\ ~failures[a] /\ run[a] \in Batch =>
        \A s \in Roots[run[a]] : acted[run[a]][s] = 1
  /\ SuccessIsComplete

(* A step leaves rejected requests as they are.                            *)
RejectedStays ==
  \A r \in Runs : approval[r] = "rejected" =>
    approval'[r] = "rejected" /\ acted'[r] = acted[r]

IInv == Types /\ Known /\ Owned /\ Touched /\ Ahead /\ Settled /\ Guarded /\ Complete

(* No row and no request under way.                                        *)
LEMMA InitIInv == Init => IInv
<1> SUFFICES ASSUME Init PROVE IInv
  OBVIOUS
<1>1. Types /\ Known /\ Owned /\ Touched /\ Ahead
  BY DEF Init, Types, Known, Owned, Touched, Ahead, Statuses, ApprovalStatuses, Steps,
         Executing, Actors
<1>2. Settled /\ Guarded /\ Complete
  BY ApprovalsAssumption DEF Init, Settled, Guarded, Complete, ClosedUntouched, SuccessIsComplete
<1> QED BY <1>1, <1>2 DEF IInv

(* What a single tool has done when it returns or throws.                   *)
LEMMA ActTouches ==
  ASSUME NEW a \in Actors, Act(a)
  PROVE  \E done \in SUBSET todo[a] :
           acted' = [acted EXCEPT ![run[a]] =
                       [s \in Services |-> acted[run[a]][s] + IF s \in done THEN 1 ELSE 0]]
BY DEF Act

(* Every step keeps the types, and a dead process has no requests.          *)
LEMMA NextTypes ==
  Types /\ [Next]_vars => Types'
<1> SUFFICES ASSUME Types, [Next]_vars PROVE Types'
  OBVIOUS
<1> USE ApprovalsAssumption
    DEF Types, Statuses, ApprovalStatuses, Steps, Executing, 
        rows, local, history, bounds, Goto, Done, Actors
<1>1. ASSUME NEW a \in Agents, NEW r \in Runs, Request(a, r) PROVE Types'
  BY <1>1 DEF Request, Idle, Take
<1>2. ASSUME NEW a \in Agents, NEW r \in Runs, Resume(a, r) PROVE Types'
  BY <1>2 DEF Resume, Idle, Take
<1>3. ASSUME NEW a \in Reviewers, NEW r \in Runs, NEW ok \in BOOLEAN, Review(a, r, ok) PROVE Types'
  BY <1>3 DEF Review, Idle, Take
<1>4. ASSUME NEW a \in Actors, Create(a) PROVE Types'
  BY <1>4 DEF Create
<1>5. ASSUME NEW a \in Actors, Recheck(a) PROVE Types'
  BY <1>5 DEF Recheck
<1>6. ASSUME NEW a \in Actors, Decide(a) PROVE Types'
  BY <1>6 DEF Decide, Undecided
<1>7. ASSUME NEW a \in Actors, Handle(a) PROVE Types'
  BY <1>7 DEF Handle
<1>8. ASSUME NEW a \in Actors, Close(a) PROVE Types'
  BY <1>8 DEF Close
<1>9. ASSUME NEW a \in Actors, NEW granted \in BOOLEAN, Claim(a, granted) PROVE Types'
  BY <1>9 DEF Claim, Claimable
<1>10. ASSUME NEW a \in Actors, Load(a) PROVE Types'
  BY <1>10 DEF Load
<1>11. ASSUME NEW a \in Actors, Check(a) PROVE Types'
  BY <1>11 DEF Check
<1>12. ASSUME NEW a \in Actors, Act(a) PROVE Types'
  BY <1>12 DEF Act
<1>13. ASSUME NEW a \in Actors, NextService(a) PROVE Types'
  BY <1>13 DEF NextService
<1>14. ASSUME NEW a \in Actors, CleanService(a) PROVE Types'
  BY <1>14 DEF CleanService
<1>15. ASSUME NEW a \in Actors, BatchOver(a) PROVE Types'
  BY <1>15 DEF BatchOver
<1>16. ASSUME NEW a \in Actors, WritePlan(a) PROVE Types'
  BY <1>16 DEF WritePlan
<1>17. ASSUME NEW a \in Actors, Record(a) PROVE Types'
  BY <1>17 DEF Record
<1>18. ASSUME NEW a \in Actors, WriteFails(a) PROVE Types'
  BY <1>18 DEF WriteFails
<1>19. ASSUME NEW a \in Actors, Catch(a) PROVE Types'
  BY <1>19 DEF Catch
<1>20. ASSUME NEW s \in Services, NEW p \in Permissions, SetPermission(s, p) PROVE Types'
  BY <1>20 DEF SetPermission
<1>21. CASE SweepApproved
  BY <1>21 DEF SweepApproved
<1>22. CASE SweepStale
  BY <1>22 DEF SweepStale, Stale
<1>23. CASE SweepPending
  BY <1>23 DEF SweepPending
<1>24. CASE Crash
  BY <1>24 DEF Crash
<1>25. CASE UNCHANGED vars
  BY <1>25 DEF vars
<1>26. ASSUME NEW a \in Actors, CallFails(a) PROVE Types'
  BY <1>26 DEF CallFails
<1> HIDE
    DEF Types, Statuses, ApprovalStatuses, Steps, Executing, 
        rows, local, history, bounds, Goto, Done, Actors
<1> QED
  BY <1>1, <1>2, <1>3, <1>4, <1>5, <1>6, <1>7, <1>8, <1>9, <1>10, <1>11, <1>12,
     <1>13, <1>14, <1>15, <1>16, <1>17, <1>18, <1>19, <1>20, <1>21, <1>22, <1>23, <1>24, <1>25, <1>26
  DEF Next, Proceed, Startup

(* Every step keeps what the actors know of their rows: a rejected row is   *)
(* never claimed, and a claimed one is left alone by everyone else.         *)
LEMMA NextKnown ==
  Types /\ Types' /\ Known /\ Owned /\ [Next]_vars => Known'
<1> SUFFICES ASSUME Types, Types', Known, Owned, [Next]_vars PROVE Known'
  OBVIOUS
<1> USE ApprovalsAssumption
    DEF Types, Known, Owned, Executing, Statuses, ApprovalStatuses, 
        rows, local, history, bounds, Goto, Done, Actors
<1>1. ASSUME NEW a \in Agents, NEW r \in Runs, Request(a, r) PROVE Known'
  BY <1>1 DEF Request, Idle, Take
<1>2. ASSUME NEW a \in Agents, NEW r \in Runs, Resume(a, r) PROVE Known'
  BY <1>2 DEF Resume, Idle, Take
<1>3. ASSUME NEW a \in Reviewers, NEW r \in Runs, NEW ok \in BOOLEAN, Review(a, r, ok) PROVE Known'
  BY <1>3 DEF Review, Idle, Take
<1>4. ASSUME NEW a \in Actors, Create(a) PROVE Known'
  BY <1>4 DEF Create
<1>5. ASSUME NEW a \in Actors, Recheck(a) PROVE Known'
  BY <1>5 DEF Recheck
<1>6. ASSUME NEW a \in Actors, Decide(a) PROVE Known'
  BY <1>6 DEF Decide, Undecided
<1>7. ASSUME NEW a \in Actors, Handle(a) PROVE Known'
  BY <1>7 DEF Handle
<1>8. ASSUME NEW a \in Actors, Close(a) PROVE Known'
  BY <1>8 DEF Close
<1>9. ASSUME NEW a \in Actors, NEW granted \in BOOLEAN, Claim(a, granted) PROVE Known'
  BY <1>9 DEF Claim, Claimable
<1>10. ASSUME NEW a \in Actors, Load(a) PROVE Known'
  BY <1>10 DEF Load
<1>11. ASSUME NEW a \in Actors, Check(a) PROVE Known'
  BY <1>11 DEF Check
<1>12. ASSUME NEW a \in Actors, Act(a) PROVE Known'
  BY <1>12 DEF Act
<1>13. ASSUME NEW a \in Actors, NextService(a) PROVE Known'
  BY <1>13 DEF NextService
<1>14. ASSUME NEW a \in Actors, CleanService(a) PROVE Known'
  BY <1>14 DEF CleanService
<1>15. ASSUME NEW a \in Actors, BatchOver(a) PROVE Known'
  BY <1>15 DEF BatchOver
<1>16. ASSUME NEW a \in Actors, WritePlan(a) PROVE Known'
  BY <1>16 DEF WritePlan
<1>17. ASSUME NEW a \in Actors, Record(a) PROVE Known'
  BY <1>17 DEF Record
<1>18. ASSUME NEW a \in Actors, WriteFails(a) PROVE Known'
  BY <1>18 DEF WriteFails
<1>19. ASSUME NEW a \in Actors, Catch(a) PROVE Known'
  BY <1>19 DEF Catch
<1>20. ASSUME NEW s \in Services, NEW p \in Permissions, SetPermission(s, p) PROVE Known'
  BY <1>20 DEF SetPermission
<1>21. CASE SweepApproved
  BY <1>21 DEF SweepApproved
<1>22. CASE SweepStale
  BY <1>22 DEF SweepStale, Stale
<1>23. CASE SweepPending
  BY <1>23 DEF SweepPending
<1>24. CASE Crash
  BY <1>24 DEF Crash
<1>25. CASE UNCHANGED vars
  BY <1>25 DEF vars
<1>26. ASSUME NEW a \in Actors, CallFails(a) PROVE Known'
  BY <1>26 DEF CallFails
<1> HIDE
    DEF Types, Known, Owned, Executing, Statuses, ApprovalStatuses, 
        rows, local, history, bounds, Goto, Done, Actors
<1> QED
  BY <1>1, <1>2, <1>3, <1>4, <1>5, <1>6, <1>7, <1>8, <1>9, <1>10, <1>11, <1>12,
     <1>13, <1>14, <1>15, <1>16, <1>17, <1>18, <1>19, <1>20, <1>21, <1>22, <1>23, <1>24, <1>25, <1>26
  DEF Next, Proceed, Startup

(* Every step keeps executors and running rows in step: a claim needs a row *)
(* that is not running, and whoever stops executing has settled it.         *)
LEMMA NextOwned ==
  Types /\ Types' /\ Known /\ Owned /\ [Next]_vars => Owned'
<1> SUFFICES ASSUME Types, Types', Known, Owned, [Next]_vars PROVE Owned'
  OBVIOUS
<1> USE ApprovalsAssumption
    DEF Types, Known, Owned, Executing, 
        rows, local, history, bounds, Goto, Done, Actors
<1>1. ASSUME NEW a \in Agents, NEW r \in Runs, Request(a, r) PROVE Owned'
  BY <1>1 DEF Request, Idle, Take
<1>2. ASSUME NEW a \in Agents, NEW r \in Runs, Resume(a, r) PROVE Owned'
  BY <1>2 DEF Resume, Idle, Take
<1>3. ASSUME NEW a \in Reviewers, NEW r \in Runs, NEW ok \in BOOLEAN, Review(a, r, ok) PROVE Owned'
  BY <1>3 DEF Review, Idle, Take
<1>4. ASSUME NEW a \in Actors, Create(a) PROVE Owned'
  BY <1>4 DEF Create
<1>5. ASSUME NEW a \in Actors, Recheck(a) PROVE Owned'
  BY <1>5 DEF Recheck
<1>6. ASSUME NEW a \in Actors, Decide(a) PROVE Owned'
  BY <1>6 DEF Decide, Undecided
<1>7. ASSUME NEW a \in Actors, Handle(a) PROVE Owned'
  BY <1>7 DEF Handle
<1>8. ASSUME NEW a \in Actors, Close(a) PROVE Owned'
  BY <1>8 DEF Close
<1>9. ASSUME NEW a \in Actors, NEW granted \in BOOLEAN, Claim(a, granted) PROVE Owned'
  BY <1>9 DEF Claim, Claimable
<1>10. ASSUME NEW a \in Actors, Load(a) PROVE Owned'
  BY <1>10 DEF Load
<1>11. ASSUME NEW a \in Actors, Check(a) PROVE Owned'
  BY <1>11 DEF Check
<1>12. ASSUME NEW a \in Actors, Act(a) PROVE Owned'
  BY <1>12 DEF Act
<1>13. ASSUME NEW a \in Actors, NextService(a) PROVE Owned'
  BY <1>13 DEF NextService
<1>14. ASSUME NEW a \in Actors, CleanService(a) PROVE Owned'
  BY <1>14 DEF CleanService
<1>15. ASSUME NEW a \in Actors, BatchOver(a) PROVE Owned'
  BY <1>15 DEF BatchOver
<1>16. ASSUME NEW a \in Actors, WritePlan(a) PROVE Owned'
  BY <1>16 DEF WritePlan
<1>17. ASSUME NEW a \in Actors, Record(a) PROVE Owned'
  BY <1>17 DEF Record
<1>18. ASSUME NEW a \in Actors, WriteFails(a) PROVE Owned'
  BY <1>18 DEF WriteFails
<1>19. ASSUME NEW a \in Actors, Catch(a) PROVE Owned'
  BY <1>19 DEF Catch
<1>20. ASSUME NEW s \in Services, NEW p \in Permissions, SetPermission(s, p) PROVE Owned'
  BY <1>20 DEF SetPermission
<1>21. CASE SweepApproved
  BY <1>21 DEF SweepApproved
<1>22. CASE SweepStale
  BY <1>22 DEF SweepStale, Stale
<1>23. CASE SweepPending
  BY <1>23 DEF SweepPending
<1>24. CASE Crash
  BY <1>24 DEF Crash
<1>25. CASE UNCHANGED vars
  BY <1>25 DEF vars
<1>26. ASSUME NEW a \in Actors, CallFails(a) PROVE Owned'
  BY <1>26 DEF CallFails
<1> HIDE
    DEF Types, Known, Owned, Executing, 
        rows, local, history, bounds, Goto, Done, Actors
<1> QED
  BY <1>1, <1>2, <1>3, <1>4, <1>5, <1>6, <1>7, <1>8, <1>9, <1>10, <1>11, <1>12,
     <1>13, <1>14, <1>15, <1>16, <1>17, <1>18, <1>19, <1>20, <1>21, <1>22, <1>23, <1>24, <1>25, <1>26
  DEF Next, Proceed, Startup

(* Every step keeps the account of what was touched: only the executor of   *)
(* an approved, running row touches, and only what it has not touched.      *)
LEMMA NextTouched ==
  Types /\ Types' /\ Known /\ Known' /\ Touched /\ Ahead /\ [Next]_vars => Touched'
<1> SUFFICES ASSUME Types, Types', Known, Known', Touched, Ahead, [Next]_vars PROVE Touched'
  OBVIOUS
<1> USE ApprovalsAssumption
    DEF Types, Known, Touched, Ahead, Executing, 
        rows, local, history, bounds, Goto, Done, Actors
<1>1. ASSUME NEW a \in Agents, NEW r \in Runs, Request(a, r) PROVE Touched'
  BY <1>1 DEF Request, Idle, Take
<1>2. ASSUME NEW a \in Agents, NEW r \in Runs, Resume(a, r) PROVE Touched'
  BY <1>2 DEF Resume, Idle, Take
<1>3. ASSUME NEW a \in Reviewers, NEW r \in Runs, NEW ok \in BOOLEAN, Review(a, r, ok) PROVE Touched'
  BY <1>3 DEF Review, Idle, Take
<1>4. ASSUME NEW a \in Actors, Create(a) PROVE Touched'
  BY <1>4 DEF Create
<1>5. ASSUME NEW a \in Actors, Recheck(a) PROVE Touched'
  BY <1>5 DEF Recheck
<1>6. ASSUME NEW a \in Actors, Decide(a) PROVE Touched'
  BY <1>6 DEF Decide, Undecided
<1>7. ASSUME NEW a \in Actors, Handle(a) PROVE Touched'
  BY <1>7 DEF Handle
<1>8. ASSUME NEW a \in Actors, Close(a) PROVE Touched'
  BY <1>8 DEF Close
<1>9. ASSUME NEW a \in Actors, NEW granted \in BOOLEAN, Claim(a, granted) PROVE Touched'
  <2>1. CASE Claimable(run[a], granted)
    BY <1>9, <2>1 DEF Claim, Claimable
  <2>2. CASE ~(Claimable(run[a], granted))
    BY <1>9, <2>2 DEF Claim, Claimable
  <2> QED BY <2>1, <2>2
<1>10. ASSUME NEW a \in Actors, Load(a) PROVE Touched'
  BY <1>10 DEF Load
<1>11. ASSUME NEW a \in Actors, Check(a) PROVE Touched'
  BY <1>11 DEF Check
<1>12. ASSUME NEW a \in Actors, Act(a) PROVE Touched'
  <2>1. PICK done \in SUBSET todo[a] :
          acted' = [acted EXCEPT ![run[a]] =
                      [s \in Services |-> acted[run[a]][s] + IF s \in done THEN 1 ELSE 0]]
    BY <1>12, ActTouches
  <2> DEFINE new == [s \in Services |-> acted[run[a]][s] + IF s \in done THEN 1 ELSE 0]
  <2>2. run[a] \in Runs /\ pc[a] = "act" /\ status' = status /\ approval' = approval
    BY <1>12 DEF Act
  <2>3. approval[run[a]] = "approved" /\ status[run[a]] = "running"
    BY <2>2
  <2>4. new \in [Services -> Int] /\ \A s \in Services : new[s] \in {0, 1}
    <3>1. \A s \in Services : acted[run[a]][s] = 0
      BY <2>2
    <3> QED BY <3>1
  <2>5. acted' = [acted EXCEPT ![run[a]] = new]
    BY <2>1
  <2> HIDE DEF new
  <2>6. acted'[run[a]] = new /\ \A r \in Runs : r # run[a] => acted'[r] = acted[r]
    BY <2>2, <2>5
  <2>7. acted' \in [Runs -> [Services -> Int]]
    BY <2>2, <2>4, <2>5
  <2>8. ASSUME NEW r \in Runs, NEW s \in Services PROVE acted'[r][s] \in {0, 1}
    BY <2>4, <2>6
  <2>9. ASSUME NEW r \in Runs, NEW s \in Services,
               approval'[r] # "approved" \/ status'[r] = "pending_approval"
        PROVE  acted'[r][s] = 0
    BY <2>2, <2>3, <2>6, <2>9
  <2> QED BY <2>7, <2>8, <2>9
<1>13. ASSUME NEW a \in Actors, NextService(a) PROVE Touched'
  BY <1>13 DEF NextService
<1>14. ASSUME NEW a \in Actors, CleanService(a) PROVE Touched'
  <2>1. CASE acted' = acted
    BY <1>14, <2>1 DEF CleanService
  <2>2. CASE acted' # acted
    <3> DEFINE new == [acted[run[a]] EXCEPT ![turn[a]] = acted[run[a]][turn[a]] + 1]
    <3>1. run[a] \in Runs /\ turn[a] \in Services \cup {None}
          /\ status' = status /\ approval' = approval
      BY <1>14 DEF CleanService
    <3>2. approval[run[a]] = "approved" /\ status[run[a]] = "running"
      BY <1>14 DEF CleanService
    <3>3. acted' = [acted EXCEPT ![run[a]] = new]
      BY <1>14, <2>2 DEF CleanService
    <3>4. acted[run[a]] \in [Services -> Int]
      BY <3>1
    <3>5. new \in [Services -> Int] /\ \A s \in Services : new[s] \in {0, 1}
      <4>1. turn[a] \in Services /\ acted[run[a]][turn[a]] = 0
        BY <1>14 DEF CleanService
      <4> QED BY <3>1, <3>4, <4>1
    <3> HIDE DEF new
    <3>6. acted'[run[a]] = new /\ \A r \in Runs : r # run[a] => acted'[r] = acted[r]
      BY <3>1, <3>3
    <3>7. acted' \in [Runs -> [Services -> Int]]
      BY <3>1, <3>3, <3>5
    <3>8. ASSUME NEW r \in Runs, NEW s \in Services PROVE acted'[r][s] \in {0, 1}
      BY <3>5, <3>6
    <3>9. ASSUME NEW r \in Runs, NEW s \in Services,
                 approval'[r] # "approved" \/ status'[r] = "pending_approval"
          PROVE  acted'[r][s] = 0
      <4>1. r # run[a]
        BY <3>1, <3>2, <3>9
      <4>2. acted[r][s] = 0
        BY <3>1, <3>9
      <4> QED BY <3>6, <4>1, <4>2
    <3> QED BY <3>7, <3>8, <3>9
  <2> QED BY <2>1, <2>2
<1>15. ASSUME NEW a \in Actors, BatchOver(a) PROVE Touched'
  BY <1>15 DEF BatchOver
<1>16. ASSUME NEW a \in Actors, WritePlan(a) PROVE Touched'
  BY <1>16 DEF WritePlan
<1>17. ASSUME NEW a \in Actors, Record(a) PROVE Touched'
  BY <1>17 DEF Record
<1>18. ASSUME NEW a \in Actors, WriteFails(a) PROVE Touched'
  BY <1>18 DEF WriteFails
<1>19. ASSUME NEW a \in Actors, Catch(a) PROVE Touched'
  BY <1>19 DEF Catch
<1>20. ASSUME NEW s \in Services, NEW p \in Permissions, SetPermission(s, p) PROVE Touched'
  BY <1>20 DEF SetPermission
<1>21. CASE SweepApproved
  BY <1>21 DEF SweepApproved
<1>22. CASE SweepStale
  BY <1>22 DEF SweepStale, Stale
<1>23. CASE SweepPending
  BY <1>23 DEF SweepPending
<1>24. CASE Crash
  BY <1>24 DEF Crash
<1>25. CASE UNCHANGED vars
  BY <1>25 DEF vars
<1>26. ASSUME NEW a \in Actors, CallFails(a) PROVE Touched'
  BY <1>26 DEF CallFails
<1> HIDE
    DEF Types, Known, Touched, Ahead, Executing, 
        rows, local, history, bounds, Goto, Done, Actors
<1> QED
  BY <1>1, <1>2, <1>3, <1>4, <1>5, <1>6, <1>7, <1>8, <1>9, <1>10, <1>11, <1>12,
     <1>13, <1>14, <1>15, <1>16, <1>17, <1>18, <1>19, <1>20, <1>21, <1>22, <1>23, <1>24, <1>25, <1>26
  DEF Next, Proceed, Startup

(* Every step keeps what lies ahead of an executor untouched: nobody else   *)
(* works on its row, and it takes each service off its list first.          *)
LEMMA NextAhead ==
  Types /\ Types' /\ Known /\ Owned /\ Touched /\ Ahead /\ [Next]_vars => Ahead'
<1> SUFFICES ASSUME Types, Types', Known, Owned, Touched, Ahead, [Next]_vars PROVE Ahead'
  OBVIOUS
<1> USE ApprovalsAssumption
    DEF Types, Known, Owned, Touched, Ahead, Executing, 
        rows, local, history, bounds, Goto, Done, Actors
<1>0. ASSUME NEW a \in Actors, Done(a), acted' = acted PROVE Ahead'
  BY <1>0
<1>1. ASSUME NEW a \in Agents, NEW r \in Runs, Request(a, r) PROVE Ahead'
  BY <1>1 DEF Request, Idle, Take
<1>2. ASSUME NEW a \in Agents, NEW r \in Runs, Resume(a, r) PROVE Ahead'
  BY <1>2 DEF Resume, Idle, Take
<1>3. ASSUME NEW a \in Reviewers, NEW r \in Runs, NEW ok \in BOOLEAN, Review(a, r, ok) PROVE Ahead'
  BY <1>3 DEF Review, Idle, Take
<1>4. ASSUME NEW a \in Actors, Create(a) PROVE Ahead'
  <2>1. CASE run[a] \in Batch /\ ~verdict[a]
    BY <1>4, <2>1 DEF Create
  <2>2. CASE ~(run[a] \in Batch /\ ~verdict[a])
    <3>1. Done(a) /\ acted' = acted
      BY <1>4, <2>2 DEF Create
    <3> QED BY <3>1, <1>0
  <2> QED BY <2>1, <2>2
<1>5. ASSUME NEW a \in Actors, Recheck(a) PROVE Ahead'
  <2>0. acted' = acted /\ pc[a] = "recheck"
    BY <1>5 DEF Recheck
  <2>1. CASE Goto(a, "start") /\ UNCHANGED <<run, verdict, todo, turn, failures>>
    BY <2>0, <2>1
  <2>2. CASE Done(a)
    BY <2>0, <2>2, <1>0
  <2>3. Done(a) \/ (Goto(a, "start") /\ UNCHANGED <<run, verdict, todo, turn, failures>>)
    BY ZenonT(30), <1>5 DEF Recheck
  <2> QED BY <2>1, <2>2, <2>3
<1>6. ASSUME NEW a \in Actors, Decide(a) PROVE Ahead'
  BY <1>6 DEF Decide, Undecided
<1>7. ASSUME NEW a \in Actors, Handle(a) PROVE Ahead'
  <2>0. acted' = acted /\ pc[a] = "handle"
    BY <1>7 DEF Handle
  <2>1. CASE Goto(a, "claim") /\ UNCHANGED <<run, verdict, todo, turn, failures>>
    BY <2>0, <2>1
  <2>2. CASE Goto(a, "close") /\ UNCHANGED <<run, verdict, todo, turn, failures>>
    BY <2>0, <2>2
  <2>3. CASE Done(a)
    BY <2>0, <2>3, <1>0
  <2> QED BY <1>7, <2>1, <2>2, <2>3 DEF Handle
<1>8. ASSUME NEW a \in Actors, Close(a) PROVE Ahead'
  BY <1>8 DEF Close
<1>9. ASSUME NEW a \in Actors, NEW granted \in BOOLEAN, Claim(a, granted) PROVE Ahead'
  <2>1. CASE Claimable(run[a], granted)
    BY SMTT(30), <1>9, <2>1 DEF Claim, Claimable
  <2>2. CASE ~(Claimable(run[a], granted))
    <3>1. Done(a) /\ acted' = acted
      BY <1>9, <2>2 DEF Claim
    <3> QED BY <3>1, <1>0
  <2> QED BY <2>1, <2>2
<1>10. ASSUME NEW a \in Actors, Load(a) PROVE Ahead'
  <2>1. CASE status[run[a]] = "running"
    <3>1. Roots[run[a]] \subseteq Services
      BY <1>10 DEF Load
    <3>2. todo' = [todo EXCEPT ![a] = Roots[run[a]]] /\ turn' = turn /\ run' = run
          /\ acted' = acted /\ pc[a] = "load"
          /\ pc' = [pc EXCEPT ![a] = IF run[a] \in Batch THEN "next" ELSE "check"]
      BY <1>10, <2>1 DEF Load
    <3> QED BY <3>1, <3>2
  <2>2. CASE ~(status[run[a]] = "running")
    BY <1>10, <2>2 DEF Load
  <2> QED BY <2>1, <2>2
<1>11. ASSUME NEW a \in Actors, Check(a) PROVE Ahead'
  BY <1>11 DEF Check
<1>12. ASSUME NEW a \in Actors, Act(a) PROVE Ahead'
  BY <1>12 DEF Act
<1>13. ASSUME NEW a \in Actors, NextService(a) PROVE Ahead'
  <2>0. pc[a] = "next" /\ acted' = acted /\ run' = run /\ run[a] \in Runs
    BY <1>13 DEF NextService
  <2>1. PICK s \in todo[a] :
          /\ todo' = [todo EXCEPT ![a] = todo[a] \ {s}]
          /\ IF Passes(a, s)
             THEN turn' = [turn EXCEPT ![a] = s] /\ Goto(a, "turn") /\ UNCHANGED failures
             ELSE failures' = [failures EXCEPT ![a] = TRUE] /\ UNCHANGED <<pc, turn>>
    BY <1>13 DEF NextService
  <2>2. CASE Passes(a, s)
    <3>1. pc' = [pc EXCEPT ![a] = "turn"] /\ turn' = [turn EXCEPT ![a] = s]
      BY <2>1, <2>2
    <3>2. s \in Services /\ acted[run[a]][s] = 0
      BY <2>0
    <3> QED BY <2>0, <2>1, <3>1, <3>2
  <2>3. CASE ~Passes(a, s)
    BY <2>0, <2>1, <2>3
  <2> QED BY <2>2, <2>3
<1>14. ASSUME NEW a \in Actors, CleanService(a) PROVE Ahead'
  <2>0. /\ pc[a] = "turn" /\ run[a] \in Runs /\ turn[a] \in Services /\ turn[a] \notin todo[a]
        /\ run' = run /\ todo' = todo
        /\ pc' = [pc EXCEPT ![a] = "next"] /\ turn' = [turn EXCEPT ![a] = None]
    BY <1>14 DEF CleanService
  <2>1. CASE acted' = acted
    BY <2>0, <2>1
  <2>2. CASE acted' = [acted EXCEPT ![run[a]][turn[a]] = acted[run[a]][turn[a]] + 1]
    <3>1. \A r \in Runs : r # run[a] => acted'[r] = acted[r]
      BY <2>0, <2>2
    <3>2. \A s \in Services : s # turn[a] => acted'[run[a]][s] = acted[run[a]][s]
      BY <2>0, <2>2
    <3>3. ASSUME NEW d \in Actors, d # a, pc[d] \in Executing
          PROVE  acted'[run[d]] = acted[run[d]]
      BY <2>0, <3>1, <3>3
    <3>4. \A d \in Actors : d # a => pc'[d] = pc[d] /\ turn'[d] = turn[d]
      BY <2>0
    <3>5. ASSUME NEW d \in Actors, pc'[d] \in {"load", "check", "act"}
          PROVE  \A s \in Services : acted'[run'[d]][s] = 0
      BY <2>0, <3>3, <3>4, <3>5
    <3>6. ASSUME NEW d \in Actors, pc'[d] \in {"next", "turn"}
          PROVE  \A s \in todo'[d] : acted'[run'[d]][s] = 0
      <4>1. todo[d] \subseteq Services
        OBVIOUS
      <4>2. CASE d = a
        <5>1. \A s \in todo[a] : acted[run[a]][s] = 0 /\ s # turn[a]
          BY <2>0
        <5> QED BY <2>0, <3>2, <4>1, <4>2, <5>1
      <4>3. CASE d # a
        BY <2>0, <3>3, <3>4, <3>6, <4>3
      <4> QED BY <4>2, <4>3
    <3>7. ASSUME NEW d \in Actors, pc'[d] = "turn"
          PROVE  /\ turn'[d] \in Services /\ turn'[d] \notin todo'[d]
                 /\ acted'[run'[d]][turn'[d]] = 0
      BY <2>0, <3>3, <3>4, <3>7
    <3>8. todo' \in [Actors -> SUBSET Services] /\ turn' \in [Actors -> Services \cup {None}]
      BY <2>0
    <3> QED BY <3>5, <3>6, <3>7, <3>8
  <2> QED BY <1>14, <2>1, <2>2 DEF CleanService
<1>15. ASSUME NEW a \in Actors, BatchOver(a) PROVE Ahead'
  BY <1>15 DEF BatchOver
<1>16. ASSUME NEW a \in Actors, WritePlan(a) PROVE Ahead'
  BY <1>16 DEF WritePlan
<1>17. ASSUME NEW a \in Actors, Record(a) PROVE Ahead'
  BY <1>17 DEF Record
<1>18. ASSUME NEW a \in Actors, WriteFails(a) PROVE Ahead'
  BY <1>18 DEF WriteFails
<1>19. ASSUME NEW a \in Actors, Catch(a) PROVE Ahead'
  BY <1>19 DEF Catch
<1>20. ASSUME NEW s \in Services, NEW p \in Permissions, SetPermission(s, p) PROVE Ahead'
  BY <1>20 DEF SetPermission
<1>21. CASE SweepApproved
  BY <1>21 DEF SweepApproved
<1>22. CASE SweepStale
  BY <1>22 DEF SweepStale, Stale
<1>23. CASE SweepPending
  BY <1>23 DEF SweepPending
<1>24. CASE Crash
  BY <1>24 DEF Crash
<1>25. CASE UNCHANGED vars
  BY <1>25 DEF vars
<1>26. ASSUME NEW a \in Actors, CallFails(a) PROVE Ahead'
  BY <1>26 DEF CallFails
<1> HIDE
    DEF Types, Known, Owned, Touched, Ahead, Executing, 
        rows, local, history, bounds, Goto, Done, Actors
<1> QED
  BY <1>1, <1>2, <1>3, <1>4, <1>5, <1>6, <1>7, <1>8, <1>9, <1>10, <1>11, <1>12,
     <1>13, <1>14, <1>15, <1>16, <1>17, <1>18, <1>19, <1>20, <1>21, <1>22, <1>23, <1>24, <1>25, <1>26
  DEF Next, Proceed, Startup

(* Every step keeps what the sweeps have closed: Create makes a row that    *)
(* was not there, a decision or a claim needs an open row, and the rest     *)
(* close.                                                                   *)
LEMMA NextSettled ==
  Types /\ Types' /\ Known /\ Settled /\ [Next]_vars => Settled'
<1> SUFFICES ASSUME Types, Types', Known, Settled, [Next]_vars PROVE Settled'
  OBVIOUS
<1> USE ApprovalsAssumption
    DEF Types, Known, Settled, Executing, Statuses,
        rows, local, history, bounds, Goto, Done, Actors
<1>1. ASSUME NEW a \in Agents, NEW r \in Runs, Request(a, r) PROVE Settled'
  BY <1>1 DEF Request, Idle, Take
<1>2. ASSUME NEW a \in Agents, NEW r \in Runs, Resume(a, r) PROVE Settled'
  BY <1>2 DEF Resume, Idle, Take
<1>3. ASSUME NEW a \in Reviewers, NEW r \in Runs, NEW ok \in BOOLEAN, Review(a, r, ok) PROVE Settled'
  BY <1>3 DEF Review, Idle, Take
<1>4. ASSUME NEW a \in Actors, Create(a) PROVE Settled'
  BY <1>4 DEF Create
<1>5. ASSUME NEW a \in Actors, Recheck(a) PROVE Settled'
  BY <1>5 DEF Recheck
<1>6. ASSUME NEW a \in Actors, Decide(a) PROVE Settled'
  BY <1>6 DEF Decide, Undecided
<1>7. ASSUME NEW a \in Actors, Handle(a) PROVE Settled'
  BY <1>7 DEF Handle
<1>8. ASSUME NEW a \in Actors, Close(a) PROVE Settled'
  BY <1>8 DEF Close
<1>9. ASSUME NEW a \in Actors, NEW granted \in BOOLEAN, Claim(a, granted) PROVE Settled'
  BY <1>9 DEF Claim, Claimable
<1>10. ASSUME NEW a \in Actors, Load(a) PROVE Settled'
  BY <1>10 DEF Load
<1>11. ASSUME NEW a \in Actors, Check(a) PROVE Settled'
  BY <1>11 DEF Check
<1>12. ASSUME NEW a \in Actors, Act(a) PROVE Settled'
  BY <1>12 DEF Act
<1>13. ASSUME NEW a \in Actors, NextService(a) PROVE Settled'
  BY <1>13 DEF NextService
<1>14. ASSUME NEW a \in Actors, CleanService(a) PROVE Settled'
  BY <1>14 DEF CleanService
<1>15. ASSUME NEW a \in Actors, BatchOver(a) PROVE Settled'
  BY <1>15 DEF BatchOver
<1>16. ASSUME NEW a \in Actors, WritePlan(a) PROVE Settled'
  BY <1>16 DEF WritePlan
<1>17. ASSUME NEW a \in Actors, Record(a) PROVE Settled'
  BY <1>17 DEF Record
<1>18. ASSUME NEW a \in Actors, WriteFails(a) PROVE Settled'
  BY <1>18 DEF WriteFails
<1>19. ASSUME NEW a \in Actors, Catch(a) PROVE Settled'
  BY <1>19 DEF Catch
<1>20. ASSUME NEW s \in Services, NEW p \in Permissions, SetPermission(s, p) PROVE Settled'
  BY <1>20 DEF SetPermission
<1>21. CASE SweepApproved
  BY <1>21 DEF SweepApproved
<1>22. CASE SweepStale
  BY <1>22 DEF SweepStale, Stale
<1>23. CASE SweepPending
  BY <1>23 DEF SweepPending
<1>24. CASE Crash
  BY <1>24 DEF Crash
<1>25. CASE UNCHANGED vars
  BY <1>25 DEF vars
<1>26. ASSUME NEW a \in Actors, CallFails(a) PROVE Settled'
  BY <1>26 DEF CallFails
<1> HIDE
    DEF Types, Known, Settled, Executing, Statuses,
        rows, local, history, bounds, Goto, Done, Actors
<1> QED
  BY <1>1, <1>2, <1>3, <1>4, <1>5, <1>6, <1>7, <1>8, <1>9, <1>10, <1>11, <1>12,
     <1>13, <1>14, <1>15, <1>16, <1>17, <1>18, <1>19, <1>20, <1>21, <1>22, <1>23, <1>24, <1>25, <1>26
  DEF Next, Proceed, Startup

(* Every step keeps closed services untouched: an executor looks at the     *)
(* permission between the claim and the operation.                          *)
LEMMA NextGuarded ==
  Types /\ Types' /\ Known /\ Owned /\ Touched /\ Ahead /\ Guarded /\ [Next]_vars => Guarded'
<1> SUFFICES ASSUME Types, Types', Known, Owned, Touched, Ahead, Guarded, [Next]_vars PROVE Guarded'
  OBVIOUS
<1> USE ApprovalsAssumption
    DEF Types, Known, Owned, Touched, Ahead, Guarded, ClosedUntouched, Executing,
        rows, local, history, bounds, Goto, Done, Actors
<1>0. ASSUME NEW a \in Actors, Done(a), acted' = acted, perm' = perm, barred' = barred,
             \A b \in barred : status'[b[1]] \notin {"none", "pending_approval"}
      PROVE  Guarded'
  <2>1. \A d \in Actors : /\ pc'[d] \in {"act", "turn", "create", "recheck", "start"} \cup Executing =>
                             /\ d # a /\ pc'[d] = pc[d] /\ run'[d] = run[d]
                             /\ todo'[d] = todo[d] /\ turn'[d] = turn[d]
    BY <1>0
  <2> QED BY <1>0, <2>1
<1>1. ASSUME NEW a \in Agents, NEW r \in Runs, Request(a, r) PROVE Guarded'
  BY <1>1 DEF Request, Idle, Take
<1>2. ASSUME NEW a \in Agents, NEW r \in Runs, Resume(a, r) PROVE Guarded'
  BY <1>2 DEF Resume, Idle, Take
<1>3. ASSUME NEW a \in Reviewers, NEW r \in Runs, NEW ok \in BOOLEAN, Review(a, r, ok) PROVE Guarded'
  BY <1>3 DEF Review, Idle, Take
<1>4. ASSUME NEW a \in Actors, Create(a) PROVE Guarded'
  <2>1. /\ perm' = perm /\ barred' = barred /\ acted' = acted
        /\ run[a] \in Runs /\ status[run[a]] = "none" /\ a \in Agents
        /\ status' = [status EXCEPT ![run[a]] = "pending_approval"]
    BY <1>4 DEF Create
  <2>2. \A b \in barred : status'[b[1]] \notin {"none", "pending_approval"}
    BY <2>1
  <2>3. CASE Done(a)
    BY <2>1, <2>2, <2>3, <1>0
  <2>4. CASE Goto(a, "start") /\ UNCHANGED <<run, verdict, todo, turn, failures>>
    BY <1>4, <2>1, <2>2, <2>4
  <2> QED BY <1>4, <2>3, <2>4 DEF Create
<1>5. ASSUME NEW a \in Actors, Recheck(a) PROVE Guarded'
  <2>1. CASE Goto(a, "start") /\ UNCHANGED <<run, verdict, todo, turn, failures>>
    BY <1>5, <2>1 DEF Recheck
  <2>2. CASE Done(a)
    <3>1. acted' = acted /\ status' = status /\ perm' = perm /\ barred' = barred
      BY <1>5 DEF Recheck
    <3> QED BY <2>2, <3>1, <1>0
  <2> QED BY <1>5, <2>1, <2>2 DEF Recheck
<1>6. ASSUME NEW a \in Actors, Decide(a) PROVE Guarded'
  BY <1>6 DEF Decide, Undecided
<1>7. ASSUME NEW a \in Actors, Handle(a) PROVE Guarded'
  <2>0. acted' = acted /\ status' = status /\ perm' = perm /\ barred' = barred
    BY <1>7 DEF Handle
  <2>1. CASE Goto(a, "claim") /\ UNCHANGED <<run, verdict, todo, turn, failures>>
    BY <1>7, <2>0, <2>1
  <2>2. CASE Goto(a, "close") /\ UNCHANGED <<run, verdict, todo, turn, failures>>
    BY <1>7, <2>0, <2>2
  <2>3. CASE Done(a)
    BY <2>0, <2>3, <1>0
  <2> QED BY <1>7, <2>1, <2>2, <2>3 DEF Handle
<1>8. ASSUME NEW a \in Actors, Close(a) PROVE Guarded'
  BY <1>8 DEF Close
<1>9. ASSUME NEW a \in Actors, NEW granted \in BOOLEAN, Claim(a, granted) PROVE Guarded'
  <2>0. perm' = perm /\ acted' = acted
    BY <1>9 DEF Claim
  <2>1. CASE Claimable(run[a], granted)
    <3> DEFINE r0 == run[a]
    <3>1. /\ r0 \in Runs /\ status[r0] = "pending_approval"
          /\ status' = [status EXCEPT ![r0] = "running"]
          /\ barred' = barred \cup {<<r0, s>> : s \in Closed(r0, granted)}
          /\ pc' = [pc EXCEPT ![a] = "load"]
          /\ UNCHANGED <<run, todo, turn>>
      BY <1>9, <2>1 DEF Claim, Claimable
    <3>2. granted => a \in Agents
      BY <1>9 DEF Claim
    <3>3. \A b \in Actors : run[b] = r0 => pc[b] \notin Executing
      BY <3>1
    <3>4. ASSUME NEW b \in barred'
          PROVE  /\ b \in Runs \X Services /\ b[2] \in Named[b[1]]
                 /\ status'[b[1]] \notin {"none", "pending_approval"}
                 /\ \/ perm[b[2]] = "block"
                    \/ /\ perm[b[2]] = "approval_required"
                       /\ \A d \in Actors : run[d] = b[1] /\ pc'[d] \in Executing => d \in Agents
                 /\ acted[b[1]][b[2]] = 0
      <4>1. CASE b \in barred
        <5>1. b[1] # r0 /\ b[1] \in Runs
          BY <3>1, <4>1
        <5> QED BY <3>1, <4>1, <5>1
      <4>2. CASE b \notin barred
        <5>1. PICK s \in Closed(r0, granted) : b = <<r0, s>>
          BY <3>1, <4>2
        <5>2. /\ s \in Services /\ s \in Named[r0]
              /\ perm[s] = "block" \/ (granted /\ perm[s] = "approval_required")
          BY <3>1 DEF Closed
        <5>3. acted[r0][s] = 0
          BY <3>1, <5>2
        <5>4. \A d \in Actors : run[d] = r0 /\ pc'[d] \in Executing => d = a
          BY <3>1, <3>3
        <5> QED BY <3>1, <3>2, <5>1, <5>2, <5>3, <5>4
      <4> QED BY <4>1, <4>2
    <3>5. ASSUME NEW d \in Actors, pc'[d] \in {"act", "turn"}, NEW s
          PROVE  <<run[d], s>> \in barred' => <<run[d], s>> \in barred
      BY <3>1, <3>3, <3>5
    <3>6. \A d \in Actors : pc'[d] \in {"act", "turn", "create", "recheck", "start"} => pc'[d] = pc[d]
      BY <3>1
    <3> HIDE DEF r0
    <3> QED BY <2>0, <3>1, <3>4, <3>5, <3>6
  <2>2. CASE ~Claimable(run[a], granted)
    <3>1. Done(a) /\ status' = status /\ barred' = barred
      BY <1>9, <2>2 DEF Claim
    <3> QED BY <2>0, <3>1, <1>0
  <2> QED BY <2>1, <2>2
<1>10. ASSUME NEW a \in Actors, Load(a) PROVE Guarded'
  <2>1. /\ status[run[a]] = "running" /\ pc[a] = "load" /\ run[a] \in Runs
        /\ UNCHANGED <<status, perm, barred, acted>>
    BY <1>10 DEF Load
  <2>2. /\ pc' = [pc EXCEPT ![a] = IF run[a] \in Batch THEN "next" ELSE "check"]
        /\ todo' = [todo EXCEPT ![a] = Roots[run[a]]]
        /\ run' = run /\ turn' = turn
    BY <1>10, <2>1 DEF Load
  <2>3. \A d \in Actors : /\ pc'[d] \in {"act", "turn", "create", "recheck", "start"} =>
                               pc'[d] = pc[d] /\ todo'[d] = todo[d]
                          /\ pc'[d] \in Executing => pc[d] \in Executing
    BY <2>1, <2>2
  <2> QED BY <2>1, <2>2, <2>3
<1>11. ASSUME NEW a \in Actors, Check(a) PROVE Guarded'
  <2>0. /\ pc[a] = "check"
        /\ UNCHANGED <<status, perm, barred, acted, run, todo, turn>>
    BY <1>11 DEF Check
  <2>1. CASE pc' = [pc EXCEPT ![a] = "catch"]
    BY <2>0, <2>1
  <2>2. CASE pc' # [pc EXCEPT ![a] = "catch"]
    <3>1. pc' = [pc EXCEPT ![a] = "act"] /\ \A s \in Named[run[a]] : Passes(a, s)
      BY <1>11, <2>2 DEF Check
    <3>2. ASSUME NEW s \in todo[a], <<run[a], s>> \in barred PROVE FALSE
      <4>1. run[a] = <<run[a], s>>[1] /\ s = <<run[a], s>>[2]
        OBVIOUS
      <4>2. s \in Named[run[a]] /\ s \in Services
        BY <3>2, <4>1
      <4>3. perm[s] # "block" /\ (a \in Agents => perm[s] # "approval_required")
        BY <3>1, <4>2 DEF Passes, Blocked, Pending, RequirePermission
      <4> QED BY <2>0, <3>2, <4>1, <4>2, <4>3
    <3> QED BY <2>0, <3>1, <3>2
  <2> QED BY <2>1, <2>2
<1>12. ASSUME NEW a \in Actors, Act(a) PROVE Guarded'
  <2>0. /\ UNCHANGED <<status, perm, barred, run, todo, turn>> /\ pc[a] = "act" /\ run[a] \in Runs
        /\ pc' = [pc EXCEPT ![a] = "plan"] \/ pc' = [pc EXCEPT ![a] = "catch"]
    BY <1>12 DEF Act
  <2>1. PICK done \in SUBSET todo[a] :
          acted' = [acted EXCEPT ![run[a]] =
                      [s \in Services |-> acted[run[a]][s] + IF s \in done THEN 1 ELSE 0]]
    BY <1>12, ActTouches
  <2> DEFINE new == [s \in Services |-> acted[run[a]][s] + IF s \in done THEN 1 ELSE 0]
  <2>2. \A s \in Services : s \notin todo[a] => new[s] = acted[run[a]][s]
    BY <2>0, <2>1
  <2>3. acted' = [acted EXCEPT ![run[a]] = new]
    BY <2>1
  <2> HIDE DEF new
  <2>4. acted'[run[a]] = new /\ \A r \in Runs : r # run[a] => acted'[r] = acted[r]
    BY <2>0, <2>3
  <2>5. ASSUME NEW b \in barred PROVE acted'[b[1]][b[2]] = 0
    <3>1. b[1] \in Runs /\ b[2] \in Services /\ b = <<b[1], b[2]>>
      OBVIOUS
    <3>2. CASE b[1] = run[a]
      BY <2>0, <2>2, <2>4, <3>1, <3>2
    <3>3. CASE b[1] # run[a]
      BY <2>4, <3>1, <3>3
    <3> QED BY <3>2, <3>3
  <2>6. /\ \A d \in Actors : pc'[d] \in {"act", "turn", "create", "recheck", "start"} => pc'[d] = pc[d]
        /\ \A d \in Actors : pc'[d] \in Executing => pc[d] \in Executing
    BY <2>0
  <2> QED BY <2>0, <2>5, <2>6
<1>13. ASSUME NEW a \in Actors, NextService(a) PROVE Guarded'
  <2>0. /\ pc[a] = "next" /\ run[a] \in Runs
        /\ UNCHANGED <<status, perm, barred, acted, run>>
    BY <1>13 DEF NextService
  <2>1. PICK s \in todo[a] :
          /\ todo' = [todo EXCEPT ![a] = todo[a] \ {s}]
          /\ IF Passes(a, s)
             THEN turn' = [turn EXCEPT ![a] = s] /\ Goto(a, "turn") /\ UNCHANGED failures
             ELSE failures' = [failures EXCEPT ![a] = TRUE] /\ UNCHANGED <<pc, turn>>
    BY <1>13 DEF NextService
  <2>2. CASE Passes(a, s)
    <3>1. s \in Services /\ perm[s] # "block" /\ (a \in Agents => perm[s] # "approval_required")
      BY <2>1, <2>2 DEF Passes, Blocked, Pending, RequirePermission
    <3>2. <<run[a], s>> \notin barred
      <4>1. run[a] = <<run[a], s>>[1] /\ s = <<run[a], s>>[2]
        OBVIOUS
      <4> QED BY <2>0, <3>1, <4>1
    <3>3. pc' = [pc EXCEPT ![a] = "turn"] /\ turn' = [turn EXCEPT ![a] = s]
      BY <2>1, <2>2
    <3>4. ASSUME NEW d \in Actors, pc'[d] = "act"
          PROVE  \A q \in todo'[d] : <<run[d], q>> \notin barred
      BY <2>0, <2>1, <3>3, <3>4
    <3>5. ASSUME NEW d \in Actors, pc'[d] = "turn"
          PROVE  <<run[d], turn'[d]>> \notin barred
      BY <2>0, <3>2, <3>3, <3>5
    <3>6. \A d \in Actors : /\ pc'[d] \in Executing => pc[d] \in Executing
                            /\ pc'[d] \in {"create", "recheck", "start"} => pc[d] = pc'[d]
      BY <2>0, <3>3
    <3> QED BY ZenonT(60), <2>0, <3>4, <3>5, <3>6
  <2>3. CASE ~Passes(a, s)
    BY <2>0, <2>1, <2>3
  <2> QED BY <2>2, <2>3
<1>14. ASSUME NEW a \in Actors, CleanService(a) PROVE Guarded'
  <2>0. /\ UNCHANGED <<status, perm, barred, run, todo>> /\ pc[a] = "turn" /\ run[a] \in Runs
        /\ pc' = [pc EXCEPT ![a] = "next"] /\ turn' = [turn EXCEPT ![a] = None]
        /\ turn[a] \in Services /\ <<run[a], turn[a]>> \notin barred
    BY <1>14 DEF CleanService
  <2>1. /\ \A d \in Actors : pc'[d] \in {"act", "turn", "create", "recheck", "start"} =>
                                pc'[d] = pc[d] /\ turn'[d] = turn[d]
        /\ \A d \in Actors : pc'[d] \in Executing => pc[d] \in Executing
    BY <2>0
  <2>2. CASE acted' = acted
    BY <2>0, <2>1, <2>2
  <2>3. CASE acted' = [acted EXCEPT ![run[a]][turn[a]] = acted[run[a]][turn[a]] + 1]
    <3>1. \A r \in Runs, s \in Services :
             ~(r = run[a] /\ s = turn[a]) => acted'[r][s] = acted[r][s]
      BY <2>0, <2>3
    <3>2. ASSUME NEW b \in barred PROVE acted'[b[1]][b[2]] = 0
      <4>1. b[1] \in Runs /\ b[2] \in Services /\ b = <<b[1], b[2]>>
        OBVIOUS
      <4>2. ~(b[1] = run[a] /\ b[2] = turn[a])
        BY <2>0, <4>1
      <4> QED BY <3>1, <4>1, <4>2
    <3> QED BY <2>0, <2>1, <3>2
  <2> QED BY <1>14, <2>2, <2>3 DEF CleanService
<1>15. ASSUME NEW a \in Actors, BatchOver(a) PROVE Guarded'
  BY <1>15 DEF BatchOver
<1>16. ASSUME NEW a \in Actors, WritePlan(a) PROVE Guarded'
  BY <1>16 DEF WritePlan
<1>17. ASSUME NEW a \in Actors, Record(a) PROVE Guarded'
  BY <1>17 DEF Record
<1>18. ASSUME NEW a \in Actors, WriteFails(a) PROVE Guarded'
  BY <1>18 DEF WriteFails
<1>19. ASSUME NEW a \in Actors, Catch(a) PROVE Guarded'
  BY <1>19 DEF Catch
<1>20. ASSUME NEW s \in Services, NEW p \in Permissions, SetPermission(s, p) PROVE Guarded'
  BY <1>20 DEF SetPermission
<1>21. CASE SweepApproved
  BY <1>21 DEF SweepApproved
<1>22. CASE SweepStale
  BY <1>22 DEF SweepStale, Stale
<1>23. CASE SweepPending
  BY <1>23 DEF SweepPending
<1>24. CASE Crash
  BY <1>24 DEF Crash
<1>25. CASE UNCHANGED vars
  BY <1>25 DEF vars
<1>26. ASSUME NEW a \in Actors, CallFails(a) PROVE Guarded'
  BY <1>26 DEF CallFails
<1> HIDE
    DEF Types, Known, Owned, Touched, Ahead, Guarded, ClosedUntouched, Executing,
        rows, local, history, bounds, Goto, Done, Actors
<1> QED
  BY <1>1, <1>2, <1>3, <1>4, <1>5, <1>6, <1>7, <1>8, <1>9, <1>10, <1>11, <1>12,
     <1>13, <1>14, <1>15, <1>16, <1>17, <1>18, <1>19, <1>20, <1>21, <1>22, <1>23, <1>24, <1>25, <1>26
  DEF Next, Proceed, Startup

(* Every step keeps the account of what is done: whatever an executor       *)
(* leaves undone counts as a failure.                                       *)
LEMMA NextComplete ==
  Types /\ Types' /\ Known /\ Owned /\ Touched /\ Touched' /\ Ahead /\ Complete /\ [Next]_vars => Complete'
<1> SUFFICES ASSUME Types, Types', Known, Owned, Touched, Touched', Ahead, Complete, [Next]_vars PROVE Complete'
  OBVIOUS
<1> USE ApprovalsAssumption
    DEF Types, Known, Owned, Touched, Ahead, Complete, SuccessIsComplete, Executing,
        rows, local, history, bounds, Goto, Done, Actors
<1>0. ASSUME NEW a \in Actors, Done(a), acted' = acted, status' = status
      PROVE  Complete'
  BY <1>0
<1>1. ASSUME NEW a \in Agents, NEW r \in Runs, Request(a, r) PROVE Complete'
  BY <1>1 DEF Request, Idle, Take
<1>2. ASSUME NEW a \in Agents, NEW r \in Runs, Resume(a, r) PROVE Complete'
  BY <1>2 DEF Resume, Idle, Take
<1>3. ASSUME NEW a \in Reviewers, NEW r \in Runs, NEW ok \in BOOLEAN, Review(a, r, ok) PROVE Complete'
  BY <1>3 DEF Review, Idle, Take
<1>4. ASSUME NEW a \in Actors, Create(a) PROVE Complete'
  <2>1. /\ acted' = acted /\ run[a] \in Runs
        /\ status' = [status EXCEPT ![run[a]] = "pending_approval"]
    BY <1>4 DEF Create
  <2>2. SuccessIsComplete'
    BY <2>1
  <2>3. CASE Done(a)
    BY <2>1, <2>2, <2>3
  <2>4. CASE Goto(a, "start") /\ UNCHANGED <<run, verdict, todo, turn, failures>>
    BY <1>4, <2>1, <2>2, <2>4
  <2> QED BY <1>4, <2>3, <2>4 DEF Create
<1>5. ASSUME NEW a \in Actors, Recheck(a) PROVE Complete'
  <2>1. CASE Goto(a, "start") /\ UNCHANGED <<run, verdict, todo, turn, failures>>
    BY <1>5, <2>1 DEF Recheck
  <2>2. CASE Done(a)
    <3>1. acted' = acted /\ status' = status /\ perm' = perm /\ barred' = barred
      BY <1>5 DEF Recheck
    <3> QED BY <2>2, <3>1, <1>0
  <2> QED BY <1>5, <2>1, <2>2 DEF Recheck
<1>6. ASSUME NEW a \in Actors, Decide(a) PROVE Complete'
  BY <1>6 DEF Decide, Undecided
<1>7. ASSUME NEW a \in Actors, Handle(a) PROVE Complete'
  <2>0. acted' = acted /\ status' = status /\ perm' = perm /\ barred' = barred
    BY <1>7 DEF Handle
  <2>1. CASE Goto(a, "claim") /\ UNCHANGED <<run, verdict, todo, turn, failures>>
    BY <1>7, <2>0, <2>1
  <2>2. CASE Goto(a, "close") /\ UNCHANGED <<run, verdict, todo, turn, failures>>
    BY <1>7, <2>0, <2>2
  <2>3. CASE Done(a)
    BY <2>0, <2>3, <1>0
  <2> QED BY <1>7, <2>1, <2>2, <2>3 DEF Handle
<1>8. ASSUME NEW a \in Actors, Close(a) PROVE Complete'
  BY <1>8 DEF Close
<1>9. ASSUME NEW a \in Actors, NEW granted \in BOOLEAN, Claim(a, granted) PROVE Complete'
  <2>0. acted' = acted /\ run[a] \in Runs
    BY <1>9 DEF Claim
  <2>1. CASE Claimable(run[a], granted)
    <3>1. /\ status' = [status EXCEPT ![run[a]] = "running"]
          /\ pc' = [pc EXCEPT ![a] = "load"]
          /\ UNCHANGED <<run, todo, turn, failures>>
      BY <1>9, <2>1 DEF Claim
    <3> QED BY <2>0, <3>1
  <2>2. CASE ~Claimable(run[a], granted)
    <3>1. Done(a) /\ status' = status
      BY <1>9, <2>2 DEF Claim
    <3> QED BY <2>0, <3>1, <1>0
  <2> QED BY <2>1, <2>2
<1>10. ASSUME NEW a \in Actors, Load(a) PROVE Complete'
  <2>0. acted' = acted /\ status' = status /\ status[run[a]] = "running" /\ run[a] \in Runs
    BY <1>10 DEF Load
  <2>1. /\ pc' = [pc EXCEPT ![a] = IF run[a] \in Batch THEN "next" ELSE "check"]
        /\ todo' = [todo EXCEPT ![a] = Roots[run[a]]]
        /\ UNCHANGED <<run, turn, failures>>
    BY <1>10, <2>0 DEF Load
  <2> QED BY <2>0, <2>1
<1>11. ASSUME NEW a \in Actors, Check(a) PROVE Complete'
  BY <1>11 DEF Check
<1>12. ASSUME NEW a \in Actors, Act(a) PROVE Complete'
  <2>0. /\ UNCHANGED <<status, run, todo, turn, failures>> /\ pc[a] = "act" /\ run[a] \in Runs
        /\ pc' = [pc EXCEPT ![a] = "plan"] \/ pc' = [pc EXCEPT ![a] = "catch"]
    BY <1>12 DEF Act
  <2>1. run[a] \notin Batch
    BY <2>0
  <2>2. \A r \in Runs : r # run[a] => acted'[r] = acted[r]
    BY <1>12, <2>0 DEF Act
  <2>3. ASSUME NEW d \in Actors, d # a, pc[d] \in Executing
        PROVE  acted'[run[d]] = acted[run[d]]
    BY <2>0, <2>2, <2>3
  <2>4. \A d \in Actors : d # a => pc'[d] = pc[d]
    BY <2>0
  <2>5. ASSUME NEW r \in Batch, status[r] = "succeeded"
        PROVE  \A s \in Roots[r] : acted'[r][s] = 1
    <3>1. r \in Runs /\ r # run[a]
      BY <2>1
    <3> QED BY <2>2, <2>5, <3>1
  <2>6. ASSUME NEW d \in Actors, pc'[d] \in {"next", "turn"}, ~failures'[d]
        PROVE  \A s \in Roots[run'[d]] :
                  acted'[run'[d]][s] = 1 \/ s \in todo'[d] \/ (pc'[d] = "turn" /\ s = turn'[d])
    BY <2>0, <2>3, <2>4, <2>6
  <2>7. ASSUME NEW d \in Actors, pc'[d] \in {"plan", "record"}, ~failures'[d], run'[d] \in Batch
        PROVE  \A s \in Roots[run'[d]] : acted'[run'[d]][s] = 1
    BY <2>0, <2>1, <2>3, <2>4, <2>7
  <2>8. /\ \A d \in Actors : pc'[d] \in {"check", "act"} => run'[d] \notin Batch
        /\ failures' \in [Actors -> BOOLEAN]
    BY <2>0
  <2> QED BY <2>0, <2>5, <2>6, <2>7, <2>8
<1>13. ASSUME NEW a \in Actors, NextService(a) PROVE Complete'
  <2>0. /\ pc[a] = "next" /\ run[a] \in Runs
        /\ UNCHANGED <<status, acted, run>>
    BY <1>13 DEF NextService
  <2>1. PICK s \in todo[a] :
          /\ todo' = [todo EXCEPT ![a] = todo[a] \ {s}]
          /\ IF Passes(a, s)
             THEN turn' = [turn EXCEPT ![a] = s] /\ Goto(a, "turn") /\ UNCHANGED failures
             ELSE failures' = [failures EXCEPT ![a] = TRUE] /\ UNCHANGED <<pc, turn>>
    BY <1>13 DEF NextService
  <2>2. CASE Passes(a, s)
    <3>1. pc' = [pc EXCEPT ![a] = "turn"] /\ turn' = [turn EXCEPT ![a] = s] /\ failures' = failures
      BY <2>1, <2>2
    <3> QED BY <2>0, <2>1, <3>1
  <2>3. CASE ~Passes(a, s)
    <3>1. pc' = pc /\ turn' = turn /\ failures' = [failures EXCEPT ![a] = TRUE]
      BY <2>1, <2>3
    <3> QED BY <2>0, <2>1, <3>1
  <2> QED BY <2>2, <2>3
<1>14. ASSUME NEW a \in Actors, CleanService(a) PROVE Complete'
  <2>0. /\ UNCHANGED <<status, run, todo>> /\ pc[a] = "turn" /\ run[a] \in Runs
        /\ pc' = [pc EXCEPT ![a] = "next"] /\ turn' = [turn EXCEPT ![a] = None]
        /\ turn[a] \in Services /\ acted[run[a]][turn[a]] = 0
        /\ status[run[a]] = "running"
    BY <1>14 DEF CleanService
  <2>1. \/ acted' = acted /\ failures' = [failures EXCEPT ![a] = TRUE]
        \/ /\ acted' = [acted EXCEPT ![run[a]][turn[a]] = acted[run[a]][turn[a]] + 1]
           /\ \/ failures' = failures
              \/ failures' = [failures EXCEPT ![a] = TRUE]
    BY <1>14 DEF CleanService
  <2>2. CASE acted' = acted /\ failures' = [failures EXCEPT ![a] = TRUE]
    BY <2>0, <2>2
  <2>3. CASE /\ acted' = [acted EXCEPT ![run[a]][turn[a]] = acted[run[a]][turn[a]] + 1]
             /\ failures' = failures \/ failures' = [failures EXCEPT ![a] = TRUE]
    <3> DEFINE new == [acted[run[a]] EXCEPT ![turn[a]] = acted[run[a]][turn[a]] + 1]
    <3>1. acted' = [acted EXCEPT ![run[a]] = new]
      BY <2>3
    <3>2. new[turn[a]] = 1 /\ \A s \in Services : s # turn[a] => new[s] = acted[run[a]][s]
      <4>1. acted[run[a]] \in [Services -> Int]
        BY <2>0
      <4> QED BY <2>0, <4>1
    <3> HIDE DEF new
    <3>3. acted'[run[a]] = new /\ \A r \in Runs : r # run[a] => acted'[r] = acted[r]
      BY <2>0, <3>1
    <3>4. /\ failures' \in [Actors -> BOOLEAN]
          /\ \A d \in Actors : ~failures'[d] => ~failures[d]
          /\ \A d \in Actors : d # a => pc'[d] = pc[d] /\ turn'[d] = turn[d]
      <4>1. \A d \in Actors : d # a => pc'[d] = pc[d] /\ turn'[d] = turn[d]
        BY <2>0
      <4>2. CASE failures' = failures
        BY <4>1, <4>2
      <4>3. CASE failures' = [failures EXCEPT ![a] = TRUE]
        BY <4>1, <4>3
      <4> QED BY <2>3, <4>2, <4>3
    <3>5. ASSUME NEW d \in Actors, d # a, pc[d] \in Executing
          PROVE  acted'[run[d]] = acted[run[d]]
      <4>1. run[d] \in Runs /\ run[d] # run[a]
        BY <2>0, <3>5
      <4> QED BY <3>3, <4>1
    <3>6. Roots[run[a]] \subseteq Services
      BY <2>0
    <3>7. ASSUME ~failures[a], NEW s \in Roots[run[a]]
          PROVE  acted'[run[a]][s] = 1 \/ s \in todo[a]
      <4>1. acted[run[a]][s] = 1 \/ s \in todo[a] \/ s = turn[a]
        BY <2>0, <3>7
      <4> QED BY <3>2, <3>3, <3>6, <4>1
    <3>8. ASSUME NEW r \in Batch, status[r] = "succeeded"
          PROVE  \A s \in Roots[r] : acted'[r][s] = 1
      <4>1. r \in Runs /\ r # run[a]
        BY <2>0, <3>8
      <4> QED BY <3>3, <3>8, <4>1
    <3>9. ASSUME NEW d \in Actors, pc'[d] \in {"next", "turn"}, ~failures'[d]
          PROVE  \A s \in Roots[run'[d]] :
                    acted'[run'[d]][s] = 1 \/ s \in todo'[d] \/ (pc'[d] = "turn" /\ s = turn'[d])
      <4>1. CASE d = a
        BY <2>0, <3>4, <3>7, <3>9, <4>1
      <4>2. CASE d # a
        BY <2>0, <3>4, <3>5, <3>9, <4>2
      <4> QED BY <4>1, <4>2
    <3>10. ASSUME NEW d \in Actors, pc'[d] \in {"plan", "record"}, ~failures'[d], run'[d] \in Batch
           PROVE  \A s \in Roots[run'[d]] : acted'[run'[d]][s] = 1
      BY <2>0, <3>4, <3>5, <3>10
    <3>11. \A d \in Actors : pc'[d] \in {"check", "act"} => run'[d] \notin Batch
      BY <2>0
    <3> QED BY <2>0, <3>4, <3>8, <3>9, <3>10, <3>11
  <2> QED BY <2>1, <2>2, <2>3
<1>15. ASSUME NEW a \in Actors, BatchOver(a) PROVE Complete'
  BY <1>15 DEF BatchOver
<1>16. ASSUME NEW a \in Actors, WritePlan(a) PROVE Complete'
  BY <1>16 DEF WritePlan
<1>17. ASSUME NEW a \in Actors, Record(a) PROVE Complete'
  BY <1>17 DEF Record
<1>18. ASSUME NEW a \in Actors, WriteFails(a) PROVE Complete'
  BY <1>18 DEF WriteFails
<1>19. ASSUME NEW a \in Actors, Catch(a) PROVE Complete'
  BY <1>19 DEF Catch
<1>20. ASSUME NEW s \in Services, NEW p \in Permissions, SetPermission(s, p) PROVE Complete'
  BY <1>20 DEF SetPermission
<1>21. CASE SweepApproved
  BY <1>21 DEF SweepApproved
<1>22. CASE SweepStale
  BY <1>22 DEF SweepStale, Stale
<1>23. CASE SweepPending
  BY <1>23 DEF SweepPending
<1>24. CASE Crash
  BY <1>24 DEF Crash
<1>25. CASE UNCHANGED vars
  BY <1>25 DEF vars
<1>26. ASSUME NEW a \in Actors, CallFails(a) PROVE Complete'
  BY <1>26 DEF CallFails
<1> HIDE
    DEF Types, Known, Owned, Touched, Ahead, Complete, SuccessIsComplete, Executing,
        rows, local, history, bounds, Goto, Done, Actors
<1> QED
  BY <1>1, <1>2, <1>3, <1>4, <1>5, <1>6, <1>7, <1>8, <1>9, <1>10, <1>11, <1>12,
     <1>13, <1>14, <1>15, <1>16, <1>17, <1>18, <1>19, <1>20, <1>21, <1>22, <1>23, <1>24, <1>25, <1>26
  DEF Next, Proceed, Startup

(* No step brings a rejected request back: only a row without an answer is  *)
(* decided or claimed, and only an approved one is executed.                *)
LEMMA NextStays ==
  Types /\ Known /\ Touched /\ [Next]_vars => RejectedStays
<1> SUFFICES ASSUME Types, Known, Touched, [Next]_vars PROVE RejectedStays
  OBVIOUS
<1> USE ApprovalsAssumption
    DEF Types, Known, Executing, RejectedStays, 
        rows, local, history, bounds, Goto, Done, Actors
<1>1. ASSUME NEW a \in Agents, NEW r \in Runs, Request(a, r) PROVE RejectedStays
  BY <1>1 DEF Request, Idle, Take
<1>2. ASSUME NEW a \in Agents, NEW r \in Runs, Resume(a, r) PROVE RejectedStays
  BY <1>2 DEF Resume, Idle, Take
<1>3. ASSUME NEW a \in Reviewers, NEW r \in Runs, NEW ok \in BOOLEAN, Review(a, r, ok)
  PROVE  RejectedStays
  BY <1>3 DEF Review, Idle, Take
<1>4. ASSUME NEW a \in Actors, Create(a) PROVE RejectedStays
  BY <1>4 DEF Create
<1>5. ASSUME NEW a \in Actors, Recheck(a) PROVE RejectedStays
  BY <1>5 DEF Recheck
<1>6. ASSUME NEW a \in Actors, Decide(a) PROVE RejectedStays
  BY <1>6 DEF Decide, Undecided
<1>7. ASSUME NEW a \in Actors, Handle(a) PROVE RejectedStays
  BY <1>7 DEF Handle
<1>8. ASSUME NEW a \in Actors, Close(a) PROVE RejectedStays
  BY <1>8 DEF Close
<1>9. ASSUME NEW a \in Actors, NEW granted \in BOOLEAN, Claim(a, granted) PROVE RejectedStays
  BY <1>9 DEF Claim, Claimable
<1>10. ASSUME NEW a \in Actors, Load(a) PROVE RejectedStays
  BY <1>10 DEF Load
<1>11. ASSUME NEW a \in Actors, Check(a) PROVE RejectedStays
  BY <1>11 DEF Check
<1>12. ASSUME NEW a \in Actors, Act(a) PROVE RejectedStays
  <2>1. approval[run[a]] = "approved" /\ run[a] \in Runs /\ approval' = approval
    BY <1>12 DEF Act
  <2>2. \A r \in Runs : r # run[a] => acted'[r] = acted[r]
    BY <1>12, <2>1 DEF Act, Touched
  <2> QED BY <2>1, <2>2
<1>13. ASSUME NEW a \in Actors, NextService(a) PROVE RejectedStays
  BY <1>13 DEF NextService
<1>14. ASSUME NEW a \in Actors, CleanService(a) PROVE RejectedStays
  <2>1. approval[run[a]] = "approved" /\ run[a] \in Runs /\ approval' = approval
    BY <1>14 DEF CleanService
  <2>2. \A r \in Runs : r # run[a] => acted'[r] = acted[r]
    BY <1>14, <2>1 DEF CleanService, Touched
  <2> QED BY <2>1, <2>2
<1>15. ASSUME NEW a \in Actors, BatchOver(a) PROVE RejectedStays
  BY <1>15 DEF BatchOver
<1>16. ASSUME NEW a \in Actors, WritePlan(a) PROVE RejectedStays
  BY <1>16 DEF WritePlan
<1>17. ASSUME NEW a \in Actors, Record(a) PROVE RejectedStays
  BY <1>17 DEF Record
<1>18. ASSUME NEW a \in Actors, WriteFails(a) PROVE RejectedStays
  BY <1>18 DEF WriteFails
<1>19. ASSUME NEW a \in Actors, Catch(a) PROVE RejectedStays
  BY <1>19 DEF Catch
<1>20. ASSUME NEW s \in Services, NEW p \in Permissions, SetPermission(s, p) PROVE RejectedStays
  BY <1>20 DEF SetPermission
<1>21. CASE SweepApproved
  BY <1>21 DEF SweepApproved
<1>22. CASE SweepStale
  BY <1>22 DEF SweepStale, Stale
<1>23. CASE SweepPending
  BY <1>23 DEF SweepPending
<1>24. CASE Crash
  BY <1>24 DEF Crash
<1>25. CASE UNCHANGED vars
  BY <1>25 DEF vars
<1>26. ASSUME NEW a \in Actors, CallFails(a) PROVE RejectedStays
  BY <1>26 DEF CallFails
<1> HIDE
    DEF Types, Known, Executing, RejectedStays, 
        rows, local, history, bounds, Goto, Done, Actors
<1> QED
  BY <1>1, <1>2, <1>3, <1>4, <1>5, <1>6, <1>7, <1>8, <1>9, <1>10, <1>11, <1>12,
     <1>13, <1>14, <1>15, <1>16, <1>17, <1>18, <1>19, <1>20, <1>21, <1>22, <1>23, <1>24, <1>25, <1>26
  DEF Next, Proceed, Startup

(* The eight parts together are inductive.                                 *)
LEMMA NextIInv == IInv /\ [Next]_vars => IInv'
BY NextTypes, NextKnown, NextOwned, NextTouched, NextAhead, NextSettled, NextGuarded,
   NextComplete DEF IInv

(* A request stops or deletes each of its services at most once.           *)
THEOREM RequestsActOnce == Spec => []ActedOnce
<1>1. IInv => ActedOnce
  BY DEF IInv, Touched, ActedOnce
<1> QED BY <1>1, InitIInv, NextIInv, PTL DEF Spec

(* A request whose row says rejected has touched nothing.                  *)
THEOREM RejectedTouchNothing == Spec => []RejectedUntouched
<1>1. IInv => RejectedUntouched
  BY DEF IInv, Touched, RejectedUntouched
<1> QED BY <1>1, InitIInv, NextIInv, PTL DEF Spec

(* A rejection is final: no late approval, continuation or restart brings  *)
(* the request back or lets it touch a service.                            *)
THEOREM RejectionsAreFinal == Spec => RejectionIsFinal
<1>1. IInv /\ [Next]_vars => [RejectedStays]_vars
  BY NextStays DEF IInv
<1> QED BY <1>1, InitIInv, NextIInv, PTL DEF Spec, RejectionIsFinal, RejectedStays

(* While the server is up, a row is running exactly while one executor     *)
(* works on it, or because a failing call to the database has stranded it. *)
THEOREM OneExecutorEach == Spec => []RunningIsExecuted
<1>1. IInv => RunningIsExecuted
  BY DEF IInv, Types, Known, Owned, RunningIsExecuted, Executes, Executing
<1> QED BY <1>1, InitIInv, NextIInv, PTL DEF Spec

(* Whatever the number of crashes, also during the startup sweep itself,   *)
(* once the server is up again no row of an earlier life is open.          *)
THEOREM RestartsSettle == Spec => []RestartSettles
<1>1. IInv => RestartSettles
  BY DEF IInv, Settled, RestartSettles
<1> QED BY <1>1, InitIInv, NextIInv, PTL DEF Spec

(* A request never touches a service it names that was closed to it when   *)
(* it was claimed and still is, and a batch reports success only with      *)
(* every service done.                                                     *)
THEOREM BatchesAreHonest == Spec => []BatchIsHonest
<1>1. IInv => BatchIsHonest
  BY DEF IInv, Guarded, Complete, BatchIsHonest
<1> QED BY <1>1, InitIInv, NextIInv, PTL DEF Spec
=============================================================================
