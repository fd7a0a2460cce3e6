--------------------------- MODULE BlueGreenProofs ---------------------------
(***************************************************************************)
(* Any number of blue-green updates of one service, with any number of     *)
(* faults and crashes: zero downtime without a fault, recovery from one    *)
(* fault, and what a reported success is worth after many.                 *)
(***************************************************************************)
EXTENDS BlueGreen, TLAPS

Between == pc \in {"idle", "down"}
Preparing == pc \in {"mark", "markEnv", "build", "start", "health", "switch"}
Cutover == pc \in {"switchEnv", "probe", "stopBlue", "verify"}
CutOver == pc \in {"removeBlue", "finish"}
Undoing == pc \in {"inspect", "restart", "settle"}
Up(c) == run[c] = "running"
Routed == route # None /\ Up(route)

(* Where the rows point and which containers exist, by step.  The row      *)
(* never names a container that was removed; blue is removed only once the *)
(* cutover stands, green only after the rows went back.                    *)
Shape ==
  /\ \A c \in Containers : c > n => run[c] = "absent"
  /\ target <= n /\ run[target] # "absent"
  /\ route # None => route <= n
  /\ ~Between => blue < n
  /\ Preparing => /\ target = blue /\ ~updated /\ ~switched /\ route # n
                  /\ pc \in {"mark", "markEnv", "build", "start"} => ~cleanGreen /\ run[n] = "absent"
                  /\ pc = "mark" => status = "running"
                  /\ pc \notin {"mark"} => status = "building"
                  /\ pc = "switch" => run[n] # "absent"
  /\ Cutover => /\ target = n /\ ~switched /\ status = "running" /\ run[blue] # "absent"
                /\ polled => route = n
                /\ updated = (pc # "switchEnv")
                /\ updated => envTarget = n
  /\ Cutover \/ pc \in {"health", "switch"} => cleanGreen
  /\ pc = "verify" => ~Up(blue)
  /\ CutOver => /\ target = n /\ envTarget = n /\ switched /\ updated /\ ~cleanGreen
                /\ status = "running" /\ ~Up(blue)
  /\ pc = "removeBlue" => run[blue] # "absent"
  /\ pc = "restore" => /\ target = IF updated THEN n ELSE blue
                       /\ switched => updated /\ ~cleanGreen
                       /\ ~switched => run[blue] # "absent"
  /\ Undoing => /\ target = IF switched THEN n ELSE blue
                /\ switched => updated /\ ~cleanGreen
                /\ ~switched => run[blue] # "absent"
  /\ pc = "restart" => ~serving /\ ~Up(blue)
  /\ pc = "settle" => IF serving THEN run[blue] # "absent" /\ (Up(blue) \/ blue \in died)
                                 ELSE ~Up(blue)
  /\ pc = "cleanup" /\ cleanGreen => target # n
  /\ pc \notin {"idle", "down", "cleanup"} => result = "none"
  /\ polled => route \in {None, target}

(* As long as nothing went wrong outside the code, the row and the route   *)
(* are on running containers, and all of them are known to this update.    *)
Calm ==
  faults = 0 =>
    /\ status \in {"running", "building"}
    /\ Up(target) /\ Routed
    /\ polled => route = target
    /\ Preparing \/ pc = "restore" \/ Undoing => polled /\ target = blue /\ ~switched
    /\ pc = "restore" => ~updated
    /\ pc # "restart"
    /\ pc = "settle" => serving
    /\ pc = "switch" => Up(n)
    /\ pc \in {"switchEnv", "probe"} => Up(blue) /\ Up(n)
    /\ pc \in {"stopBlue", "verify"} \/ CutOver => polled
    /\ pc = "cleanup" /\ cleanGreen => polled
    /\ ~Between => \A c \in Containers : Up(c) => c \in {0, blue, n}

(* The route of an update that was seen to work without blue.              *)
Routes == route = n \/ Leftover
Succeeds ==
  /\ CutOver => Routes
  /\ pc \in {"cleanup", "idle", "down"} /\ result = "success" =>
       target = n /\ envTarget = n /\ status = "running" /\ Routes
       /\ (pc = "cleanup" => ~cleanGreen)

(* What a failed update leaves after at most one fault.                    *)
Fails ==
  faults <= 1 =>
    /\ (pc = "restore" \/ Undoing) /\ switched => Up(n)
    /\ pc = "settle" /\ ~serving /\ ~cancelled => switched
    /\ pc \in {"cleanup", "idle", "down"} /\ result = "failed" => Up(target) \/ target \in died

(* How many faults it takes, without a crash, for the route to be on a     *)
(* running container that is neither blue nor green.                       *)
Stray == Routed /\ route \notin {blue, n}
Counts ==
  crashes = 0 =>
    /\ pc # "down"
    /\ Up(0) => target = 0 \/ (pc \notin {"idle", "cleanup"} /\ blue = 0)
    /\ pc = "idle" /\ Routed /\ route # target => faults >= 2
    /\ pc \notin {"idle", "cleanup"} /\ Stray => faults >= 3
    /\ pc \in {"stopBlue", "verify"} => /\ Stray => faults >= 4
                                        /\ ~polled => faults >= 1
    /\ CutOver => route = n \/ faults >= 4
    /\ pc = "finish" => run[blue] = "absent" \/ faults >= 1
    /\ pc = "restore" \/ Undoing =>
         /\ Up(n) /\ (route = n \/ updated) => faults >= 1
         /\ switched => run[blue] = "absent" \/ faults >= 2
         /\ ~cleanGreen /\ ~switched => ~Up(n)
    /\ pc = "cleanup" /\ Routed /\ route # target =>
         faults >= IF cleanGreen /\ route = n THEN 1 ELSE 2
    /\ pc \in {"cleanup", "idle"} /\ result = "success" => route = n \/ faults >= 4

IInv == TypeOK /\ Shape /\ Calm /\ Succeeds /\ Fails /\ Counts

(* A status transition leaves a status, and the three the update relies on *)
(* are allowed.                                                            *)
LEMMA Transitions ==
  /\ \A s, t \in Statuses : Moved(s, t) \in Statuses /\ Reconciled(s, t) \in Statuses
  /\ Moved("running", "building") = "building" /\ Moved("building", "running") = "running"
  /\ Moved("running", "running") = "running"
  /\ \A s \in Statuses : Reconciled(s, "running") = "running"
  /\ {"running", "building", "stopped", "error"} \subseteq Statuses
<1>1. \A s, t \in Statuses : Moved(s, t) \in Statuses /\ Reconciled(s, t) \in Statuses
  BY DEF Moved, Reconciled
<1>2. {"running", "building", "stopped", "error"} \subseteq Statuses
  BY DEF Statuses
<1>3. "building" \in VALID_TRANSITIONS["running"] /\ "running" \in VALID_TRANSITIONS["building"]
  BY DEF VALID_TRANSITIONS
<1> QED BY <1>1, <1>2, <1>3 DEF Moved, Accepted, Reconciled, RECONCILIATION_TRANSITIONS

(* A step counts one fault or none.                                        *)
LEMMA HistoryTypes ==
  ASSUME TypeOK, Fault \/ UNCHANGED history
  PROVE  died' \subseteq Containers /\ faults' \in 0..MaxFaults /\ crashes' \in 0..MaxCrashes
<1>1. /\ died' = died /\ crashes' = crashes
      /\ faults' = faults \/ (faults < MaxFaults /\ faults' = faults + 1)
  BY DEF Fault, history
<1>2. died \subseteq Containers /\ faults \in 0..MaxFaults /\ crashes \in 0..MaxCrashes
  BY DEF TypeOK
<1> QED BY <1>1, <1>2, UpdatesAssumption

(* Every step keeps the types.                                             *)
LEMMA NextTypes ==
  ASSUME TypeOK, [Next]_vars
  PROVE  TypeOK'
<1> USE UpdatesAssumption, NoRouteAssumption, Transitions, HistoryTypes
    DEF TypeOK, PCs, Containers,
        Goto, NoFault, rows, flags, traefik
<1>1. CASE Begin
  <2>1. n' \in Containers /\ blue' \in Containers
    BY <1>1 DEF Begin
  <2>2. run' \in [Containers -> {"absent", "running", "stopped"}]
    BY <1>1 DEF Begin, Without
  <2>3. Fault \/ UNCHANGED history
    BY <1>1 DEF Begin
  <2> QED BY <1>1, <2>1, <2>2, <2>3 DEF Begin
<1>2. CASE MarkProject
  BY <1>2 DEF MarkProject
<1>3. CASE MarkEnv
  BY <1>3 DEF MarkEnv
<1>4. CASE Build
  BY <1>4 DEF Build
<1>5. CASE CancelBuild
  BY <1>5 DEF CancelBuild
<1>6. CASE StartGreen
  <2>1. run' \in [Containers -> {"absent", "running", "stopped"}]
    BY <1>6 DEF StartGreen
  <2>2. cleanGreen' \in BOOLEAN /\ pc' \in PCs
    BY <1>6 DEF StartGreen
  <2>3. UNCHANGED history
    BY <1>6 DEF StartGreen
  <2> QED BY <1>6, <2>1, <2>2, <2>3 DEF StartGreen
<1>7. CASE Health
  BY <1>7 DEF Health
<1>8. CASE SwitchProject
  <2>1. status' \in Statuses
    BY <1>8 DEF SwitchProject
  <2>2. UNCHANGED history
    BY <1>8 DEF SwitchProject
  <2> QED BY <1>8, <2>1, <2>2 DEF SwitchProject
<1>9. CASE SwitchEnv
  BY <1>9 DEF SwitchEnv
<1>10. CASE ProbeRoute
  BY <1>10 DEF ProbeRoute, Reachable
<1>11. CASE ProbeRouteFails
  BY <1>11 DEF ProbeRouteFails, Reachable, RestoreRows
<1>12. CASE StopBlue
  BY <1>12 DEF StopBlue
<1>13. CASE VerifyRoute
  BY <1>13 DEF VerifyRoute, Reachable
<1>14. CASE VerifyRouteFails
  BY <1>14 DEF VerifyRouteFails, Reachable
<1>15. CASE RemoveBlue
  BY <1>15 DEF RemoveBlue, Without
<1>16. CASE Finish
  BY <1>16 DEF Finish
<1>17. CASE FinishThrows
  BY <1>17 DEF FinishThrows
<1>18. CASE RestoreBlue
  <2>1. CASE updated /\ ~switched
    <3>1. /\ status' \in Statuses /\ envStatus' \in Statuses
          /\ target' \in Containers /\ envTarget' \in Containers
      BY <1>18, <2>1 DEF RestoreBlue, RestoreRows
    <3>2. polled' \in BOOLEAN /\ updated' \in BOOLEAN
      BY <1>18, <2>1 DEF RestoreBlue, RestoreRows
    <3>3. UNCHANGED history
      BY <1>18 DEF RestoreBlue
    <3> QED BY <1>18, <3>1, <3>2, <3>3 DEF RestoreBlue
  <2>2. CASE ~(updated /\ ~switched)
    BY <1>18, <2>2 DEF RestoreBlue
  <2> QED BY <2>1, <2>2
<1>19. CASE InspectBlue
  BY <1>19 DEF InspectBlue
<1>20. CASE RestartBlue
  <2>1. run' \in [Containers -> {"absent", "running", "stopped"}]
    BY <1>20 DEF RestartBlue
  <2>2. serving' \in BOOLEAN
    BY <1>20 DEF RestartBlue
  <2>3. Fault \/ UNCHANGED history
    BY <1>20 DEF RestartBlue
  <2> QED BY <1>20, <2>1, <2>2, <2>3 DEF RestartBlue
<1>21. CASE Settle
  BY <1>21 DEF Settle, RestoreRows
<1>22. CASE Cleanup
  BY <1>22 DEF Cleanup, Without
<1>23. CASE Poll
  BY <1>23 DEF Poll
<1>24. ASSUME NEW c \in Containers, Die(c) PROVE TypeOK'
  BY <1>24 DEF Die
<1>25. CASE Crash
  BY <1>25 DEF Crash
<1>26. CASE Restart
  BY <1>26 DEF Restart
<1>27. CASE UNCHANGED vars
  BY <1>27 DEF vars
<1> HIDE
    DEF TypeOK, PCs, Containers,
        Goto, NoFault, rows, flags, traefik
<1> QED
  BY <1>1, <1>2, <1>3, <1>4, <1>5, <1>6, <1>7, <1>8, <1>9, <1>10, <1>11, <1>12,
     <1>13, <1>14, <1>15, <1>16, <1>17, <1>18, <1>19, <1>20, <1>21, <1>22,
     <1>23, <1>24, <1>25, <1>26, <1>27
  DEF Next, Promote, Recover

(* Every step keeps the rows on containers that exist.                     *)
LEMMA NextShape ==
  ASSUME TypeOK, Shape, [Next]_vars
  PROVE  Shape'
<1> USE UpdatesAssumption, NoRouteAssumption, Transitions
    DEF TypeOK, Shape, Containers, Between, Preparing, Cutover, CutOver,
        Undoing, Up, Routed,
        Goto, NoFault, Fault, rows, flags, traefik, history
<1>1. CASE Begin
  BY <1>1 DEF Begin, Without, StaleGreens
<1>2. CASE MarkProject
  BY <1>2 DEF MarkProject
<1>3. CASE MarkEnv
  BY <1>3 DEF MarkEnv
<1>4. CASE Build
  BY <1>4 DEF Build
<1>5. CASE CancelBuild
  BY <1>5 DEF CancelBuild
<1>6. CASE StartGreen
  BY <1>6 DEF StartGreen
<1>7. CASE Health
  BY <1>7 DEF Health
<1>8. CASE SwitchProject
  BY <1>8 DEF SwitchProject
<1>9. CASE SwitchEnv
  BY <1>9 DEF SwitchEnv
<1>10. CASE ProbeRoute
  BY <1>10 DEF ProbeRoute, Reachable
<1>11. CASE ProbeRouteFails
  BY <1>11 DEF ProbeRouteFails, Reachable, RestoreRows
<1>12. CASE StopBlue
  BY <1>12 DEF StopBlue
<1>13. CASE VerifyRoute
  BY <1>13 DEF VerifyRoute, Reachable
<1>14. CASE VerifyRouteFails
  BY <1>14 DEF VerifyRouteFails, Reachable
<1>15. CASE RemoveBlue
  BY <1>15 DEF RemoveBlue, Without
<1>16. CASE Finish
  BY <1>16 DEF Finish
<1>17. CASE FinishThrows
  BY <1>17 DEF FinishThrows
<1>18. CASE RestoreBlue
  BY <1>18 DEF RestoreBlue, RestoreRows
<1>19. CASE InspectBlue
  BY <1>19 DEF InspectBlue
<1>20. CASE RestartBlue
  BY <1>20 DEF RestartBlue
<1>21. CASE Settle
  BY <1>21 DEF Settle, RestoreRows
<1>22. CASE Cleanup
  BY <1>22 DEF Cleanup, Without
<1>23. CASE Poll
  BY <1>23 DEF Poll
<1>24. ASSUME NEW c \in Containers, Die(c) PROVE Shape'
  BY <1>24 DEF Die
<1>25. CASE Crash
  BY <1>25 DEF Crash
<1>26. CASE Restart
  BY <1>26 DEF Restart
<1>27. CASE UNCHANGED vars
  BY <1>27 DEF vars
<1> HIDE
    DEF TypeOK, Shape, Containers, Between, Preparing, Cutover, CutOver,
        Undoing, Up, Routed,
        Goto, NoFault, Fault, rows, flags, traefik, history
<1> QED
  BY <1>1, <1>2, <1>3, <1>4, <1>5, <1>6, <1>7, <1>8, <1>9, <1>10, <1>11, <1>12,
     <1>13, <1>14, <1>15, <1>16, <1>17, <1>18, <1>19, <1>20, <1>21, <1>22,
     <1>23, <1>24, <1>25, <1>26, <1>27
  DEF Next, Promote, Recover

(* Every step that is no fault keeps the service up.                       *)
LEMMA NextCalm ==
  ASSUME TypeOK, Shape, Calm, [Next]_vars
  PROVE  Calm'
<1> USE UpdatesAssumption, NoRouteAssumption, Transitions
    DEF TypeOK, Shape, Calm, Containers, Between, Preparing, Cutover, CutOver,
        Undoing, Up, Routed,
        Goto, NoFault, Fault, rows, flags, traefik, history
<1>1. CASE Begin
  BY <1>1 DEF Begin, Without, StaleGreens
<1>2. CASE MarkProject
  BY <1>2 DEF MarkProject
<1>3. CASE MarkEnv
  BY <1>3 DEF MarkEnv
<1>4. CASE Build
  BY <1>4 DEF Build
<1>5. CASE CancelBuild
  BY <1>5 DEF CancelBuild
<1>6. CASE StartGreen
  BY <1>6 DEF StartGreen
<1>7. CASE Health
  BY <1>7 DEF Health
<1>8. CASE SwitchProject
  BY <1>8 DEF SwitchProject
<1>9. CASE SwitchEnv
  BY <1>9 DEF SwitchEnv
<1>10. CASE ProbeRoute
  BY <1>10 DEF ProbeRoute, Reachable
<1>11. CASE ProbeRouteFails
  BY <1>11 DEF ProbeRouteFails, Reachable, RestoreRows
<1>12. CASE StopBlue
  BY <1>12 DEF StopBlue
<1>13. CASE VerifyRoute
  BY <1>13 DEF VerifyRoute, Reachable
<1>14. CASE VerifyRouteFails
  BY <1>14 DEF VerifyRouteFails, Reachable
<1>15. CASE RemoveBlue
  BY <1>15 DEF RemoveBlue, Without
<1>16. CASE Finish
  BY <1>16 DEF Finish
<1>17. CASE FinishThrows
  BY <1>17 DEF FinishThrows
<1>18. CASE RestoreBlue
  BY <1>18 DEF RestoreBlue, RestoreRows
<1>19. CASE InspectBlue
  BY <1>19 DEF InspectBlue
<1>20. CASE RestartBlue
  BY <1>20 DEF RestartBlue
<1>21. CASE Settle
  BY <1>21 DEF Settle, RestoreRows
<1>22. CASE Cleanup
  BY <1>22 DEF Cleanup, Without
<1>23. CASE Poll
  BY <1>23 DEF Poll
<1>24. ASSUME NEW c \in Containers, Die(c) PROVE Calm'
  BY <1>24 DEF Die
<1>25. CASE Crash
  BY <1>25 DEF Crash
<1>26. CASE Restart
  BY <1>26 DEF Restart
<1>27. CASE UNCHANGED vars
  BY <1>27 DEF vars
<1> HIDE
    DEF TypeOK, Shape, Calm, Containers, Between, Preparing, Cutover, CutOver,
        Undoing, Up, Routed,
        Goto, NoFault, Fault, rows, flags, traefik, history
<1> QED
  BY <1>1, <1>2, <1>3, <1>4, <1>5, <1>6, <1>7, <1>8, <1>9, <1>10, <1>11, <1>12,
     <1>13, <1>14, <1>15, <1>16, <1>17, <1>18, <1>19, <1>20, <1>21, <1>22,
     <1>23, <1>24, <1>25, <1>26, <1>27
  DEF Next, Promote, Recover

(* Every step keeps the route off blue once the cutover stands.            *)
LEMMA NextSucceeds ==
  ASSUME TypeOK, Shape, Succeeds, [Next]_vars
  PROVE  Succeeds'
<1> USE UpdatesAssumption, NoRouteAssumption, Transitions
    DEF TypeOK, Shape, Succeeds, Routes, Leftover, Containers, Between,
        Preparing, Cutover, CutOver, Undoing, Up, Routed,
        Goto, NoFault, Fault, rows, flags, traefik, history
<1>1. CASE Begin
  BY <1>1 DEF Begin, Without, StaleGreens
<1>2. CASE MarkProject
  BY <1>2 DEF MarkProject
<1>3. CASE MarkEnv
  BY <1>3 DEF MarkEnv
<1>4. CASE Build
  BY <1>4 DEF Build
<1>5. CASE CancelBuild
  BY <1>5 DEF CancelBuild
<1>6. CASE StartGreen
  BY <1>6 DEF StartGreen
<1>7. CASE Health
  BY <1>7 DEF Health
<1>8. CASE SwitchProject
  BY <1>8 DEF SwitchProject
<1>9. CASE SwitchEnv
  BY <1>9 DEF SwitchEnv
<1>10. CASE ProbeRoute
  BY <1>10 DEF ProbeRoute, Reachable
<1>11. CASE ProbeRouteFails
  BY <1>11 DEF ProbeRouteFails, Reachable, RestoreRows
<1>12. CASE StopBlue
  BY <1>12 DEF StopBlue
<1>13. CASE VerifyRoute
  BY <1>13 DEF VerifyRoute, Reachable
<1>14. CASE VerifyRouteFails
  BY <1>14 DEF VerifyRouteFails, Reachable
<1>15. CASE RemoveBlue
  BY <1>15 DEF RemoveBlue, Without
<1>16. CASE Finish
  BY <1>16 DEF Finish
<1>17. CASE FinishThrows
  BY <1>17 DEF FinishThrows
<1>18. CASE RestoreBlue
  BY <1>18 DEF RestoreBlue, RestoreRows
<1>19. CASE InspectBlue
  BY <1>19 DEF InspectBlue
<1>20. CASE RestartBlue
  BY <1>20 DEF RestartBlue
<1>21. CASE Settle
  BY <1>21 DEF Settle, RestoreRows
<1>22. CASE Cleanup
  BY <1>22 DEF Cleanup, Without
<1>23. CASE Poll
  BY <1>23 DEF Poll
<1>24. ASSUME NEW c \in Containers, Die(c) PROVE Succeeds'
  BY <1>24 DEF Die
<1>25. CASE Crash
  BY <1>25 DEF Crash
<1>26. CASE Restart
  BY <1>26 DEF Restart
<1>27. CASE UNCHANGED vars
  BY <1>27 DEF vars
<1> HIDE
    DEF TypeOK, Shape, Succeeds, Routes, Leftover, Containers, Between,
        Preparing, Cutover, CutOver, Undoing, Up, Routed,
        Goto, NoFault, Fault, rows, flags, traefik, history
<1> QED
  BY <1>1, <1>2, <1>3, <1>4, <1>5, <1>6, <1>7, <1>8, <1>9, <1>10, <1>11, <1>12,
     <1>13, <1>14, <1>15, <1>16, <1>17, <1>18, <1>19, <1>20, <1>21, <1>22,
     <1>23, <1>24, <1>25, <1>26, <1>27
  DEF Next, Promote, Recover

(* Every step keeps what one fault can spoil within bounds.                *)
LEMMA NextFails ==
  ASSUME TypeOK, Shape, Calm, Fails, [Next]_vars
  PROVE  Fails'
<1> USE UpdatesAssumption, NoRouteAssumption, Transitions
    DEF TypeOK, Shape, Calm, Fails, Containers, Between, Preparing, Cutover,
        CutOver, Undoing, Up, Routed,
        Goto, NoFault, Fault, rows, flags, traefik, history
<1>1. CASE Begin
  BY <1>1 DEF Begin, Without, StaleGreens
<1>2. CASE MarkProject
  BY <1>2 DEF MarkProject
<1>3. CASE MarkEnv
  BY <1>3 DEF MarkEnv
<1>4. CASE Build
  BY <1>4 DEF Build
<1>5. CASE CancelBuild
  BY <1>5 DEF CancelBuild
<1>6. CASE StartGreen
  BY <1>6 DEF StartGreen
<1>7. CASE Health
  BY <1>7 DEF Health
<1>8. CASE SwitchProject
  BY <1>8 DEF SwitchProject
<1>9. CASE SwitchEnv
  BY <1>9 DEF SwitchEnv
<1>10. CASE ProbeRoute
  BY <1>10 DEF ProbeRoute, Reachable
<1>11. CASE ProbeRouteFails
  BY <1>11 DEF ProbeRouteFails, Reachable, RestoreRows
<1>12. CASE StopBlue
  BY <1>12 DEF StopBlue
<1>13. CASE VerifyRoute
  BY <1>13 DEF VerifyRoute, Reachable
<1>14. CASE VerifyRouteFails
  BY <1>14 DEF VerifyRouteFails, Reachable
<1>15. CASE RemoveBlue
  BY <1>15 DEF RemoveBlue, Without
<1>16. CASE Finish
  BY <1>16 DEF Finish
<1>17. CASE FinishThrows
  BY <1>17 DEF FinishThrows
<1>18. CASE RestoreBlue
  BY <1>18 DEF RestoreBlue, RestoreRows
<1>19. CASE InspectBlue
  BY <1>19 DEF InspectBlue
<1>20. CASE RestartBlue
  BY <1>20 DEF RestartBlue
<1>21. CASE Settle
  BY <1>21 DEF Settle, RestoreRows
<1>22. CASE Cleanup
  BY <1>22 DEF Cleanup, Without
<1>23. CASE Poll
  BY <1>23 DEF Poll
<1>24. ASSUME NEW c \in Containers, Die(c) PROVE Fails'
  BY <1>24 DEF Die
<1>25. CASE Crash
  BY <1>25 DEF Crash
<1>26. CASE Restart
  BY <1>26 DEF Restart
<1>27. CASE UNCHANGED vars
  BY <1>27 DEF vars
<1> HIDE
    DEF TypeOK, Shape, Calm, Fails, Containers, Between, Preparing, Cutover,
        CutOver, Undoing, Up, Routed,
        Goto, NoFault, Fault, rows, flags, traefik, history
<1> QED
  BY <1>1, <1>2, <1>3, <1>4, <1>5, <1>6, <1>7, <1>8, <1>9, <1>10, <1>11, <1>12,
     <1>13, <1>14, <1>15, <1>16, <1>17, <1>18, <1>19, <1>20, <1>21, <1>22,
     <1>23, <1>24, <1>25, <1>26, <1>27
  DEF Next, Promote, Recover

(* Every step keeps the count of the faults behind a stray route.          *)
LEMMA NextCounts ==
  ASSUME TypeOK, Shape, Succeeds, Counts, [Next]_vars
  PROVE  Counts'
<1> USE UpdatesAssumption, NoRouteAssumption, Transitions
    DEF TypeOK, Shape, Succeeds, Counts, Stray, Containers, Between, Preparing,
        Cutover, CutOver, Undoing, Up, Routed,
        Goto, NoFault, Fault, rows, flags, traefik, history
<1>1. CASE Begin
  BY <1>1 DEF Begin, Without, StaleGreens
<1>2. CASE MarkProject
  BY <1>2 DEF MarkProject
<1>3. CASE MarkEnv
  BY <1>3 DEF MarkEnv
<1>4. CASE Build
  BY <1>4 DEF Build
<1>5. CASE CancelBuild
  BY <1>5 DEF CancelBuild
<1>6. CASE StartGreen
  BY <1>6 DEF StartGreen
<1>7. CASE Health
  BY <1>7 DEF Health
<1>8. CASE SwitchProject
  BY <1>8 DEF SwitchProject
<1>9. CASE SwitchEnv
  BY <1>9 DEF SwitchEnv
<1>10. CASE ProbeRoute
  BY <1>10 DEF ProbeRoute, Reachable
<1>11. CASE ProbeRouteFails
  BY <1>11 DEF ProbeRouteFails, Reachable, RestoreRows
<1>12. CASE StopBlue
  BY <1>12 DEF StopBlue
<1>13. CASE VerifyRoute
  BY <1>13 DEF VerifyRoute, Reachable
<1>14. CASE VerifyRouteFails
  BY <1>14 DEF VerifyRouteFails, Reachable
<1>15. CASE RemoveBlue
  BY <1>15 DEF RemoveBlue, Without
<1>16. CASE Finish
  BY <1>16 DEF Finish
<1>17. CASE FinishThrows
  BY <1>17 DEF FinishThrows
<1>18. CASE RestoreBlue
  BY <1>18 DEF RestoreBlue, RestoreRows
<1>19. CASE InspectBlue
  BY <1>19 DEF InspectBlue
<1>20. CASE RestartBlue
  BY <1>20 DEF RestartBlue
<1>21. CASE Settle
  BY <1>21 DEF Settle, RestoreRows
<1>22. CASE Cleanup
  BY <1>22 DEF Cleanup, Without
<1>23. CASE Poll
  <2>1. ~Between /\ pc # "cleanup" => target \in {blue, n}
    BY DEF PCs
  <2> QED BY <1>23, <2>1 DEF Poll
<1>24. ASSUME NEW c \in Containers, Die(c) PROVE Counts'
  BY <1>24 DEF Die
<1>25. CASE Crash
  BY <1>25 DEF Crash
<1>26. CASE Restart
  BY <1>26 DEF Restart
<1>27. CASE UNCHANGED vars
  BY <1>27 DEF vars
<1> HIDE
    DEF TypeOK, Shape, Succeeds, Counts, Stray, Containers, Between, Preparing,
        Cutover, CutOver, Undoing, Up, Routed,
        Goto, NoFault, Fault, rows, flags, traefik, history
<1> QED
  BY <1>1, <1>2, <1>3, <1>4, <1>5, <1>6, <1>7, <1>8, <1>9, <1>10, <1>11, <1>12,
     <1>13, <1>14, <1>15, <1>16, <1>17, <1>18, <1>19, <1>20, <1>21, <1>22,
     <1>23, <1>24, <1>25, <1>26, <1>27
  DEF Next, Promote, Recover

(* The first state: container 0 serves and no update has run.              *)
LEMMA InitInv == Init => IInv
<1> SUFFICES ASSUME Init PROVE IInv OBVIOUS
<1> USE UpdatesAssumption, NoRouteAssumption DEF Init, Containers
<1>1. TypeOK
  <2>1. "running" \in Statuses /\ "idle" \in PCs
    BY DEF Statuses, PCs
  <2>2. 0 \in Containers /\ died \subseteq Containers
    OBVIOUS
  <2>3. run \in [Containers -> {"absent", "running", "stopped"}]
    OBVIOUS
  <2>4. faults \in 0..MaxFaults /\ crashes \in 0..MaxCrashes
    OBVIOUS
  <2> HIDE DEF Containers
  <2> QED BY <2>1, <2>2, <2>3, <2>4 DEF TypeOK
<1>2. Shape /\ Calm
  BY DEF Shape, Calm, Between, Preparing, Cutover, CutOver, Undoing, Up, Routed
<1>3. Succeeds /\ Fails
  BY DEF Succeeds, Fails, CutOver, Undoing
<1>4. Counts
  BY DEF Counts, Stray, CutOver, Undoing, Routed, Up
<1> QED BY <1>1, <1>2, <1>3, <1>4 DEF IInv

(* IInv is an inductive invariant.                                         *)
LEMMA IInvInvariant == Spec => []IInv
<1>1. IInv /\ [Next]_vars => IInv'
  BY NextTypes, NextShape, NextCalm, NextSucceeds, NextFails, NextCounts DEF IInv
<1> QED BY <1>1, InitInv, PTL DEF Spec

(* The rows, containers, flags and counters of blueGreenRedeployInner keep *)
(* their types.                                                            *)
THEOREM UpdateTypes == Spec => []TypeOK
BY IInvInvariant, PTL DEF IInv

(* Zero downtime: without a fault outside the code the route is always on  *)
(* a running container, for any number of updates and crashes.             *)
THEOREM ZeroDowntime == Spec => []NoDowntime
<1>1. IInv => NoDowntime
  BY DEF IInv, Calm, Routed, Up, NoDowntime, Reachable
<1> QED BY <1>1, IInvInvariant, PTL

(* After a failed update with at most one fault the row names a container  *)
(* that runs, or the one that died by itself.                              *)
THEOREM SingleFaultSurvived == Spec => []OneFaultIsSurvived
<1>1. IInv => OneFaultIsSurvived
  BY DEF IInv, Fails, Up, OneFaultIsSurvived
<1> QED BY <1>1, IInvInvariant, PTL

(* A promotion that reports success has the rows on green and the route    *)
(* on green or, after a crash or four faults, on a leftover that answered  *)
(* in its place, never on blue; and without faults no green of an earlier  *)
(* update runs beside it.                                                  *)
THEOREM GreenHasTakenOver == Spec => []GreenTakesOver
<1>1. IInv => SuccessIsRouted
  BY DEF IInv, TypeOK, Succeeds, Counts, Routes, SuccessIsRouted
<1>2. IInv => NoStaleGreen
  BY DEF IInv, Calm, Between, Up, NoStaleGreen
<1> QED BY <1>1, <1>2, IInvInvariant, PTL DEF GreenTakesOver

==============================================================================
