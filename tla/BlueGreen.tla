------------------------------ MODULE BlueGreen ------------------------------
(***************************************************************************)
(* blueGreenRedeployInner of pipeline/deploy-core.ts: successive blue-green *)
(* updates of one service, run under its deploy lock, and the managed      *)
(* Traefik that polls the rows for its routes.                             *)
(*                                                                         *)
(* Container 0 served before the first update; update k starts container   *)
(* k as its green.  A fault is a thing that goes wrong outside the code: a *)
(* container that dies, a Docker call that fails, a probe that fails       *)
(* although the container runs, a poll of Traefik that is late, a write    *)
(* after the cutover that fails.  Failed builds, failed health checks and  *)
(* cancelled builds are no faults: they happen at any time.                *)
(***************************************************************************)
EXTENDS Integers, FiniteSets, ProjectStatus

CONSTANTS MaxUpdates,  \* bound on the number of updates
          MaxFaults,   \* bound on faults
          MaxCrashes,  \* bound on crashes of the server process
          None         \* Traefik has no route

ASSUME UpdatesAssumption == MaxUpdates \in Nat /\ MaxFaults \in Nat /\ MaxCrashes \in Nat
ASSUME NoRouteAssumption == None \notin Nat

VARIABLES
    run,        \* what Docker has of every container
    status,     \* status of the project row
    target,     \* container_id of the project row
    envStatus,  \* status of the production environment row
    envTarget,  \* container_id of the production environment row
    route,      \* the container Traefik sends requests to
    polled,     \* Traefik has polled since the row last changed its container
    n,          \* the current update, and its green container
    pc,         \* its next step
    blue,       \* blueState.containerId
    updated,    \* routeTargetUpdated
    switched,   \* routeSwitched
    cleanGreen, \* shouldCleanupGreen
    cancelled,  \* the build was cancelled
    serving,    \* blueStillServing
    result,     \* how the last update ended
    died,       \* containers that died by themselves (history)
    faults,     \* number of faults so far (history)
    crashes     \* number of crashes so far

rows == <<status, target, envStatus, envTarget>>
flags == <<updated, switched, cleanGreen, cancelled, serving>>
traefik == <<route, polled>>
history == <<died, faults, crashes>>
vars == <<run, rows, traefik, n, pc, blue, flags, result, history>>

Containers == 0..MaxUpdates
PCs == {"idle", "down", "mark", "markEnv", "build", "start", "health", "switch",
        "switchEnv", "probe", "stopBlue", "verify", "removeBlue", "finish",
        "restore", "inspect", "restart", "settle", "cleanup"}

TypeOK ==
    /\ run \in [Containers -> {"absent", "running", "stopped"}]
    /\ status \in Statuses /\ envStatus \in Statuses
    /\ target \in Containers /\ envTarget \in Containers /\ blue \in Containers
    /\ route \in Containers \cup {None}
    /\ polled \in BOOLEAN
    /\ n \in Containers
    /\ pc \in PCs
    /\ updated \in BOOLEAN /\ switched \in BOOLEAN /\ cleanGreen \in BOOLEAN
    /\ cancelled \in BOOLEAN /\ serving \in BOOLEAN
    /\ result \in {"none", "success", "failed", "cancelled", "crashed"}
    /\ died \subseteq Containers
    /\ faults \in 0..MaxFaults /\ crashes \in 0..MaxCrashes

Init ==
    /\ run = [c \in Containers |-> IF c = 0 THEN "running" ELSE "absent"]
    /\ status = "running" /\ target = 0
    /\ envStatus = "running" /\ envTarget = 0
    /\ route = 0 /\ polled = TRUE
    /\ n = 0 /\ pc = "idle" /\ blue = 0
    /\ updated = FALSE /\ switched = FALSE /\ cleanGreen = FALSE
    /\ cancelled = FALSE /\ serving = FALSE
    /\ result = "none"
    /\ died = {} /\ faults = 0 /\ crashes = 0

-----------------------------------------------------------------------------
Goto(l) == pc' = l
NoFault == UNCHANGED history
Fault == faults < MaxFaults /\ faults' = faults + 1 /\ UNCHANGED <<died, crashes>>

(* Mutant: containers of earlier updates are left alone.                   *)
NoStaleGreens(active) == {}

(* The containers cleanupStaleGreenContainers finds: those started as a    *)
(* green, but for the one that serves.                                     *)
StaleGreens(active) == {c \in Containers \ {0, active} : run[c] # "absent"}

Without(cs) == [c \in Containers |-> IF c \in cs THEN "absent" ELSE run[c]]

(* Eligibility needs a running row with a container.  Errors of Docker in  *)
(* the removal of stale greens are logged and swallowed.  It is a fault if *)
(* Traefik has not polled since the previous update.                       *)
Begin ==
    /\ pc = "idle" /\ n < MaxUpdates /\ status = "running"
    /\ n' = n + 1
    /\ blue' = target
    /\ \/ run' = Without(StaleGreens(target)) /\ IF polled THEN NoFault ELSE Fault
       \/ run' = run /\ StaleGreens(target) # {} /\ Fault
    /\ updated' = FALSE /\ switched' = FALSE /\ cleanGreen' = FALSE
    /\ cancelled' = FALSE /\ serving' = FALSE
    /\ result' = "none"
    /\ Goto("mark")
    /\ UNCHANGED <<rows, traefik>>

MarkProject ==
    /\ pc = "mark"
    /\ status' = Moved(status, "building")
    /\ Goto("markEnv")
    /\ UNCHANGED <<run, target, envStatus, envTarget, traefik, n, blue, flags,
                   result, history>>

MarkEnv ==
    /\ pc = "markEnv"
    /\ envStatus' = "building"
    /\ Goto("build")
    /\ UNCHANGED <<run, status, target, envTarget, traefik, n, blue, flags,
                   result, history>>

(* Network preflight, pull or clone and build, and the port and network of *)
(* green: any of it may fail.                                              *)
Build ==
    /\ pc = "build"
    /\ pc' \in {"start", "restore"}
    /\ UNCHANGED <<run, rows, traefik, n, blue, flags, result, history>>

CancelBuild ==
    /\ pc = "build"
    /\ cancelled' = TRUE
    /\ Goto("restore")
    /\ UNCHANGED <<run, rows, traefik, n, blue, updated, switched, cleanGreen,
                   serving, result, history>>

StartGreen ==
    /\ pc = "start"
    /\ \/ /\ run' = [run EXCEPT ![n] = "running"]
          /\ cleanGreen' = TRUE
          /\ Goto("health")
       \/ /\ Goto("restore")
          /\ UNCHANGED <<run, cleanGreen>>
    /\ UNCHANGED <<rows, traefik, n, blue, updated, switched, cancelled, serving,
                   result, history>>

(* The health probe, the stability window and the move of the aliases.     *)
Health ==
    /\ pc = "health"
    /\ \/ run[n] = "running" /\ Goto("switch")
       \/ Goto("restore")
    /\ UNCHANGED <<run, rows, traefik, n, blue, flags, result, history>>

SwitchProject ==
    /\ pc = "switch"
    /\ status' = Moved(status, "running") /\ target' = n
    /\ polled' = FALSE
    /\ Goto("switchEnv")
    /\ UNCHANGED <<run, envStatus, envTarget, route, n, blue, flags, result, history>>

SwitchEnv ==
    /\ pc = "switchEnv"
    /\ envStatus' = "running" /\ envTarget' = n
    /\ updated' = TRUE
    /\ Goto("probe")
    /\ UNCHANGED <<run, status, target, traefik, n, blue, switched, cleanGreen,
                   cancelled, serving, result, history>>

Reachable == route # None /\ run[route] = "running"

(* restoreBlueState.                                                       *)
RestoreRows ==
    /\ status' = Moved(status, "running") /\ target' = blue
    /\ envStatus' = "running" /\ envTarget' = blue
    /\ polled' = (polled /\ target = blue)

(* Mutant: the first 2xx counts, also from the old route.                  *)
ProbeRouteEarly ==
    /\ pc = "probe" /\ Reachable
    /\ NoFault
    /\ Goto("stopBlue")
    /\ UNCHANGED <<run, rows, traefik, n, blue, flags, result>>

(* waitForManagedTraefikRoute with minimumSuccessAgeMs of a poll interval: *)
(* a probe that succeeds before Traefik has polled does not count, unless  *)
(* the poll is late.                                                       *)
ProbeRoute ==
    /\ pc = "probe" /\ Reachable
    /\ IF polled THEN NoFault ELSE Fault
    /\ Goto("stopBlue")
    /\ UNCHANGED <<run, rows, traefik, n, blue, flags, result>>

ProbeRouteFails ==
    /\ pc = "probe"
    /\ IF Reachable THEN Fault ELSE NoFault
    /\ RestoreRows
    /\ updated' = FALSE
    /\ Goto("restore")
    /\ UNCHANGED <<run, route, n, blue, switched, cleanGreen, cancelled, serving,
                   result>>

StopBlue ==
    /\ pc = "stopBlue"
    /\ \/ /\ run' = [run EXCEPT ![blue] = IF @ = "running" THEN "stopped" ELSE @]
          /\ Goto("verify")
          /\ NoFault
       \/ /\ Goto("restore")
          /\ Fault
          /\ UNCHANGED run
    /\ UNCHANGED <<rows, traefik, n, blue, flags, result>>

(* Mutant: no second probe.                                                *)
VerifyNothing ==
    /\ pc = "verify"
    /\ switched' = TRUE /\ cleanGreen' = FALSE
    /\ Goto("removeBlue")
    /\ UNCHANGED <<run, rows, traefik, n, blue, updated, cancelled, serving, result,
                   history>>

(* The second probe takes the first answer.                                *)
VerifyRoute ==
    /\ pc = "verify" /\ Reachable
    /\ switched' = TRUE /\ cleanGreen' = FALSE
    /\ Goto("removeBlue")
    /\ UNCHANGED <<run, rows, traefik, n, blue, updated, cancelled, serving, result,
                   history>>

VerifyRouteFails ==
    /\ pc = "verify"
    /\ IF Reachable THEN Fault ELSE NoFault
    /\ Goto("restore")
    /\ UNCHANGED <<run, rows, traefik, n, blue, flags, result>>

RemoveBlue ==
    /\ pc = "removeBlue"
    /\ \/ run' = Without({blue}) /\ NoFault
       \/ run' = run /\ Fault
    /\ Goto("finish")
    /\ UNCHANGED <<rows, traefik, n, blue, flags, result>>

(* The deploy log, the git credential of the service and deploy:success.   *)
Finish ==
    /\ pc = "finish"
    /\ result' = "success"
    /\ Goto("cleanup")
    /\ UNCHANGED <<run, rows, traefik, n, blue, flags, history>>

FinishThrows ==
    /\ pc = "finish"
    /\ Fault
    /\ Goto("restore")
    /\ UNCHANGED <<run, rows, traefik, n, blue, flags, result>>

-----------------------------------------------------------------------------
(* The catch block.                                                        *)

RestoreBlue ==
    /\ pc = "restore"
    /\ IF updated /\ ~switched
       THEN RestoreRows /\ updated' = FALSE
       ELSE UNCHANGED <<rows, polled, updated>>
    /\ Goto("inspect")
    /\ UNCHANGED <<run, route, n, blue, switched, cleanGreen, cancelled, serving,
                   result, history>>

(* Mutant: a stopped blue is not started again.                            *)
InspectOnly ==
    /\ pc = "inspect"
    /\ serving' = (run[blue] = "running")
    /\ Goto("settle")
    /\ UNCHANGED <<run, rows, traefik, n, blue, updated, switched, cleanGreen,
                   cancelled, result, history>>

InspectBlue ==
    /\ pc = "inspect"
    /\ serving' = (run[blue] = "running")
    /\ Goto(IF serving' \/ cancelled THEN "settle" ELSE "restart")
    /\ UNCHANGED <<run, rows, traefik, n, blue, updated, switched, cleanGreen,
                   cancelled, result, history>>

RestartBlue ==
    /\ pc = "restart"
    /\ \/ /\ run[blue] # "absent"
          /\ run' = [run EXCEPT ![blue] = "running"]
          /\ serving' = TRUE
          /\ NoFault
       \/ /\ IF run[blue] = "absent" THEN NoFault ELSE Fault
          /\ UNCHANGED <<run, serving>>
    /\ Goto("settle")
    /\ UNCHANGED <<rows, traefik, n, blue, updated, switched, cleanGreen, cancelled,
                   result>>

(* The rows go back to blue if it serves, else they say that nothing does. *)
Settle ==
    /\ pc = "settle"
    /\ IF serving
       THEN RestoreRows
       ELSE LET s == IF cancelled THEN "stopped" ELSE "error"
            IN  /\ status' = Moved(status, s) /\ envStatus' = s
                /\ UNCHANGED <<target, envTarget, polled>>
    /\ result' = IF cancelled THEN "cancelled" ELSE "failed"
    /\ Goto("cleanup")
    /\ UNCHANGED <<run, route, n, blue, flags, history>>

(* The finally block.                                                      *)
Cleanup ==
    /\ pc = "cleanup"
    /\ \/ run' = (IF cleanGreen THEN Without({n}) ELSE run) /\ NoFault
       \/ run' = run /\ cleanGreen /\ Fault
    /\ Goto("idle")
    /\ UNCHANGED <<rows, traefik, n, blue, flags, result>>

-----------------------------------------------------------------------------
(* Traefik polls its HTTP provider, which routes to the container of a row *)
(* that is running, or building with a container.                          *)
Poll ==
    /\ pc # "down"
    /\ route' = IF status \in {"running", "building"} THEN target ELSE None
    /\ polled' = TRUE
    /\ UNCHANGED <<run, rows, n, pc, blue, flags, result, history>>

Die(c) ==
    /\ run[c] = "running" /\ faults < MaxFaults
    /\ run' = [run EXCEPT ![c] = "stopped"]
    /\ died' = died \cup {c}
    /\ faults' = faults + 1
    /\ UNCHANGED <<rows, traefik, n, pc, blue, flags, result, crashes>>

Crash ==
    /\ pc # "down" /\ crashes < MaxCrashes
    /\ crashes' = crashes + 1
    /\ result' = IF pc = "idle" THEN result ELSE "crashed"
    /\ Goto("down")
    /\ UNCHANGED <<run, rows, traefik, n, blue, flags, died, faults>>

(* reconcileAll at startup.                                                *)
Restart ==
    /\ pc = "down"
    /\ status' = CASE run[target] = "running" -> Reconciled(status, "running")
                   [] run[target] = "absent" /\ status \in {"running", "building"}
                          -> Reconciled(status, "stopped")
                   [] OTHER -> status
    /\ envStatus' = IF envStatus # "building" THEN envStatus
                    ELSE IF run[envTarget] = "running" THEN "running" ELSE "stopped"
    /\ Goto("idle")
    /\ UNCHANGED <<run, target, envTarget, traefik, n, blue, flags, result, history>>

-----------------------------------------------------------------------------
Promote ==
    \/ Begin \/ MarkProject \/ MarkEnv \/ Build \/ CancelBuild \/ StartGreen
    \/ Health \/ SwitchProject \/ SwitchEnv \/ ProbeRoute \/ ProbeRouteFails
    \/ StopBlue \/ VerifyRoute \/ VerifyRouteFails \/ RemoveBlue
    \/ Finish \/ FinishThrows

Recover == RestoreBlue \/ InspectBlue \/ RestartBlue \/ Settle \/ Cleanup

Next ==
    \/ Promote \/ Recover \/ Poll
    \/ \E c \in Containers : Die(c)
    \/ Crash \/ Restart

Spec == Init /\ [][Next]_vars

-----------------------------------------------------------------------------
(* Properties.                                                             *)

(* Zero downtime: as long as nothing goes wrong outside the code, requests *)
(* reach a running container at every moment of every update, however many *)
(* builds and health checks fail and wherever the server crashes.          *)
NoDowntime == faults = 0 => Reachable

(* An update that reported success has all rows and the route on green,    *)
(* whatever went wrong on the way: blue is not given up before the public  *)
(* route is seen to work without it.  If the route is on another container *)
(* then that is no blue either, but a leftover of an earlier update that   *)
(* answered the probes: it takes a crash to leave one that is routed to,   *)
(* or four faults (the update that started it is undone after its cutover, *)
(* its removal fails, it is not found stale, and Traefik is late twice).   *)
Leftover ==
    /\ route \in Containers \ {n, blue}
    /\ run[route] = "running" \/ route \in died

SuccessIsRouted ==
    result = "success" /\ pc = "idle"
        => /\ target = n /\ envTarget = n
           /\ route = n \/ (Leftover /\ (crashes > 0 \/ faults > 3))

(* One fault is survived: after a failed update the container the row      *)
(* names runs, unless it is the one that died by itself.                   *)
OneFaultIsSurvived ==
    pc = "idle" /\ result = "failed" /\ faults <= 1
        => run[target] = "running" \/ target \in died

(* Greens that a crash left behind are gone before the next green starts:  *)
(* an update never runs beside greens of earlier updates.                  *)
NoStaleGreen ==
    faults = 0 /\ pc \notin {"idle", "down"}
        => {c \in Containers : run[c] = "running"} \subseteq {0, blue, n}

(* Green takes over alone: a successful promotion has the rows and the     *)
(* route on green, and no green of an earlier update runs beside it.       *)
GreenTakesOver == SuccessIsRouted /\ NoStaleGreen

=============================================================================
