-------------------------- MODULE MCDeployPipeline --------------------------
(* Instances of DeployPipeline: which operations meet on one project.      *)
EXTENDS DeployPipeline, TLC

CONSTANTS s1, r1, r2, b1, h1

AnyStatus == {"running", "stopped"}

(* Two redeploys and a rollback: everything under session-scoped locks.    *)
LockedOps == {r1, r2, b1}
LockedKind == (r1 :> "redeploy") @@ (r2 :> "redeploy") @@ (b1 :> "rollback")
LockedSymmetry == Permutations({r1, r2})

(* A background deploy and a rollback, and an operator who stops the       *)
(* project meanwhile.                                                      *)
OpenOps == {s1, b1, h1}
OpenKind == (s1 :> "start") @@ (b1 :> "rollback") @@ (h1 :> "stop")
=============================================================================
