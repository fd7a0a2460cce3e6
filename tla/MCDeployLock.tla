---------------------------- MODULE MCDeployLock ----------------------------
(* An instance of DeployLock.  Projects are 1 and 2, 2 a compose child of  *)
(* 1.                                                                      *)
EXTENDS DeployLock, TLC

CONSTANTS archive,     \* an archive of 1 and its child 2
          redeploy,    \* a tool that re-enters the lock of 1
          background   \* a fire-and-forget deploy without _lockSessionId

MCProjects == {1, 2}

(* An archive of both projects, a tool that re-enters the lock of 1, and a *)
(* background deploy of 2: only project 2 is exposed to sessionless events. *)
MCCallers == {background, archive, redeploy}
MCRoute ==
    (background :> <<2>>) @@ (archive :> <<1, 2>>) @@ (redeploy :> <<1, 1>>)
MCScoped == {background, redeploy}
MCSessionless == {background}
=============================================================================
