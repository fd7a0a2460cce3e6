--------------------------- MODULE MCDeployQueue ---------------------------
(* Four agent jobs.  One of them never ends.                                *)
EXTENDS DeployQueue

CONSTANTS j1, j2, j3, j4

FourJobs == {j1, j2, j3, j4}
OneHung == {j1}
=============================================================================
