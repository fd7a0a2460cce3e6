---------------------------- MODULE MCPlanEngine ----------------------------
(* A tool that approves nothing and a direct call that approves all.       *)
EXTENDS PlanEngine

CONSTANTS tool, direct, res

PairExecutors == {tool, direct}
OneTool == {tool}
PairApprovers == {direct}
OneResource == {res}
=============================================================================
