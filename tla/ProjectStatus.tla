---------------------------- MODULE ProjectStatus ----------------------------
(***************************************************************************)
(* The project state machine of monitor/project-state-manager.ts as        *)
(* operators: which status a call of transition() leaves in the row.       *)
(***************************************************************************)

Statuses == {"stopped", "building", "running", "recovering", "error"}

VALID_TRANSITIONS ==
    [stopped    |-> {"building"},
     building   |-> {"running", "error"},
     running    |-> {"recovering", "stopped", "building"},
     recovering |-> {"running", "error"},
     error      |-> {"building", "stopped", "recovering", "running"}]

RECONCILIATION_TRANSITIONS == {"running", "stopped"}

(* transition() without options: an invalid transition returns false and   *)
(* leaves the row alone, and no caller of the pipeline looks at the false. *)
Accepted(current, target) ==
    current = target \/ target \in VALID_TRANSITIONS[current]

Moved(current, target) == IF Accepted(current, target) THEN target ELSE current

(* transition() with skipEvents: running and stopped are always allowed.   *)
Reconciled(current, target) ==
    IF target \in RECONCILIATION_TRANSITIONS THEN target ELSE Moved(current, target)

(* assertProjectMutable, for a project that is neither archived nor behind *)
(* an open circuit breaker.                                                *)
Mutable(current) == current # "recovering"
==============================================================================
