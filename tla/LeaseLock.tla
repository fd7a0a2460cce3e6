----------------------------- MODULE LeaseLock ------------------------------
(***************************************************************************)
(* What the deploy lock promises, without rows, timestamps, sweeps, frames *)
(* or listeners: at any time a resource has the clients that may rely on   *)
(* it.  A client comes to rely on a resource alone; and clients stop       *)
(* relying on resources at any time and several at once (they finish,      *)
(* their lease ends, the process dies).  Nobody is ever handed a resource  *)
(* that someone else still relies on.                                      *)
(***************************************************************************)
CONSTANTS Resources, Clients

VARIABLE reliers      \* the clients that rely on each resource

Init == reliers = [r \in Resources |-> {}]

Acquire(r, c) ==
    /\ reliers[r] \subseteq {c}
    /\ reliers' = [reliers EXCEPT ![r] = {c}]

Lose ==
    /\ reliers' \in [Resources -> SUBSET Clients]
    /\ \A r \in Resources : reliers'[r] \subseteq reliers[r]

Next == Lose \/ \E r \in Resources, c \in Clients : Acquire(r, c)

Spec == Init /\ [][Next]_reliers
=============================================================================
