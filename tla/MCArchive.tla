----------------------------- MODULE MCArchive -----------------------------
(* A group of two: a Compose stack with one stateful resource, whose row   *)
(* is the group's, and a service without children.                         *)
EXTENDS Archive, TLC

CONSTANTS web, db, api, a, b

TwoDeployables == {web, api}
OneStack == web :> {db} @@ api :> {}
OneResource == {db}
TwoClients == {a, b}
Symmetric == Permutations(TwoClients)
=============================================================================
