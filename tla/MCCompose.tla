------------------------------ MODULE MCCompose ------------------------------
(* A database, an independent application, a migration and the application *)
(* that waits for the migration; the file may lose the independent one.    *)
EXTENDS Compose, TLC

CONSTANTS db, api, migrate, web

Stack == {db, api, migrate, web}
StackDeps == (db :> {}) @@ (api :> {}) @@ (migrate :> {db}) @@ (web :> {db, migrate})
StackHooks == (db :> {}) @@ (api :> {}) @@ (migrate :> {}) @@ (web :> {migrate})
StackResources == {db}
StackFiles == {Stack, Stack \ {api}}
==============================================================================
