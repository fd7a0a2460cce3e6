------------------------- MODULE MCPlatformUpdater --------------------------
(***************************************************************************)
(* PlatformUpdater on a small instance.                                    *)
(***************************************************************************)
EXTENDS PlatformUpdater, TLC
=============================================================================
