----------------------------- MODULE MCBlueGreen -----------------------------
(* Instances of BlueGreen are numbers: see the configurations.             *)
EXTENDS BlueGreen
==============================================================================
