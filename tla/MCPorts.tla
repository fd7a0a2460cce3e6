------------------------------ MODULE MCPorts ------------------------------
(* Two services, three ports and one program that is not ours.    *)
EXTENDS Ports

CONSTANTS a, b

TwoServices == {a, b}
Range3 == 1..3
Foreign == {1}
=============================================================================
