------------------------------ MODULE MCAsioRpc ------------------------------
(* Three calls, by one thread or by several.                               *)
EXTENDS AsioRpc

CONSTANTS c1, c2, c3

MCCall == {c1, c2, c3}
=============================================================================
