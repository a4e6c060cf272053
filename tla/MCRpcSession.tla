---------------------------- MODULE MCRpcSession -----------------------------
(* Four calls between a and b: three by a, with two ids, so that id_ wraps *)
(* around while calls wait; one of them names no method, one is damaged.   *)
EXTENDS RpcSession

CONSTANTS a, b, c1, c2, c3, c4

MCEnd  == {a, b}
MCPeer == [s \in MCEnd |-> IF s = a THEN b ELSE a]

MCCall      == {c1, c2, c3, c4}
MCFewerCalls == {c1, c2, c4}
MCCaller    == [c \in Call |-> IF c = c4 THEN b ELSE a]
MCResolve   == [c \in Call |-> IF c = c2 THEN "NO_METHOD" ELSE "NO_ERROR"]
MCDamaged   == {c1}
MCEmpty     == {c4}
=============================================================================
