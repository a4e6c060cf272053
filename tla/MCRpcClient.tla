----------------------------- MODULE MCRpcClient -----------------------------
(* A client a and a server b.  Three calls by a, with two ids, so that id_ *)
(* wraps around while calls wait: one may be damaged, one names no method, *)
(* one has an empty result.  b calls a, which has no services.             *)
EXTENDS RpcClient

CONSTANTS a, b, c1, c2, c3, c4

MCEnd     == {a, b}
MCPeer    == [s \in MCEnd |-> IF s = a THEN b ELSE a]
MCCall    == {c1, c2, c3, c4}
MCCaller  == [c \in Call |-> IF c = c4 THEN b ELSE a]
MCResolve == [c \in Call |-> CASE c = c2 -> "NO_METHOD"
                               [] c = c4 -> "NO_SERVICE"
                               [] OTHER  -> "NO_ERROR"]
MCDamaged == {c1}
MCEmpty   == {c3}
=============================================================================
