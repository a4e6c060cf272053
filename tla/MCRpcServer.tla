---------------------------- MODULE MCRpcServer ------------------------------
(* Three connections; one thread or two.                                   *)
EXTENDS RpcServer

CONSTANTS main, t1, s1, s2, s3

MCThread  == {main, t1}
MCSession == {s1, s2, s3}
=============================================================================
