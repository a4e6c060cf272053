------------------------------ MODULE MCRpcSend ------------------------------
(* Three messages, one of them longer, with one-byte lengths and checksums *)
(* and room for one length in front of a buffer.                           *)
EXTENDS RpcSend

CONSTANTS m1, m2, m3

MCMessage == {m1, m2, m3}
MCBodyLen == [m \in Message |-> IF m = m1 THEN 1 ELSE 0]
=============================================================================
