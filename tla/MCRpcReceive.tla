---------------------------- MODULE MCRpcReceive -----------------------------
(* Streams of up to three frames, empty, short and long, intact or not,    *)
(* read in pieces that are shorter and longer than a frame.                *)
EXTENDS RpcReceive

MCPayloads == {0, 1, 3}
=============================================================================
