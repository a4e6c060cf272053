---------------------------- MODULE MCChatServer -----------------------------
(* Three connections, two messages; one thread or two.                     *)
EXTENDS ChatServer

CONSTANTS main, t1, s1, s2, s3

MCThread   == {main, t1}
MCSession  == {s1, s2, s3}
MCSymmetry == Permutations(MCSession)
=============================================================================
