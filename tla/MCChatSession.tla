---------------------------- MODULE MCChatSession ----------------------------
(* Three messages; one-byte lengths, and headroom for two of them, as in   *)
(* the code: kCheapPrepend is 8 and a length 4.                            *)
EXTENDS ChatSession

MCMessage == 1 .. 3
MCBodyLen == [m \in Message |-> 1]
MCWidths  == {1}
=============================================================================
