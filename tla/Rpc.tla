--------------------------------- MODULE Rpc ---------------------------------
(***************************************************************************)
(* What a remote call promises to those who make calls, whatever carries   *)
(* it: the service is run at most once, and the closure of the caller at   *)
(* most once, after the service, and with the result of that very call; or *)
(* the call fails and the closure is never run.  Nothing promises that     *)
(* a call is answered: a connection may be lost at any moment.             *)
(*                                                                         *)
(* Two calls that wait under one id are shared: the closure of a shared    *)
(* call is still run at most once, but it may get the result of another.   *)
(***************************************************************************)
CONSTANTS
  Call,        \* the calls
  Served,      \* those whose request leads to a service
  Returning    \* those whose service returns a result to send

VARIABLE stage   \* how far each call has come

Stage == {"idle", "called", "served", "answered", "failed", "shared", "mixed"}

(* Nothing more happens to a call at these stages.                         *)
Final == {"answered", "failed", "mixed"}

Init == stage = [c \in Call |-> "idle"]

Move(c, from, to) ==
  /\ stage[c] \in from
  /\ stage' = [stage EXCEPT ![c] = to]

Make(c) == Move(c, {"idle"}, "called")

Serve(c) == c \in Served /\ Move(c, {"called"}, "served")

Answer(c) == c \in Returning /\ Move(c, {"served"}, "answered")

Fail(c) == c \notin Returning /\ Move(c, {"called", "served"}, "failed")

(* The ids of calls are taken by others while they wait.                   *)
Share ==
  /\ stage' \in [Call -> Stage]
  /\ \A c \in Call :
       stage'[c] # stage[c] => stage[c] \notin Final /\ stage'[c] = "shared"

AnswerShared(c) == Move(c, {"shared"}, "mixed")

Next ==
  \/ Share
  \/ \E c \in Call :
       Make(c) \/ Serve(c) \/ Answer(c) \/ Fail(c) \/ AnswerShared(c)

Spec == Init /\ [][Next]_stage
=============================================================================
