------------------------------ MODULE RpcClient ------------------------------
(***************************************************************************)
(* Class rpc_client: one end of an RpcSession is a program that connects,  *)
(* with a timeout of two seconds, makes its session when the connection is *)
(* there, and whose run() returns when its io_context is stopped, by the   *)
(* timer or by the end of the session, or has nothing left to do.          *)
(*                                                                         *)
(* The program has one thread.  Cancelling the timer takes back a wait     *)
(* that has not expired; once the timer's handler is queued it will run,   *)
(* with no error, whatever is cancelled.                                   *)
(***************************************************************************)
EXTENDS RpcSession

CONSTANTS
  Client,          \* the end that is an rpc_client
  USE_SSL          \* the build in which a handshake precedes the session

ASSUME ClientAssumption == Client \in End /\ USE_SSL \in BOOLEAN

VARIABLES
  phase,           \* the client: new, connecting, handshake, up, returned
  socket,          \* none, pending, refused, made or, with SSL, secured
  timeOut_,        \* the timer: off, waiting, or its handler is queued
  late             \* history: on_connect came too late to cancel it

clientVars == <<phase, socket, timeOut_, late>>
allVars    == <<vars, clientVars>>

ClientInit ==
  /\ Init
  /\ phase = "new"
  /\ socket = "none"
  /\ timeOut_ = "off"
  /\ late = FALSE

-----------------------------------------------------------------------------
(* Mutant: without the timer.                                              *)
connect_NoTimer ==
  /\ phase = "new"
  /\ phase' = "connecting"
  /\ socket' = "pending"
  /\ UNCHANGED <<vars, timeOut_, late>>

connect ==
  /\ phase = "new"
  /\ phase' = "connecting"
  /\ socket' = "pending"
  /\ timeOut_' = "waiting"
  /\ UNCHANGED <<vars, late>>

(* The server accepts or refuses the connection; it may never do either.   *)
Connected ==
  /\ phase = "connecting" /\ socket = "pending"
  /\ socket' \in {"made", "refused"}
  /\ UNCHANGED <<vars, phase, timeOut_, late>>

(* Two seconds have passed.                                                *)
Expire ==
  /\ phase # "returned" /\ timeOut_ = "waiting"
  /\ timeOut_' = "queued"
  /\ UNCHANGED <<vars, phase, socket, late>>

(* run() returns, the program ends and its end of a connection with it.    *)
Return ==
  /\ phase' = "returned"
  /\ gone' = gone \cup {Client}
  /\ open' = open \ {Client}
  /\ UNCHANGED <<calls, reqCallbacks_, channel, serving, over, history>>

(* Mutant: the timer is not cancelled.                                     *)
on_connect_NoCancel ==
  /\ phase = "connecting" /\ socket = "made"
  /\ late' = (timeOut_ = "queued")
  /\ phase' = IF USE_SSL THEN "handshake" ELSE "up"
  /\ UNCHANGED <<vars, socket, timeOut_>>

(* on_connect cancels the timer and makes and runs the session; calls may  *)
(* begin (connectionCb_), with SSL after the handshake.                    *)
on_connect ==
  /\ phase = "connecting" /\ socket = "made"
  /\ late' = (timeOut_ = "queued")
  /\ timeOut_' = IF late' THEN "queued" ELSE "off"
  /\ phase' = IF USE_SSL THEN "handshake" ELSE "up"
  /\ UNCHANGED <<vars, socket>>

(* on_connect with an error: run() has nothing left to do.                 *)
on_connect_error ==
  /\ phase = "connecting" /\ socket = "refused"
  /\ timeOut_' = "off"
  /\ Return
  /\ UNCHANGED <<socket, late>>

(* The handler of do_handshake: connectionCb_ and the first read, unless   *)
(* the connection is lost or the server not verified; then run() has       *)
(* nothing left to do, and sessionOverFunc_ is not called.                 *)
on_handshake ==
  /\ phase = "handshake"
  /\ \/ /\ open = End
        /\ phase' = "up"
        /\ socket' = "secured"
        /\ UNCHANGED vars
     \/ Return /\ UNCHANGED socket
  /\ UNCHANGED <<timeOut_, late>>

(* The handler of the timer stops the io_context, whatever has become of   *)
(* the connection.                                                         *)
on_timeout ==
  /\ phase # "returned" /\ timeOut_ = "queued"
  /\ timeOut_' = "off"
  /\ Return
  /\ UNCHANGED <<socket, late>>

(* on_session_over stops the io_context, in the handler that has found     *)
(* the end of the session.                                                 *)
StopWhenOver ==
  phase' = IF Client \in over' \cup gone' THEN "returned" ELSE phase

(* Both sessions exist; the server's may be ahead of on_connect.           *)
Established == socket = IF USE_SSL THEN "secured" ELSE "made"

ClientProgress ==
  \/ on_connect \/ on_connect_error \/ on_timeout \/ Expire
  \/ /\ phase = "up" /\ Progress(Client) /\ StopWhenOver
     /\ UNCHANGED <<socket, timeOut_, late>>
  \/ Established /\ Progress(Peer[Client]) /\ UNCHANGED clientVars

ClientNext ==
  \/ connect \/ Connected
  \/ on_connect \/ on_connect_error \/ on_handshake \/ on_timeout \/ Expire
  \/ /\ phase = "up" /\ Program(Client) /\ StopWhenOver
     /\ UNCHANGED <<socket, timeOut_, late>>
  \/ Established /\ Program(Peer[Client]) /\ UNCHANGED clientVars
  \/ socket \in {"made", "secured"} /\ Network /\ UNCHANGED clientVars

ClientSpec == ClientInit /\ [][ClientNext]_allVars

(* As in RpcSession; and time passes, and run() runs the client's handlers.*)
(* Nothing is assumed of the server's answers to async_connect and to the  *)
(* handshake.                                                              *)
ClientFairSpec == ClientSpec /\ WF_allVars(ClientProgress)

-----------------------------------------------------------------------------
ClientTypeOK ==
  /\ TypeOK
  /\ phase \in {"new", "connecting", "handshake", "up", "returned"}
  /\ socket \in {"none", "pending", "refused", "made", "secured"}
  /\ timeOut_ \in {"off", "waiting", "queued"}
  /\ late \in BOOLEAN

(* A session that is up is not cut off by its own program: run() returns   *)
(* only when the session is over or the program crashes, unless the two    *)
(* seconds had passed before the connection was handled.                   *)
NotCutOff ==
  [][phase = "up" /\ phase' = "returned" =>
       Client \in over' \/ OnDamaged(Client) \/ late]_allVars

(* Whatever the server does, the program does not wait for the connection  *)
(* for ever.  (For the handshake that follows it may.)                     *)
ConnectEnds == phase = "connecting" ~> phase # "connecting"
=============================================================================
