------------------------------- MODULE AsioRpc -------------------------------
(***************************************************************************)
(* asio_rpc_practice: class rpc_client, with its map of waiting calls, and *)
(* the rpc_session that serves it.  send_request takes an id in two steps; *)
(* CallMethod, on_send and each turn of the loop in on_read hold mutex_,   *)
(* so that each is one step.                                               *)
(*                                                                         *)
(* Each end has one output buffer and sends as ChatSession does: a message *)
(* that is sent while a write of the same end is outstanding leaves the    *)
(* frames garbled.  Nothing more is said of a connection after that.       *)
(***************************************************************************)
EXTENDS Naturals, SequencesExt

CONSTANTS
  Call,            \* the calls of send_request
  NoCall           \* no call

ASSUME AsioRpcAssumption == NoCall \notin Call

VARIABLES
  together,        \* several threads call send_request, not only one
  pc,              \* where each call is: idle, fetched, bumped, called
  id_,             \* the client's counter
  id,              \* the id in the request of each call
  resCalls_,       \* the map from the ids of waiting calls to their closures
  requests, responses,                \* on the wire: the call and its id
  clientWriting, serverWriting,       \* a write of this end is outstanding
  client,          \* connecting, up, over, ended, terminated
  server,          \* up, over, terminated
  broken,          \* the connection is lost
  garbled,         \* an end has sent in the middle of a write
  answer,          \* history: the call whose response a closure has run with
  runs             \* history: how often the closure of each call has run

vars == <<together, pc, id_, id, resCalls_, requests, responses, clientWriting,
          serverWriting, client, server, broken, garbled, answer, runs>>

network == <<requests, responses, clientWriting, serverWriting, garbled>>
ends    == <<client, server, broken>>

Init ==
  /\ together \in BOOLEAN
  /\ pc = [c \in Call |-> "idle"]
  /\ id_ = 0
  /\ id = [c \in Call |-> 0]
  /\ resCalls_ = [i \in {} |-> NoCall]
  /\ requests = <<>> /\ responses = <<>>
  /\ clientWriting = FALSE /\ serverWriting = FALSE
  /\ client = "connecting" /\ server = "up"
  /\ broken = FALSE
  /\ garbled = FALSE
  /\ answer = [c \in Call |-> NoCall]
  /\ runs = [c \in Call |-> 0]

-----------------------------------------------------------------------------
(* The main thread goes on to make calls in every other state: before the  *)
(* connection is made, and when ioc.run() has returned (ended).            *)
Running == client # "terminated" /\ ~ garbled

(* A client that reads no more: without a write, ioc.run() has no work.    *)
Left == IF clientWriting THEN "over" ELSE "ended"

(* run and on_connect.  What was written before waits for the connection,  *)
(* and may have been sent when on_connect runs.                            *)
OnConnect ==
  /\ Running /\ client = "connecting"
  /\ client' \in {"up"} \cup (IF broken THEN {Left} ELSE {})
  /\ UNCHANGED <<together, pc, id_, id, resCalls_, network, server, broken,
                 answer, runs>>

InSendRequest == {c \in Call : pc[c] \in {"fetched", "bumped"}}

(* send_request: the request gets the value of id_ ...                     *)
SetId(c) ==
  /\ Running
  /\ pc[c] = "idle"
  /\ together \/ InSendRequest = {}
  /\ id' = [id EXCEPT ![c] = id_]
  /\ pc' = [pc EXCEPT ![c] = "fetched"]
  /\ UNCHANGED <<together, id_, resCalls_, network, ends, answer, runs>>

(* ... and id_ is incremented.                                             *)
FetchAdd(c) ==
  /\ Running
  /\ pc[c] = "fetched"
  /\ id_' = id_ + 1
  /\ pc' = [pc EXCEPT ![c] = "bumped"]
  /\ UNCHANGED <<together, id, resCalls_, network, ends, answer, runs>>

(* The map with one more entry, which replaces one of the same id.         *)
Entered(i, c) ==
  [j \in DOMAIN resCalls_ \cup {i} |-> IF j = i THEN c ELSE resCalls_[j]]

(* CallMethod: the request is framed in the output buffer, the closure     *)
(* entered in the map and a write started.                                 *)
CallMethod(c) ==
  /\ Running
  /\ pc[c] = "bumped"
  /\ pc' = [pc EXCEPT ![c] = "called"]
  /\ garbled' = clientWriting
  /\ resCalls_' = Entered(id[c], c)
  /\ requests' = Append(requests, c)
  /\ clientWriting' = TRUE
  /\ UNCHANGED <<together, id_, id, responses, serverWriting, ends, answer,
                 runs>>

(* on_send, when everything has left.                                      *)
OnSend ==
  /\ Running /\ clientWriting /\ ~ broken
  /\ clientWriting' = FALSE
  /\ UNCHANGED <<together, pc, id_, id, resCalls_, requests, responses,
                 serverWriting, ends, garbled, answer, runs>>

-----------------------------------------------------------------------------
(* Mutant: the service does not run its closure.                           *)
OnRequest_Silent ==
  /\ ~ garbled /\ server = "up" /\ ~ broken
  /\ requests # <<>>
  /\ requests' = Tail(requests)
  /\ UNCHANGED <<together, pc, id_, id, resCalls_, responses, clientWriting,
                 serverWriting, garbled, ends, answer, runs>>

(* The server's on_read, one turn of its loop: the service answers at once *)
(* and doneCallback sends the response, with the id of the request.        *)
OnRequest ==
  /\ ~ garbled /\ server = "up" /\ ~ broken
  /\ requests # <<>>
  /\ requests' = Tail(requests)
  /\ responses' = Append(responses, Head(requests))
  /\ garbled' = serverWriting
  /\ serverWriting' = TRUE
  /\ UNCHANGED <<together, pc, id_, id, resCalls_, clientWriting, ends, answer,
                 runs>>

(* The server's on_write, when everything has left.                        *)
OnWrite ==
  /\ ~ garbled /\ server = "up" /\ serverWriting /\ ~ broken
  /\ serverWriting' = FALSE
  /\ UNCHANGED <<together, pc, id_, id, resCalls_, requests, responses,
                 clientWriting, ends, garbled, answer, runs>>

-----------------------------------------------------------------------------
(* Mutant: the entry stays in the map.                                     *)
OnResponse_Keeps ==
  /\ Running /\ client = "up" /\ ~ broken
  /\ responses # <<>>
  /\ LET c == Head(responses) IN
       /\ id[c] \in DOMAIN resCalls_
       /\ answer' = [answer EXCEPT ![resCalls_[id[c]]] = c]
       /\ runs' = [runs EXCEPT ![resCalls_[id[c]]] = @ + 1]
  /\ responses' = Tail(responses)
  /\ UNCHANGED <<together, pc, id_, id, resCalls_, requests, clientWriting,
                 serverWriting, garbled, ends>>

(* Mutant: the call that has waited longest is answered.                   *)
OnResponse_Oldest ==
  /\ Running /\ client = "up" /\ ~ broken
  /\ responses # <<>>
  /\ \E i \in DOMAIN resCalls_ :
       /\ \A j \in DOMAIN resCalls_ : i <= j
       /\ answer' = [answer EXCEPT ![resCalls_[i]] = Head(responses)]
       /\ runs' = [runs EXCEPT ![resCalls_[i]] = @ + 1]
       /\ resCalls_' = Restrict(resCalls_, DOMAIN resCalls_ \ {i})
  /\ responses' = Tail(responses)
  /\ UNCHANGED <<together, pc, id_, id, requests, clientWriting, serverWriting,
                 garbled, ends>>

(* The client's on_read, one turn of its loop: the call of that id leaves  *)
(* the map and its closure runs with the response.  The response is parsed *)
(* from all that is readable: that reads on into the length of the next,   *)
(* and stops at its first byte, which is zero.                             *)
OnResponse ==
  /\ Running /\ client = "up" /\ ~ broken
  /\ responses # <<>>
  /\ LET c == Head(responses) IN
       /\ id[c] \in DOMAIN resCalls_
       /\ answer' = [answer EXCEPT ![resCalls_[id[c]]] = c]
       /\ runs' = [runs EXCEPT ![resCalls_[id[c]]] = @ + 1]
       /\ resCalls_' = Restrict(resCalls_, DOMAIN resCalls_ \ {id[c]})
  /\ responses' = Tail(responses)
  /\ UNCHANGED <<together, pc, id_, id, requests, clientWriting, serverWriting,
                 garbled, ends>>

(* Without an entry callback.response is null: the program ends.           *)
OnResponseUnknown ==
  /\ Running /\ client = "up" /\ ~ broken
  /\ responses # <<>>
  /\ id[Head(responses)] \notin DOMAIN resCalls_
  /\ client' = "terminated"
  /\ UNCHANGED <<together, pc, id_, id, resCalls_, network, server, broken,
                 answer, runs>>

-----------------------------------------------------------------------------
Break ==
  /\ ~ broken
  /\ broken' = TRUE
  /\ UNCHANGED <<together, pc, id_, id, resCalls_, network, client, server,
                 answer, runs>>

(* on_read with an error: shutdown throws when the socket is no longer     *)
(* connected, and nothing catches that.                                    *)
ClientError ==
  /\ Running /\ broken /\ client = "up"
  /\ client' \in {Left, "terminated"}
  /\ UNCHANGED <<together, pc, id_, id, resCalls_, network, server, broken,
                 answer, runs>>

(* on_send with an error, before or after that of on_read: nothing is      *)
(* retrieved, and shutdown may throw again.  A write that had left before  *)
(* the connection was lost leaves the client as it is.                     *)
OnSendError ==
  /\ Running /\ broken /\ clientWriting /\ client # "ended"
  /\ clientWriting' = FALSE
  /\ client' \in {IF client = "over" THEN "ended" ELSE client, "terminated"}
  /\ UNCHANGED <<together, pc, id_, id, resCalls_, requests, responses,
                 serverWriting, garbled, server, broken, answer, runs>>

(* The server's on_read with an error: remote_endpoint or shutdown throws  *)
(* or the session is erased.                                               *)
ServerError ==
  /\ ~ garbled /\ broken /\ server = "up"
  /\ server' \in {"over", "terminated"}
  /\ UNCHANGED <<together, pc, id_, id, resCalls_, network, client, broken,
                 answer, runs>>

(* The server's on_write with an error: the session is erased, or shutdown *)
(* throws.  A read that is outstanding still holds the session.            *)
OnWriteError ==
  /\ ~ garbled /\ broken /\ server # "terminated" /\ serverWriting
  /\ serverWriting' = FALSE
  /\ server' \in {server, "terminated"}
  /\ UNCHANGED <<together, pc, id_, id, resCalls_, requests, responses,
                 clientWriting, garbled, client, broken, answer, runs>>

Next ==
  \/ \E c \in Call : SetId(c) \/ FetchAdd(c) \/ CallMethod(c)
  \/ OnSend \/ OnRequest \/ OnWrite \/ OnResponse \/ OnResponseUnknown
  \/ OnConnect \/ Break
  \/ ClientError \/ OnSendError \/ ServerError \/ OnWriteError

Spec == Init /\ [][Next]_vars

(* The two programs run what is ready.                                     *)
FairSpec ==
  /\ Spec
  /\ WF_vars(OnConnect) /\ WF_vars(OnSend) /\ WF_vars(OnRequest) /\ WF_vars(OnWrite)
  /\ WF_vars(OnResponse \/ OnResponseUnknown)

-----------------------------------------------------------------------------
Called == {c \in Call : pc[c] = "called"}

(* Another call has the id of c: two threads were in send_request at once. *)
Made == {c \in Call : pc[c] # "idle"}
SameId(c) == c \in Made /\ \E d \in Made \ {c} : id[c] = id[d]

(* The table has the calls that wait, each under its id, so that a response*)
(* finds its entry and the client goes on until the connection is lost:    *)
(* unless ids are shared, which takes several calling threads.             *)
OwnEntry ==
  LET shared == \E c \in Call : SameId(c)
  IN  /\ shared => together
      /\ ~ shared =>
           /\ Range(resCalls_) = {c \in Called : runs[c] = 0}
           /\ \A i \in DOMAIN resCalls_ : id[resCalls_[i]] = i
           /\ client = "terminated" => broken

(* How far a call has come, as Rpc.tla counts.                             *)
StageOf(c) ==
  IF runs[c] > 1 THEN "twice" ELSE
  IF SameId(c) THEN IF runs[c] = 0 THEN "shared" ELSE "mixed" ELSE
  IF runs[c] = 1 THEN IF answer[c] = c THEN "answered" ELSE "wrong" ELSE
  IF c \notin Called THEN "idle" ELSE
  IF c \in ToSet(requests) THEN "called" ELSE "served"

Abstract ==
  INSTANCE Rpc WITH
    Served    <- Call,
    Returning <- Call,
    stage     <- [c \in Call |-> StageOf(c)]

(* The two programs are a remote call: each closure runs at most once,     *)
(* after the service has answered that very call, and with its result.     *)
(* Calls that have got the same id are the only exception.                 *)
RpcSpec == Abstract!Spec

(* A call is answered, unless its id is shared, frames garbled or the      *)
(* connection lost; then its closure never runs.                           *)
Answered ==
  \A c \in Call :
    pc[c] = "called" ~>
      runs[c] = 1 \/ garbled \/ broken \/ \E d \in Call : SameId(d)
=============================================================================
