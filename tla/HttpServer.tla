------------------------------ MODULE HttpServer -----------------------------
(***************************************************************************)
(* beast_practice: the listener and its http_sessions, each a loop of one  *)
(* read, one answer and one write, and the clients at the other ends.      *)
(*                                                                         *)
(* A client may send requests without waiting for responses; what has      *)
(* arrived waits in the kernel until a read takes it, and in buffer_ until *)
(* its turn comes.  A session is held by its outstanding operation alone:  *)
(* when a handler starts no other the session is destroyed, and its socket *)
(* closed.  TCP answers what a closed socket has not read, or is still     *)
(* sent, with a reset, and a reset may overtake responses on their way.    *)
(***************************************************************************)
EXTENDS Naturals, Sequences

CONSTANTS
  Client,          \* clients, each with one connection
  Asks,            \* the requests that each client may send
  Most,            \* how many requests each sends at most
  threads          \* how many threads run the io_context, with main's

VARIABLES
  program,         \* running, returned from main, terminated
  session,         \* none, reading, writing, written, eof, over
  unread,          \* requests in the kernel of the server, oldest first,
                   \* each as its number among those of its client
  buffer_,         \* requests that a read has taken
  req,             \* the last that on_read has taken from buffer_, or 0
  inflight,        \* parts of responses on their way to the client
  sent,            \* the requests of each client
  read,            \* the responses it has read: which request each answers
  client,          \* its connection: open, fin (it sends no more), reset
  lostStep,        \* it has met a body where a header should be
  cut              \* a reset of the server has overtaken a response

server  == <<program, session, buffer_, req>>
clients == <<sent, client, read, lostStep>>
vars    == <<server, unread, inflight, clients, cut>>

-----------------------------------------------------------------------------
(* method: GET, HEAD, another one (POST), or not HTTP at all (garbage).    *)
(* target: a file, illegal, missing, or not to be opened for another       *)
(* reason.  keep: the client wants to keep the connection.                 *)
Request ==
  [method : {"GET", "HEAD", "POST", "garbage"},
   target : {"file", "illegal", "missing", "unopened"}, keep : BOOLEAN]

ASSUME HttpAssumption ==
  /\ Asks \in [Client -> SUBSET Request]
  /\ Most \in [Client -> Nat]
  /\ threads \in Nat \ {0}

(* handle_request: bad_request, not_found or the file.  A file that cannot *)
(* be opened for another reason than not being there is taken to be empty. *)
Refused(q) == q.method = "POST" \/ q.target = "illegal"
Closes(q)  == ~ q.keep \/ (~ Refused(q) /\ q.target = "missing")
HasBody(q) == Refused(q) \/ q.target # "unopened"

(* The header and the body of the answer to the n-th request q; the body   *)
(* is written after a HEAD, too.                                           *)
Parts(n, q) ==
  <<<<"header", n>>>> \o (IF HasBody(q) THEN <<<<"body", n>>>> ELSE <<>>)

Init ==
  /\ program = "running"
  /\ session = [c \in Client |-> "none"]
  /\ unread = [c \in Client |-> <<>>]
  /\ buffer_ = [c \in Client |-> <<>>]
  /\ req = [c \in Client |-> 0]
  /\ inflight = [c \in Client |-> <<>>]
  /\ sent = [c \in Client |-> <<>>]
  /\ read = [c \in Client |-> <<>>]
  /\ client = [c \in Client |-> "open"]
  /\ lostStep = [c \in Client |-> FALSE]
  /\ cut = [c \in Client |-> FALSE]

Goto(c, state) == session' = [session EXCEPT ![c] = state]

(* The server resets the connection of c: any number of the parts that are *)
(* on their way do not arrive.                                             *)
ResetByServer(c) ==
  \E n \in 0 .. Len(inflight[c]) :
    /\ inflight' = [inflight EXCEPT ![c] = SubSeq(@, 1, n)]
    /\ cut' = [cut EXCEPT ![c] = @ \/ n < Len(inflight[c])]

-----------------------------------------------------------------------------
(* The client sends a request, to a session, or to be read once there is   *)
(* one, or to a socket that is closed.                                     *)
Send(c) ==
  /\ client[c] = "open" /\ program = "running"
  /\ Len(sent[c]) < Most[c]
  /\ \E q \in Asks[c] : sent' = [sent EXCEPT ![c] = Append(@, q)]
  /\ IF session[c] = "over"
     THEN ResetByServer(c) /\ UNCHANGED unread
     ELSE /\ unread' = [unread EXCEPT ![c] = Append(@, Len(sent[c]) + 1)]
          /\ UNCHANGED <<inflight, cut>>
  /\ UNCHANGED <<server, client, read, lostStep>>

(* The client reads a response, without its body if it has asked for none. *)
Receive(c) ==
  /\ inflight[c] # <<>> /\ ~ lostStep[c] /\ client[c] # "reset"
  /\ LET n    == Head(inflight[c])[2]
         size == IF \/ Len(inflight[c]) = 1
                    \/ sent[c][Len(read[c]) + 1].method = "HEAD"
                    \/ inflight[c][2] # <<"body", n>> THEN 1 ELSE 2
     IN  IF Head(inflight[c])[1] = "header"
         THEN /\ read' = [read EXCEPT ![c] = Append(@, n)]
              /\ inflight' = [inflight EXCEPT
                                ![c] = SubSeq(@, size + 1, Len(@))]
              /\ UNCHANGED lostStep
         ELSE /\ lostStep' = [lostStep EXCEPT ![c] = TRUE]
              /\ UNCHANGED <<read, inflight>>
  /\ UNCHANGED <<server, unread, sent, client, cut>>

(* The client closes its sending side, or the connection is lost.          *)
Leave(c) ==
  /\ \/ client[c] = "open" /\ client' = [client EXCEPT ![c] = "fin"]
     \/ client[c] # "reset" /\ client' = [client EXCEPT ![c] = "reset"]
  /\ UNCHANGED <<server, unread, inflight, sent, read, lostStep, cut>>

-----------------------------------------------------------------------------
Running(c, state) == program = "running" /\ session[c] = state

(* The session of c is destroyed.                                          *)
Destroy(c) ==
  /\ Goto(c, "over")
  /\ IF unread[c] = <<>> THEN UNCHANGED <<inflight, cut>> ELSE ResetByServer(c)

(* on_accept: the session is made and run, the next accept started.        *)
OnAccept(c) ==
  /\ Running(c, "none")
  /\ Goto(c, "reading")
  /\ UNCHANGED <<program, buffer_, req, unread, inflight, clients,
                 cut>>

(* async_read takes what there is, which may be more than one request.     *)
ReadSome(c) ==
  /\ Running(c, "reading") /\ client[c] # "reset"
  /\ buffer_[c] = <<>>
  /\ \E n \in 1 .. Len(unread[c]) :
       /\ buffer_' = [buffer_ EXCEPT ![c] = SubSeq(unread[c], 1, n)]
       /\ unread' = [unread EXCEPT ![c] = SubSeq(@, n + 1, Len(@))]
  /\ UNCHANGED <<program, session, req, inflight, clients, cut>>

(* The request that the parser finds at the front of buffer_.              *)
Parsed(c) == sent[c][Head(buffer_[c])]

(* Mutant: each read begins with an empty buffer.                          *)
OnRead_Forgets(c) ==
  /\ Running(c, "reading")
  /\ buffer_[c] # <<>> /\ Parsed(c).method # "garbage"
  /\ buffer_' = [buffer_ EXCEPT ![c] = <<>>]
  /\ req' = [req EXCEPT ![c] = Head(buffer_[c])]
  /\ Goto(c, "writing")
  /\ UNCHANGED <<program, unread, inflight, clients, cut>>

(* on_read with a request, which the parser releases, handle_request and   *)
(* async_write.                                                            *)
OnRead(c) ==
  /\ Running(c, "reading")
  /\ buffer_[c] # <<>> /\ Parsed(c).method # "garbage"
  /\ buffer_' = [buffer_ EXCEPT ![c] = Tail(@)]
  /\ req' = [req EXCEPT ![c] = Head(buffer_[c])]
  /\ Goto(c, "writing")
  /\ UNCHANGED <<program, unread, inflight, clients, cut>>

(* The socket takes the response to that request.                          *)
Write(c) ==
  /\ Running(c, "writing") /\ client[c] # "reset"
  /\ inflight' = [inflight EXCEPT
                    ![c] = @ \o Parts(req[c], sent[c][req[c]])]
  /\ Goto(c, "written")
  /\ UNCHANGED <<program, buffer_, req, unread, clients, cut>>

(* Mutant: it reads no other request.                                      *)
OnWrite_Ends(c) ==
  /\ Running(c, "written")
  /\ Destroy(c)
  /\ UNCHANGED <<program, buffer_, req, unread, clients>>

(* on_write: the connection is closed, or another request read.            *)
OnWrite(c) ==
  /\ Running(c, "written")
  /\ IF Closes(sent[c][req[c]])
     THEN Destroy(c)
     ELSE Goto(c, "reading") /\ UNCHANGED <<inflight, cut>>
  /\ UNCHANGED <<program, buffer_, req, unread, clients>>

(* on_read or on_write with an error, which ends the session: the request  *)
(* cannot be parsed (a part of it may be unread), or the connection is     *)
(* lost.                                                                   *)
OnError(c) ==
  /\ program = "running"
  /\ \/ session[c] = "reading" /\ buffer_[c] = <<>> /\ client[c] = "reset"
     \/ session[c] \in {"writing", "written"} /\ client[c] = "reset"
     \/ /\ session[c] = "reading" /\ buffer_[c] # <<>>
        /\ Parsed(c).method = "garbage"
  /\ Goto(c, "over")
  /\ ResetByServer(c)
  /\ UNCHANGED <<program, buffer_, req, unread, clients>>

(* The read ends with end_of_stream ...                                    *)
ReadEof(c) ==
  /\ Running(c, "reading") /\ client[c] = "fin"
  /\ unread[c] = <<>> /\ buffer_[c] = <<>>
  /\ Goto(c, "eof")
  /\ UNCHANGED <<program, buffer_, req, unread, inflight, clients,
                 cut>>

(* ... and on_read shuts the socket down, which throws when the connection *)
(* has been lost meanwhile; nothing catches that.                          *)
OnEof(c) ==
  /\ Running(c, "eof")
  /\ Goto(c, "over")
  /\ program' = IF client[c] = "reset" THEN "terminated" ELSE "running"
  /\ UNCHANGED <<buffer_, req, unread, inflight, clients, cut>>

(* SIGINT stops the io_context and main returns; threads that it has not   *)
(* joined terminate the program.                                           *)
Stop ==
  /\ program = "running"
  /\ program' = IF threads > 1 THEN "terminated" ELSE "returned"
  /\ UNCHANGED <<session, buffer_, req, unread, inflight, clients,
                 cut>>

Step(c) ==
  \/ OnAccept(c) \/ ReadSome(c) \/ OnRead(c) \/ Write(c) \/ OnWrite(c)
  \/ OnError(c) \/ ReadEof(c) \/ OnEof(c)

Next == Stop \/ \E c \in Client : Send(c) \/ Receive(c) \/ Leave(c) \/ Step(c)

Spec == Init /\ [][Next]_vars

(* The server runs what is ready, and clients read what arrives.           *)
FairSpec == Spec /\ WF_vars(\E c \in Client : Step(c) \/ Receive(c))

-----------------------------------------------------------------------------
(* After this request the session reads no other.                          *)
Ends(q) == q.method = "garbage" \/ Closes(q)

(* A client stays in step: the n-th response it reads answers its n-th     *)
(* request.  Only the body that the server sends after a HEAD, on a        *)
(* connection that goes on, can be taken for the next response.            *)
InStep ==
  \A c \in Client :
    /\ \A n \in DOMAIN read[c] : read[c][n] = n
    /\ lostStep[c] =>
         \E n \in DOMAIN read[c] :
           sent[c][n].method = "HEAD" /\ HasBody(sent[c][n])

(* No response is overtaken by a reset of the server, unless the client    *)
(* sends a request behind one that ends the session, or one that is not    *)
(* HTTP, or loses the connection itself.                                   *)
NotOvertaken ==
  \A c \in Client :
    cut[c] =>
      \/ client[c] = "reset"
      \/ \E n \in DOMAIN sent[c] :
           Ends(sent[c][n]) /\ (n < Len(sent[c]) \/ sent[c][n].method = "garbage")

(* The requests of c that are to be answered: up to the first that ends    *)
(* the session.                                                            *)
Due(c) ==
  {n \in DOMAIN sent[c] :
     /\ sent[c][n].method # "garbage"
     /\ \A k \in 1 .. (n - 1) : ~ Ends(sent[c][k])}

(* Every request is answered, also those that were sent before the         *)
(* connection was accepted or while others were answered, unless the       *)
(* client has lost its step or its connection, or been reset, or the       *)
(* server has stopped.                                                     *)
Served ==
  []<>(\A c \in Client :
         \/ Due(c) \subseteq DOMAIN read[c]
         \/ client[c] = "reset" \/ lostStep[c] \/ cut[c]
         \/ program # "running")
=============================================================================
