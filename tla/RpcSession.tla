----------------------------- MODULE RpcSession ------------------------------
(***************************************************************************)
(* Class rpc_session: two sessions at the ends of one connection.  Either  *)
(* end may call the other (CallMethod, from any thread), and serves the    *)
(* calls of the other end with the services it has registered.  The codec  *)
(* in between is a FIFO channel of messages for each direction: RpcSend    *)
(* and RpcReceive say when it is one.                                      *)
(*                                                                         *)
(* A call is a process: the thread that runs CallMethod.  Messages are     *)
(* handled one at a time at each end (the strand of the read handler); a   *)
(* service runs its done closure at once or later, in any order.           *)
(***************************************************************************)
EXTENDS Integers, SequencesExt

CONSTANTS
  End,             \* the two ends of the connection
  Peer,            \* the other end of each
  Call,            \* the calls that are made
  Caller,          \* the end that makes each call
  Resolve,         \* what the other end finds for its request: an ErrorCode
  EmptyReply,      \* calls whose response serializes to an empty string
  Damaged,         \* calls whose messages the network may damage
  Ids,             \* how many values the atomic<int> id_ takes, 2^32
  NoCall           \* no entry in reqCallbacks_

ErrorCode ==
  {"NO_ERROR", "INVALID_REQUEST", "NO_SERVICE", "NO_METHOD", "INVALID_CHECKSUM"}

ASSUME SessionAssumption ==
  /\ Peer \in [End -> End]
  /\ \A s \in End : Peer[s] # s /\ Peer[Peer[s]] = s
  /\ Caller \in [Call -> End]
  /\ Resolve \in [Call -> ErrorCode \ {"INVALID_CHECKSUM"}]
  /\ EmptyReply \subseteq Call
  /\ Damaged \subseteq Call
  /\ Ids \in Nat \ {0}
  /\ NoCall \notin Call

VARIABLES
  pc,              \* where each call of CallMethod is
  id,              \* the id that it has been given
  id_,             \* the next id of each end
  reqCallbacks_,   \* the calls of each end that wait for a response, by id
  channel,         \* messages on their way to each end, oldest first
  open,            \* ends that have not shut down or lost their sending side
  serving,         \* requests whose service has not run its done closure
  over,            \* ends that have called sessionOverFunc_
  gone,            \* ends whose program has ended
  answer,          \* history: the call whose response a call was given
  runs,            \* history: how often a call's done closure was run
  serves,          \* history: how often a call's service was run
  shared           \* history: calls whose id was given to another while they
                   \* waited, and the calls it was given to

calls   == <<pc, id, id_>>
ends    == <<open, over, gone>>
history == <<answer, runs, serves, shared>>
vars    == <<calls, reqCallbacks_, channel, serving, ends, history>>

-----------------------------------------------------------------------------
Id == 0 .. (Ids - 1)

(* The call a message is about stands for its serialized argument or       *)
(* result; the program does not see it.                                    *)
Message ==
  [type : {"REQUEST", "RESPONSE"}, id : Id, error : ErrorCode, call : Call,
   intact : BOOLEAN]

Request(c) ==
  [type |-> "REQUEST", id |-> id[c], error |-> "NO_ERROR", call |-> c,
   intact |-> TRUE]

Response(msg, error) ==
  [type |-> "RESPONSE", id |-> msg.id, error |-> error, call |-> msg.call,
   intact |-> TRUE]

Running(s) == s \notin over \cup gone

(* codec_.send_rpc_msg by s on the channels ch: what is sent on a closed   *)
(* connection is lost.                                                     *)
Sent(ch, s, msg) ==
  IF s \in open THEN [ch EXCEPT ![Peer[s]] = Append(@, msg)] ELSE ch

(* The channels without the oldest message for s.                          *)
Rest(s) == [channel EXCEPT ![s] = Tail(@)]

(* The oldest message for s is one of this type.                           *)
Arrived(s, type) ==
  /\ Running(s)
  /\ channel[s] # <<>>
  /\ Head(channel[s]).intact
  /\ Head(channel[s]).type = type

Goto(c, label) == pc' = [pc EXCEPT ![c] = label]

Init ==
  /\ pc = [c \in Call |-> "idle"]
  /\ id = [c \in Call |-> 0]
  /\ id_ = [s \in End |-> 0]
  /\ reqCallbacks_ = [s \in End |-> [i \in Id |-> NoCall]]
  /\ channel = [s \in End |-> <<>>]
  /\ open = End
  /\ serving = {}
  /\ over = {}
  /\ gone = {}
  /\ answer = [c \in Call |-> NoCall]
  /\ runs = [c \in Call |-> 0]
  /\ serves = [c \in Call |-> 0]
  /\ shared = {}

-----------------------------------------------------------------------------
(* Mutant: the id is taken after the increment, which does not wrap.       *)
FetchId_NoWrap(c) ==
  /\ pc[c] = "idle"
  /\ Caller[c] \notin gone
  /\ id' = [id EXCEPT ![c] = id_[Caller[c]] + 1]
  /\ id_' = [id_ EXCEPT ![Caller[c]] = @ + 1]
  /\ Goto(c, "register")
  /\ UNCHANGED <<reqCallbacks_, channel, serving, ends, history>>

(* CallMethod: take an id ...                                              *)
FetchId(c) ==
  /\ pc[c] = "idle"
  /\ Caller[c] \notin gone
  /\ id' = [id EXCEPT ![c] = id_[Caller[c]]]
  /\ id_' = [id_ EXCEPT ![Caller[c]] = (@ + 1) % Ids]
  /\ Goto(c, "register")
  /\ UNCHANGED <<reqCallbacks_, channel, serving, ends, history>>

(* Mutant: the request is sent before the callback is entered.             *)
Register_Late(c) ==
  /\ pc[c] = "register"
  /\ Caller[c] \notin gone
  /\ channel' = Sent(channel, Caller[c], Request(c))
  /\ Goto(c, "send")
  /\ UNCHANGED <<id, id_, reqCallbacks_, serving, ends, history>>

(* The other calls of the same end with the id of c.                       *)
SameId(c) == {d \in Call \ {c} : Caller[d] = Caller[c] /\ id[d] = id[c]}

(* ... enter the callback under the mutex, in the place of an older entry  *)
(* with the same id ...                                                    *)
Register(c) ==
  /\ pc[c] = "register"
  /\ Caller[c] \notin gone
  /\ reqCallbacks_' = [reqCallbacks_ EXCEPT ![Caller[c]][id[c]] = c]
  /\ LET others == SameId(c) \cap (shared \cup {reqCallbacks_[Caller[c]][id[c]]})
     IN  shared' = shared \cup others \cup (IF others = {} THEN {} ELSE {c})
  /\ Goto(c, "send")
  /\ UNCHANGED <<id, id_, channel, serving, ends, answer, runs, serves>>

(* ... and send the request.                                               *)
SendRequest(c) ==
  /\ pc[c] = "send"
  /\ Caller[c] \notin gone
  /\ channel' = Sent(channel, Caller[c], Request(c))
  /\ Goto(c, "sent")
  /\ UNCHANGED <<id, id_, reqCallbacks_, serving, ends, history>>

-----------------------------------------------------------------------------
(* Mutant: a request that cannot be served is dropped.                     *)
OnRequest_Silent(s) ==
  /\ Arrived(s, "REQUEST")
  /\ LET msg == Head(channel[s])
     IN  /\ Resolve[msg.call] = "NO_ERROR"
         /\ serving' = serving \cup {msg}
         /\ serves' = [serves EXCEPT ![msg.call] = @ + 1]
  /\ channel' = Rest(s)
  /\ UNCHANGED <<calls, reqCallbacks_, ends, answer, runs, shared>>

(* on_rpc_callback with a request: the service is called, or the request   *)
(* names no service or no method, or does not parse, and is answered with  *)
(* that error.                                                             *)
OnRequest(s) ==
  /\ Arrived(s, "REQUEST")
  /\ LET msg == Head(channel[s])
     IN  \/ /\ Resolve[msg.call] = "NO_ERROR"
            /\ serving' = serving \cup {msg}
            /\ serves' = [serves EXCEPT ![msg.call] = @ + 1]
            /\ channel' = Rest(s)
         \/ /\ Resolve[msg.call] # "NO_ERROR"
            /\ channel' = Sent(Rest(s), s, Response(msg, Resolve[msg.call]))
            /\ UNCHANGED <<serving, serves>>
  /\ UNCHANGED <<calls, reqCallbacks_, ends, answer, runs, shared>>

(* Mutant: the request stays with the service.                             *)
ServiceDone_Keeps(msg) ==
  LET s == Peer[Caller[msg.call]]
      error == IF msg.call \in EmptyReply THEN "INVALID_REQUEST" ELSE "NO_ERROR"
  IN  /\ Running(s)
      /\ channel' = Sent(channel, s, Response(msg, error))
      /\ UNCHANGED <<calls, reqCallbacks_, serving, ends, history>>

(* done_callback, when a service runs its closure (the session must still  *)
(* exist); an empty response is answered with an error.                    *)
ServiceDone(msg) ==
  LET s == Peer[Caller[msg.call]]
      error == IF msg.call \in EmptyReply THEN "INVALID_REQUEST" ELSE "NO_ERROR"
  IN  /\ Running(s)
      /\ channel' = Sent(channel, s, Response(msg, error))
      /\ serving' = serving \ {msg}
      /\ UNCHANGED <<calls, reqCallbacks_, ends, history>>

(* Mutant: the done closure is run whatever the error is.                  *)
OnResponse_IgnoresError(s) ==
  /\ Arrived(s, "RESPONSE")
  /\ LET msg == Head(channel[s])
         c   == reqCallbacks_[s][msg.id]
     IN  /\ reqCallbacks_' = [reqCallbacks_ EXCEPT ![s][msg.id] = NoCall]
         /\ IF c # NoCall
            THEN /\ answer' = [answer EXCEPT ![c] = msg.call]
                 /\ runs' = [runs EXCEPT ![c] = @ + 1]
            ELSE UNCHANGED <<answer, runs>>
  /\ channel' = Rest(s)
  /\ UNCHANGED <<calls, serving, ends, serves, shared>>

(* on_rpc_callback with a response: its entry is found and erased under    *)
(* the mutex; its done closure is run unless the response is an error.     *)
OnResponse(s) ==
  /\ Arrived(s, "RESPONSE")
  /\ LET msg == Head(channel[s])
         c   == reqCallbacks_[s][msg.id]
     IN  /\ reqCallbacks_' = [reqCallbacks_ EXCEPT ![s][msg.id] = NoCall]
         /\ IF c # NoCall /\ msg.error = "NO_ERROR"
            THEN /\ answer' = [answer EXCEPT ![c] = msg.call]
                 /\ runs' = [runs EXCEPT ![c] = @ + 1]
            ELSE UNCHANGED <<answer, runs>>
  /\ channel' = Rest(s)
  /\ UNCHANGED <<calls, serving, ends, serves, shared>>

(* on_rpc_callback with kChecksumError: the codec passes no message, and   *)
(* the reply is built from the id of that null pointer: the program        *)
(* crashes, and its end of the connection with it.                         *)
OnDamaged(s) ==
  /\ Running(s)
  /\ channel[s] # <<>>
  /\ ~ Head(channel[s]).intact
  /\ channel' = Rest(s)
  /\ gone' = gone \cup {s}
  /\ open' = open \ {s}
  /\ UNCHANGED <<calls, reqCallbacks_, serving, over, history>>

-----------------------------------------------------------------------------
(* disconnect: no more is sent; what has been sent still arrives.          *)
disconnect(s) ==
  /\ Running(s)
  /\ s \in open
  /\ open' = open \ {s}
  /\ UNCHANGED <<calls, reqCallbacks_, channel, serving, over, gone, history>>

(* on_read with an error, when the other end sends no more: sessionOver,   *)
(* whatever still waits in reqCallbacks_.                                  *)
SessionOver(s) ==
  /\ Running(s)
  /\ channel[s] = <<>>
  /\ Peer[s] \notin open
  /\ over' = over \cup {s}
  /\ open' = open \ {s}
  /\ UNCHANGED <<calls, reqCallbacks_, channel, serving, gone, history>>

(* The connection is lost, with any number of the messages on their way.   *)
Break ==
  /\ open # {}
  /\ open' = {}
  /\ channel' \in {ch \in [End -> UNION {Prefixes(channel[s]) : s \in End}] :
                     \A s \in End : ch[s] \in Prefixes(channel[s])}
  /\ UNCHANGED <<calls, reqCallbacks_, serving, over, gone, history>>

(* A message is damaged on its way.                                        *)
Damage(s) ==
  \E k \in DOMAIN channel[s] :
    /\ channel[s][k].call \in Damaged
    /\ channel[s][k].intact
    /\ channel' = [channel EXCEPT ![s][k].intact = FALSE]
    /\ UNCHANGED <<calls, reqCallbacks_, serving, ends, history>>

(* The io_context of an end reads what arrives.                            *)
Read(s) == OnRequest(s) \/ OnResponse(s) \/ OnDamaged(s) \/ SessionOver(s)

(* What goes on by itself at an end: a thread in CallMethod, the           *)
(* io_context, and the services, which run their done closures in the end. *)
Progress(s) ==
  \/ \E c \in Call : Caller[c] = s /\ (Register(c) \/ SendRequest(c))
  \/ Read(s)
  \/ \E msg \in serving : Caller[msg.call] = Peer[s] /\ ServiceDone(msg)

(* Everything the program at an end may do.                                *)
Program(s) ==
  \/ \E c \in Call : Caller[c] = s /\ FetchId(c)
  \/ disconnect(s)
  \/ Progress(s)

Network == Break \/ \E s \in End : Damage(s)

Next == Network \/ \E s \in End : Program(s)

Spec == Init /\ [][Next]_vars

(* While something can go on by itself it does.  Each such step brings a   *)
(* call or the end of a session on, so that which one it is does not       *)
(* matter.                                                                 *)
FairSpec == Spec /\ WF_vars(\E s \in End : Progress(s))

-----------------------------------------------------------------------------
TypeOK ==
  /\ pc \in [Call -> {"idle", "register", "send", "sent"}]
  /\ id \in [Call -> Id]
  /\ id_ \in [End -> Id]
  /\ reqCallbacks_ \in [End -> [Id -> Call \cup {NoCall}]]
  /\ channel \in [End -> Seq(Message)]
  /\ open \subseteq End
  /\ serving \subseteq Message
  /\ over \subseteq End
  /\ gone \subseteq End
  /\ answer \in [Call -> Call \cup {NoCall}]
  /\ runs \in [Call -> Nat]
  /\ serves \in [Call -> Nat]
  /\ shared \subseteq Call

(* What is under way for a call: messages in either channel, or a request  *)
(* at its service.                                                         *)
Places(c) ==
  UNION {{<<s, k>> : k \in {j \in DOMAIN channel[s] : channel[s][j].call = c}} :
           s \in End}

Copies(c) ==
  Cardinality(Places(c)) + Cardinality({msg \in serving : msg.call = c})

(* A call is in one place at a time: its request on the way, at the        *)
(* service, or its response on the way; no request is served or answered   *)
(* twice, and each message goes where it should.                           *)
OneCopy ==
  /\ \A c \in Call : Copies(c) <= 1
  /\ \A s \in End : \A k \in DOMAIN channel[s] :
       LET msg == channel[s][k]
       IN  /\ msg.id = id[msg.call]
           /\ s = IF msg.type = "REQUEST" THEN Peer[Caller[msg.call]]
                  ELSE Caller[msg.call]

(* A call whose request or response is under way finds its own entry in    *)
(* the table of its caller: it was entered before the request could be     *)
(* answered, and nobody has erased it.  Only when id_ has wrapped around   *)
(* to the id of a call that still waits can it be otherwise.               *)
EntryFound ==
  \A c \in Call :
    Copies(c) = 1 /\ c \notin shared => reqCallbacks_[Caller[c]][id[c]] = c

(* How far a call has come.  What happens twice is no stage at all.        *)
StageOf(c) ==
  IF serves[c] > 1 \/ runs[c] > 1 THEN "twice" ELSE
  IF c \in shared THEN IF runs[c] = 0 THEN "shared" ELSE "mixed" ELSE
  IF runs[c] = 1 THEN IF answer[c] = c THEN "answered" ELSE "wrong" ELSE
  IF pc[c] # "sent" THEN "idle" ELSE
  IF reqCallbacks_[Caller[c]][id[c]] # c THEN "failed" ELSE
  IF serves[c] = 1 THEN "served" ELSE "called"

Abstract ==
  INSTANCE Rpc WITH
    Served    <- {c \in Call : Resolve[c] = "NO_ERROR"},
    Returning <- {c \in Call \ EmptyReply : Resolve[c] = "NO_ERROR"},
    stage     <- [c \in Call |-> StageOf(c)]

(* Two sessions are a remote call: a service is run at most once for each  *)
(* request, the done closure of a call at most once, after its service and *)
(* with the result of that very call, and never for an error or an empty   *)
(* result; a call that has ended so does not come back.  Calls whose id    *)
(* has wrapped around while they waited are the only exception.            *)
RpcSpec == Abstract!Spec

(* A call does not wait for ever: its entry leaves the table with a        *)
(* response (which runs the closure, or is an error), or another call      *)
(* takes its place, or the session of the caller is over or its program    *)
(* gone.  Then nobody tells the caller.                                    *)
Settles ==
  []<>(\A c \in Call :
         \/ pc[c] = "idle"
         \/ pc[c] = "sent" /\ reqCallbacks_[Caller[c]][id[c]] # c
         \/ ~ Running(Caller[c]))

(* rpc.proto has INVALID_CHECKSUM = 4: a message with a wrong checksum is  *)
(* answered with that error.  (on_rpc_callback crashes instead.)           *)
ChecksumAnswered ==
  [][\A s \in open :
       /\ Running(s) /\ channel[s] # <<>> /\ ~ Head(channel[s]).intact
       /\ channel'[s] = Tail(channel[s]) /\ Peer[s] \in open'
       => /\ channel'[Peer[s]] # <<>>
          /\ Last(channel'[Peer[s]]).error = "INVALID_CHECKSUM"]_vars

(* time_out ends a session whose peer has been silent for two seconds: if  *)
(* nothing arrives at an end any more, its session is over.  (Nothing      *)
(* waits on timeOut_, and it never is.)                                    *)
SilenceEnds ==
  \A s \in End : <>[](channel[s] = <<>>) => <>(~ Running(s))
=============================================================================
