--------------------------- MODULE HttpServerProofs ---------------------------
(***************************************************************************)
(* The HTTP server, for any number of clients and requests: a client that  *)
(* sends requests without waiting stays in step with the responses, unless *)
(* the server has answered a HEAD with a body; and no response is lost to  *)
(* a reset unless the client has brought that about.                       *)
(*                                                                         *)
(* The argument follows the requests and the responses of one connection.  *)
(* What has been handled, what a read has taken and what is unread make up *)
(* what has been sent, in this order, while there is a session.  The parts *)
(* of responses on their way are those of consecutive requests, after the  *)
(* last that has been read and up to the last that has been answered; a    *)
(* reset makes them a prefix of that, and there is no session any more.    *)
(***************************************************************************)
EXTENDS HttpServer, SequenceLemmas

Part == {"header", "body"} \X Nat

TypeOK ==
  /\ program \in {"running", "returned", "terminated"}
  /\ session \in [Client -> {"none", "reading", "writing", "written", "eof",
                             "over"}]
  /\ unread \in [Client -> Seq(Nat)]
  /\ buffer_ \in [Client -> Seq(Nat)]
  /\ req \in [Client -> Nat]
  /\ inflight \in [Client -> Seq(Part)]
  /\ sent \in [Client -> Seq(Request)]
  /\ read \in [Client -> Seq(Nat)]
  /\ client \in [Client -> {"open", "fin", "reset"}]
  /\ lostStep \in [Client -> BOOLEAN]
  /\ cut \in [Client -> BOOLEAN]

(* The requests of c that are not handled wait, those behind the one that  *)
(* is, each once and in order, in buffer_ and then in the kernel.          *)
Requests(c) ==
  /\ req[c] <= Len(sent[c])
  /\ session[c] \in {"writing", "written"} => req[c] > 0
  /\ session[c] # "over" =>
       /\ Len(sent[c]) = req[c] + Len(buffer_[c]) + Len(unread[c])
       /\ \A k \in 1 .. Len(buffer_[c]) : buffer_[c][k] = req[c] + k
       /\ \A k \in 1 .. Len(unread[c]) :
            unread[c][k] = req[c] + Len(buffer_[c]) + k

(* How many of them the session has answered, the last part of an answer,  *)
(* and the part q that comes after p.                                      *)
Answers(c) == IF session[c] = "writing" THEN req[c] - 1 ELSE req[c]

LastPart(c, n) ==
  IF HasBody(sent[c][n]) THEN <<"body", n>> ELSE <<"header", n>>

Follows(c, p, q) ==
  q = IF p = LastPart(c, p[2]) THEN <<"header", p[2] + 1>>
                               ELSE LastPart(c, p[2])

(* The parts on their way are those of consecutive responses ...           *)
Parted(c) ==
  /\ \A k \in 1 .. Len(inflight[c]) :
       /\ inflight[c][k][2] \in 1 .. req[c]
       /\ inflight[c][k][1] = "body" => HasBody(sent[c][inflight[c][k][2]])
  /\ \A k \in 1 .. Len(inflight[c]) - 1 :
       Follows(c, inflight[c][k], inflight[c][k + 1])

(* ... from the next that the client reads, or the body of a HEAD that it  *)
(* has read, to the last that the session has written.                     *)
Ahead(c) ==
  /\ Len(read[c]) <= req[c]
  /\ inflight[c] # <<>> =>
       \/ inflight[c][1] = <<"header", Len(read[c]) + 1>>
       \/ /\ inflight[c][1] = <<"body", Len(read[c])>>
          /\ sent[c][Len(read[c])].method = "HEAD"
  /\ session[c] # "over" =>
       IF inflight[c] = <<>> THEN Len(read[c]) = Answers(c)
       ELSE inflight[c][Len(inflight[c])] = LastPart(c, Answers(c))

(* A session is over only when its client has closed, or has sent a        *)
(* request that ends it.                                                   *)
Ending(c) ==
  /\ session[c] = "eof" => client[c] # "open"
  /\ session[c] = "over" =>
       client[c] # "open" \/ \E n \in DOMAIN sent[c] : Ends(sent[c][n])

(* What InStep and NotOvertaken say of c.                                  *)
Stepping(c) ==
  /\ \A n \in DOMAIN read[c] : read[c][n] = n
  /\ lostStep[c] =>
       \E n \in DOMAIN read[c] :
         sent[c][n].method = "HEAD" /\ HasBody(sent[c][n])

Overtaking(c) ==
  cut[c] =>
    \/ client[c] = "reset"
    \/ \E n \in DOMAIN sent[c] :
         Ends(sent[c][n]) /\ (n < Len(sent[c]) \/ sent[c][n].method = "garbage")

Connection(c) ==
  /\ Requests(c) /\ Parted(c) /\ Ahead(c)
  /\ Ending(c) /\ Stepping(c) /\ Overtaking(c)

Inv == TypeOK /\ \A c \in Client : Connection(c)

(* A step that is not about c.                                             *)
Apart(c) ==
  /\ session'[c] = session[c] /\ unread'[c] = unread[c]
  /\ buffer_'[c] = buffer_[c] /\ req'[c] = req[c]
  /\ inflight'[c] = inflight[c] /\ sent'[c] = sent[c] /\ read'[c] = read[c]
  /\ client'[c] = client[c] /\ lostStep'[c] = lostStep[c] /\ cut'[c] = cut[c]

-----------------------------------------------------------------------------
LEMMA InitInv == Init => Inv
<1> SUFFICES ASSUME Init PROVE Inv
  OBVIOUS
<1>1. TypeOK
  BY DEF Init, TypeOK
<1>2. ASSUME NEW c \in Client PROVE Connection(c)
  BY DEF Init, Connection, Requests, Answers, Parted, Ahead, Ending, Stepping,
         Overtaking
<1>3. QED BY <1>1, <1>2 DEF Inv

LEMMA ApartKeeps ==
  ASSUME NEW c \in Client, Connection(c), Apart(c)
  PROVE  Connection(c)'
<1> USE DEF Apart
<1>1. Requests(c)' /\ Ending(c)' /\ Stepping(c)' /\ Overtaking(c)'
  BY DEF Connection, Requests, Ending, Stepping, Overtaking
<1>2. Parted(c)'
  BY DEF Connection, Parted, Follows, LastPart
<1>3. Ahead(c)'
  BY DEF Connection, Ahead, LastPart, Answers
<1>4. QED BY <1>1, <1>2, <1>3 DEF Connection

(* It is enough to look at the client that a step is about.                *)
LEMMA OneClient ==
  ASSUME Inv, TypeOK', NEW d \in Client, Connection(d)',
         \A c \in Client \ {d} : Apart(c)
  PROVE  Inv'
BY ApartKeeps DEF Inv

-----------------------------------------------------------------------------
(* Steps of a session that move nothing between the two ends.              *)
LEMMA StopInv ==
  ASSUME Inv, Stop
  PROVE  Inv'
<1> USE DEF Stop, clients
<1>1. TypeOK'
  BY DEF Inv, TypeOK
<1>2. ASSUME NEW c \in Client PROVE Connection(c)'
  BY ApartKeeps DEF Inv, Apart
<1>3. QED BY <1>1, <1>2 DEF Inv

LEMMA LeaveInv ==
  ASSUME Inv, NEW c \in Client, Leave(c)
  PROVE  Inv'
<1> USE DEF Inv, TypeOK, Leave, server
<1>1. TypeOK'
  OBVIOUS
<1>2. client'[c] # "open" /\ (client[c] = "reset" => client'[c] = "reset")
  OBVIOUS
<1>3. Requests(c)' /\ Ending(c)' /\ Stepping(c)' /\ Overtaking(c)'
  BY <1>2 DEF Connection, Requests, Ending, Stepping, Overtaking
<1>4. Parted(c)' /\ Ahead(c)'
  <2>1. UNCHANGED <<session, req, inflight, sent, read>> /\ Parted(c) /\ Ahead(c)
    BY DEF Connection
  <2> HIDE DEF Inv, TypeOK, Leave, server
  <2>2. QED BY <2>1, Zenon DEF Parted, Ahead, Follows, LastPart, Answers
<1>5. \A d \in Client \ {c} : Apart(d)
  BY DEF Apart
<1>6. QED BY <1>1, <1>3, <1>4, <1>5, OneClient DEF Connection

LEMMA OnAcceptInv ==
  ASSUME Inv, NEW c \in Client, OnAccept(c)
  PROVE  Inv'
<1> USE DEF Inv, TypeOK, OnAccept, Running, Goto, clients
<1>1. TypeOK'
  OBVIOUS
<1>2. session[c] = "none" /\ session'[c] = "reading"
  OBVIOUS
<1>3. Requests(c)' /\ Ending(c)' /\ Stepping(c)' /\ Overtaking(c)'
  BY <1>2 DEF Connection, Requests, Ending, Stepping, Overtaking
<1>4. Parted(c)' /\ Ahead(c)'
  BY <1>2 DEF Connection, Parted, Ahead, Follows, LastPart, Answers
<1>5. \A d \in Client \ {c} : Apart(d)
  BY DEF Apart
<1>6. QED BY <1>1, <1>3, <1>4, <1>5, OneClient DEF Connection

LEMMA ReadEofInv ==
  ASSUME Inv, NEW c \in Client, ReadEof(c)
  PROVE  Inv'
<1> USE DEF Inv, TypeOK, ReadEof, Running, Goto, clients
<1>1. TypeOK'
  OBVIOUS
<1>2. session[c] = "reading" /\ session'[c] = "eof" /\ client[c] = "fin"
  OBVIOUS
<1>3. Requests(c)' /\ Ending(c)' /\ Stepping(c)' /\ Overtaking(c)'
  BY <1>2 DEF Connection, Requests, Ending, Stepping, Overtaking
<1>4. Parted(c)' /\ Ahead(c)'
  BY <1>2 DEF Connection, Parted, Ahead, Follows, LastPart, Answers
<1>5. \A d \in Client \ {c} : Apart(d)
  BY DEF Apart
<1>6. QED BY <1>1, <1>3, <1>4, <1>5, OneClient DEF Connection

LEMMA OnEofInv ==
  ASSUME Inv, NEW c \in Client, OnEof(c)
  PROVE  Inv'
<1> USE DEF Inv, TypeOK, OnEof, Running, Goto, clients
<1>1. TypeOK'
  OBVIOUS
<1>2. session[c] = "eof" /\ session'[c] = "over"
  OBVIOUS
<1>3. Requests(c)' /\ Ending(c)' /\ Stepping(c)' /\ Overtaking(c)'
  BY <1>2 DEF Connection, Requests, Ending, Stepping, Overtaking
<1>4. Parted(c)' /\ Ahead(c)'
  BY <1>2 DEF Connection, Parted, Ahead, Follows, LastPart, Answers
<1>5. \A d \in Client \ {c} : Apart(d)
  BY DEF Apart
<1>6. QED BY <1>1, <1>3, <1>4, <1>5, OneClient DEF Connection

-----------------------------------------------------------------------------
(* The session takes requests in the order in which they were sent.        *)
LEMMA ReadSomeInv ==
  ASSUME Inv, NEW c \in Client, ReadSome(c)
  PROVE  Inv'
<1> USE DEF Inv, TypeOK
<1>1. PICK n \in 1 .. Len(unread[c]) :
        /\ buffer_' = [buffer_ EXCEPT ![c] = SubSeq(unread[c], 1, n)]
        /\ unread' = [unread EXCEPT ![c] = SubSeq(@, n + 1, Len(@))]
  BY DEF ReadSome
<1>2. /\ session[c] = "reading" /\ buffer_[c] = <<>>
      /\ UNCHANGED <<program, session, req, inflight, clients, cut>>
  BY DEF ReadSome, Running
<1>3. /\ unread[c] \in Seq(Nat) /\ Len(unread[c]) \in Nat
      /\ buffer_'[c] = SubSeq(unread[c], 1, n)
      /\ unread'[c] = SubSeq(unread[c], n + 1, Len(unread[c]))
  BY <1>1
<1>4. /\ buffer_'[c] \in Seq(Nat) /\ Len(buffer_'[c]) = n
      /\ \A k \in 1 .. n : buffer_'[c][k] = unread[c][k]
  <2>1. n \in Nat /\ 0 \in Nat /\ 0 <= n /\ n <= Len(unread[c])
    BY <1>3
  <2> HIDE DEF Inv, TypeOK
  <2>2. /\ SubSeq(unread[c], 0 + 1, n) \in Seq(Nat)
        /\ Len(SubSeq(unread[c], 0 + 1, n)) = n - 0
        /\ \A k \in 1 .. n - 0 :
             SubSeq(unread[c], 0 + 1, n)[k] = unread[c][0 + k]
    BY <1>3, <2>1, Window
  <2>3. 0 + 1 = 1 /\ n - 0 = n /\ \A k \in 1 .. n : 0 + k = k
    BY <2>1
  <2>4. QED BY <1>3, <2>2, <2>3
<1>5. /\ unread'[c] \in Seq(Nat) /\ Len(unread'[c]) = Len(unread[c]) - n
      /\ \A k \in 1 .. Len(unread[c]) - n : unread'[c][k] = unread[c][k + n]
  <2> DEFINE l == Len(unread[c])
  <2>1. /\ n \in Nat /\ l \in Nat /\ n <= l /\ l <= Len(unread[c])
        /\ unread[c] \in Seq(Nat)
    BY <1>3
  <2> HIDE DEF Inv, TypeOK, l
  <2>2. /\ SubSeq(unread[c], n + 1, l) \in Seq(Nat)
        /\ Len(SubSeq(unread[c], n + 1, l)) = l - n
        /\ \A k \in 1 .. l - n :
             SubSeq(unread[c], n + 1, l)[k] = unread[c][n + k]
    BY <2>1, Window
  <2>3. \A k \in 1 .. l - n : n + k = k + n
    BY <2>1
  <2>4. QED BY <1>3, <2>2, <2>3 DEF l
<1>6. TypeOK'
  BY <1>1, <1>2, <1>4, <1>5 DEF clients
<1>7. Requests(c)'
  <2>1. /\ req[c] \in Nat /\ Len(buffer_[c]) = 0
        /\ Len(sent[c]) = req[c] + Len(unread[c])
        /\ \A k \in 1 .. Len(unread[c]) : unread[c][k] = req[c] + k
    <3>1. Len(buffer_[c]) = 0 /\ req[c] \in Nat /\ req[c] + 0 = req[c]
      BY <1>2
    <3>2. Requests(c) /\ session[c] # "over"
      BY <1>2 DEF Connection
    <3> HIDE DEF Inv, TypeOK
    <3>3. /\ Len(sent[c]) = req[c] + 0 + Len(unread[c])
          /\ \A k \in 1 .. Len(unread[c]) : unread[c][k] = req[c] + 0 + k
      BY <3>1, <3>2 DEF Requests
    <3>4. QED BY <3>1, <3>3
  <2>2. \A k \in 1 .. Len(unread'[c]) :
          unread'[c][k] = req[c] + n + k
    <3> SUFFICES ASSUME NEW k \in 1 .. Len(unread'[c])
                 PROVE  unread'[c][k] = req[c] + n + k
      OBVIOUS
    <3>1. k + n \in 1 .. Len(unread[c]) /\ unread'[c][k] = unread[c][k + n]
      BY <1>3, <1>5
    <3>2. req[c] + (k + n) = req[c] + n + k
      BY <1>3, <1>5, <2>1
    <3>3. QED BY <2>1, <3>1, <3>2
  <2>3. Len(sent[c]) = req[c] + n + Len(unread'[c])
    BY <1>3, <1>5, <2>1
  <2>4. \A k \in 1 .. n : buffer_'[c][k] = req[c] + k
    BY <1>3, <1>4, <2>1
  <2>5. req'[c] = req[c] /\ sent'[c] = sent[c] /\ session'[c] = "reading"
    BY <1>2 DEF ReadSome, clients
  <2>6. req[c] <= Len(sent[c])
    BY DEF Connection, Requests
  <2>7. QED BY <1>4, <2>2, <2>3, <2>4, <2>5, <2>6 DEF Requests
<1>8. Ending(c)' /\ Stepping(c)' /\ Overtaking(c)'
  BY <1>2 DEF Connection, Ending, Stepping, Overtaking, clients
<1>9. Parted(c)' /\ Ahead(c)'
  BY <1>2 DEF Connection, Parted, Ahead, Follows, LastPart, Answers, clients
<1>10. \A d \in Client \ {c} : Apart(d)
  BY <1>1, <1>2 DEF Apart, clients
<1>11. QED BY <1>6, <1>7, <1>8, <1>9, <1>10, OneClient DEF Connection

LEMMA OnReadInv ==
  ASSUME Inv, NEW c \in Client, OnRead(c)
  PROVE  Inv'
<1> USE DEF Inv, TypeOK, Running, Goto
<1>1. /\ session[c] = "reading" /\ session'[c] = "writing"
      /\ req'[c] = Head(buffer_[c]) /\ buffer_[c] # <<>>
      /\ buffer_'[c] = Tail(buffer_[c]) /\ req[c] \in Nat
      /\ UNCHANGED <<program, unread, inflight, clients, cut>>
  BY DEF OnRead
<1>2. /\ buffer_'[c] \in Seq(Nat) /\ Len(buffer_[c]) \in Nat \ {0}
      /\ Len(buffer_'[c]) = Len(buffer_[c]) - 1
      /\ \A k \in 1 .. Len(buffer_[c]) - 1 : buffer_'[c][k] = buffer_[c][k + 1]
  BY <1>1
<1>3. req'[c] = req[c] + 1
  <2>1. Head(buffer_[c]) = buffer_[c][1] /\ 1 \in 1 .. Len(buffer_[c])
    BY <1>1, <1>2
  <2>2. buffer_[c][1] = req[c] + 1
    BY <1>1, <2>1 DEF Connection, Requests
  <2>3. QED BY <1>1, <2>1, <2>2
<1>4. TypeOK'
  <2>1. req' = [req EXCEPT ![c] = Head(buffer_[c])] /\ Head(buffer_[c]) \in Nat
    BY <1>1, <1>3 DEF OnRead
  <2>2. /\ buffer_' = [buffer_ EXCEPT ![c] = buffer_'[c]]
        /\ session' = [session EXCEPT ![c] = "writing"]
    BY <1>1 DEF OnRead
  <2>3. /\ buffer_' \in [Client -> Seq(Nat)] /\ req' \in [Client -> Nat]
    BY <1>2, <2>1, <2>2
  <2>4. QED BY <1>1, <2>2, <2>3 DEF clients
<1>5. Requests(c)'
  <2>0. Requests(c) /\ Len(sent[c]) \in Nat /\ Len(unread[c]) \in Nat
    BY DEF Connection
  <2> HIDE DEF Inv, TypeOK
  <2>1. \A k \in 1 .. Len(buffer_'[c]) :
          buffer_'[c][k] = req[c] + 1 + k
    <3> SUFFICES ASSUME NEW k \in 1 .. Len(buffer_'[c])
                 PROVE  buffer_'[c][k] = req[c] + 1 + k
      OBVIOUS
    <3>1. k + 1 \in 1 .. Len(buffer_[c]) /\ buffer_'[c][k] = buffer_[c][k + 1]
      BY <1>2
    <3>2. req[c] + (k + 1) = req[c] + 1 + k
      BY <1>1, <1>2
    <3>3. buffer_[c][k + 1] = req[c] + (k + 1)
      BY <1>1, <2>0, <3>1 DEF Requests
    <3>4. QED BY <3>1, <3>2, <3>3
  <2>2. req[c] + 1 + Len(buffer_'[c]) = req[c] + Len(buffer_[c])
    <3> DEFINE b == Len(buffer_[c])
    <3>1. b \in Nat /\ req[c] \in Nat /\ Len(buffer_'[c]) = b - 1
      BY <1>1, <1>2
    <3> HIDE DEF b
    <3>2. req[c] + 1 + (b - 1) = req[c] + b
      BY <3>1
    <3>3. QED BY <3>1, <3>2 DEF b
  <2>3. sent' = sent /\ unread' = unread
    BY <1>1 DEF clients
  <2>4. /\ req'[c] = req[c] + 1 /\ req[c] + 1 > 0
        /\ session[c] # "over" /\ session'[c] # "over"
    BY <1>1, <1>3
  <2>5. /\ Len(sent[c]) = req[c] + Len(buffer_[c]) + Len(unread[c])
        /\ \A k \in 1 .. Len(unread[c]) :
             unread[c][k] = req[c] + Len(buffer_[c]) + k
    BY <2>0, <2>4 DEF Requests
  <2>6. req[c] + 1 <= Len(sent[c])
    <3> DEFINE s == Len(sent[c])
               b == Len(buffer_[c])
               u == Len(unread[c])
    <3>1. s \in Nat /\ b \in Nat \ {0} /\ u \in Nat /\ req[c] \in Nat
      BY <1>1, <1>2, <2>0
    <3>2. s = req[c] + b + u
      BY <2>5
    <3> HIDE DEF s, b, u
    <3>3. req[c] + 1 <= s
      BY <3>1, <3>2
    <3>4. QED BY <3>3 DEF s
  <2>7. /\ Len(sent[c]) = req[c] + 1 + Len(buffer_'[c]) + Len(unread[c])
        /\ \A k \in 1 .. Len(unread[c]) :
             unread[c][k] = req[c] + 1 + Len(buffer_'[c]) + k
    BY <2>2, <2>5
  <2>8. QED BY <2>1, <2>3, <2>4, <2>6, <2>7 DEF Requests
<1>6. Ending(c)' /\ Stepping(c)' /\ Overtaking(c)'
  BY <1>1, <1>3 DEF Connection, Ending, Stepping, Overtaking, clients
<1>7. Parted(c)'
  <2>1. Parted(c) /\ inflight' = inflight /\ sent' = sent
    BY <1>1 DEF Connection, clients
  <2>2. 1 .. req[c] \subseteq 1 .. req'[c]
    BY <1>1, <1>3
  <2>3. QED BY <2>1, <2>2 DEF Parted, Follows, LastPart
<1>8. Ahead(c)'
  <2>1. Answers(c)' = Answers(c)
    BY <1>1, <1>3 DEF Answers
  <2>2. /\ Ahead(c) /\ inflight' = inflight /\ sent' = sent /\ read' = read
        /\ Len(read[c]) \in Nat
    BY <1>1 DEF Connection, clients
  <2>3. Len(read[c]) <= req'[c]
    <3> HIDE DEF Inv, TypeOK
    <3>1. Len(read[c]) <= req[c]
      BY <2>2 DEF Ahead
    <3>2. QED BY <1>1, <1>3, <2>2, <3>1
  <2>4. QED BY <1>1, <2>1, <2>2, <2>3 DEF Ahead, LastPart
<1>9. \A d \in Client \ {c} : Apart(d)
  BY DEF Apart, clients, OnRead
<1>10. QED BY <1>4, <1>5, <1>6, <1>7, <1>8, <1>9, OneClient DEF Connection

-----------------------------------------------------------------------------
(* The response to the request that has been handled is written after the  *)
(* one before.                                                             *)
LEMMA PartsLast ==
  ASSUME NEW n \in Nat, NEW q
  PROVE  /\ Parts(n, q) \in Seq(Part)
         /\ Parts(n, q)[1] = <<"header", n>>
         /\ IF HasBody(q) THEN Len(Parts(n, q)) = 2 /\ Parts(n, q)[2] = <<"body", n>>
                          ELSE Len(Parts(n, q)) = 1
<1>1. CASE HasBody(q)
  <2> DEFINE first  == <<<<"header", n>>>>
             second == <<<<"body", n>>>>
  <2>1. Parts(n, q) = first \o second
    BY <1>1 DEF Parts
  <2>2. /\ first \in Seq(Part) /\ Len(first) = 1 /\ first[1] = <<"header", n>>
        /\ second \in Seq(Part) /\ Len(second) = 1
        /\ second[1] = <<"body", n>>
    BY DEF Part
  <2> HIDE DEF first, second
  <2>3. /\ first \o second \in Seq(Part) /\ Len(first \o second) = 2
        /\ (first \o second)[1] = first[1]
        /\ (first \o second)[2] = second[1]
    BY <2>2, ConcatProperties
  <2>4. QED BY <1>1, <2>1, <2>2, <2>3
<1>2. CASE ~ HasBody(q)
  <2>1. Parts(n, q) = <<<<"header", n>>>>
    BY <1>2 DEF Parts
  <2>2. QED BY <1>2, <2>1 DEF Part
<1>3. QED BY <1>1, <1>2

LEMMA WriteInv ==
  ASSUME Inv, NEW c \in Client, Write(c)
  PROVE  Inv'
<1> USE DEF Inv, TypeOK
<1> DEFINE n    == req[c]
           old  == inflight[c]
           more == Parts(n, sent[c][n])
           all  == old \o more
<1>1. /\ session[c] = "writing" /\ n \in Nat /\ n > 0 /\ n <= Len(sent[c])
      /\ UNCHANGED <<program, buffer_, req, unread, clients, cut>>
      /\ session' = [session EXCEPT ![c] = "written"]
      /\ inflight' = [inflight EXCEPT ![c] = all]
  BY DEF Write, Running, Goto, Connection, Requests
<1>2. old \in Seq(Part) /\ Len(old) \in Nat
  OBVIOUS
<1>3. /\ more \in Seq(Part) /\ Len(more) \in {1, 2}
      /\ more[1] = <<"header", n>> /\ more[Len(more)] = LastPart(c, n)
      /\ Len(more) = 2 <=> HasBody(sent[c][n])
  <2> DEFINE q == sent[c][n]
  <2>1. /\ Parts(n, q) \in Seq(Part) /\ Parts(n, q)[1] = <<"header", n>>
        /\ IF HasBody(q)
           THEN Len(Parts(n, q)) = 2 /\ Parts(n, q)[2] = <<"body", n>>
           ELSE Len(Parts(n, q)) = 1
    BY <1>1, PartsLast
  <2> HIDE DEF q, more, n
  <2>2. more = Parts(n, q) /\ LastPart(c, n) = IF HasBody(q) THEN <<"body", n>>
                                               ELSE <<"header", n>>
    BY DEF q, more, LastPart
  <2>3. more \in Seq(Part) /\ more[1] = <<"header", n>>
    BY <2>1, <2>2
  <2>4. CASE HasBody(q)
    BY <2>1, <2>2, <2>3, <2>4 DEF q
  <2>5. CASE ~ HasBody(q)
    <3>1. Len(more) = 1 /\ LastPart(c, n) = <<"header", n>>
      BY <2>1, <2>2, <2>5
    <3>2. ~ HasBody(sent[c][n])
      BY <2>5 DEF q
    <3>3. more[Len(more)] = LastPart(c, n)
      BY <2>3, <3>1
    <3>4. QED BY <2>3, <3>1, <3>2, <3>3
  <2>6. QED BY <2>4, <2>5
<1> HIDE DEF old, more
<1>4. /\ all \in Seq(Part) /\ Len(all) = Len(old) + Len(more)
      /\ \A k \in 1 .. Len(old) : all[k] = old[k]
      /\ all[Len(old) + 1] = <<"header", n>>
      /\ all[Len(all)] = LastPart(c, n)
  <2>1. /\ all \in Seq(Part) /\ Len(all) = Len(old) + Len(more)
        /\ \A k \in 1 .. Len(old) + Len(more) :
             all[k] = IF k <= Len(old) THEN old[k] ELSE more[k - Len(old)]
    BY <1>2, <1>3, ConcatProperties
  <2> HIDE DEF Inv, TypeOK
  <2>2. Len(old) + 1 - Len(old) = 1 /\ Len(all) - Len(old) = Len(more)
    BY <1>2, <1>3, <2>1
  <2>3. QED BY <1>2, <1>3, <2>1, <2>2
<1> HIDE DEF all
<1>5. TypeOK'
  BY <1>1, <1>4 DEF clients
<1>6. Requests(c)'
  BY <1>1 DEF Connection, Requests, clients
<1>7. Ending(c)' /\ Stepping(c)' /\ Overtaking(c)'
  BY <1>1 DEF Connection, Ending, Stepping, Overtaking, clients
<1>8. inflight'[c] = all /\ req'[c] = n /\ sent' = sent /\ read' = read
  BY <1>1 DEF clients
<1>9. Answers(c) = n - 1 /\ Answers(c)' = n
  BY <1>1 DEF Answers
<1>10. ASSUME NEW m \in Nat
       PROVE  /\ LastPart(c, m) \in Part /\ LastPart(c, m)[2] = m
              /\ LastPart(c, m)[1] = "body" => HasBody(sent[c][m])
  BY DEF LastPart, Part
<1>11. Parted(c)'
  <2>0. Parted(c) /\ Ahead(c)
    BY DEF Connection
  <2> HIDE DEF Inv, TypeOK
  <2>1. ASSUME NEW k \in 1 .. Len(all)
        PROVE  /\ all[k][2] \in 1 .. n
               /\ all[k][1] = "body" => HasBody(sent[c][all[k][2]])
    <3>1. CASE k <= Len(old)
      <4>1. k \in 1 .. Len(old) /\ all[k] = old[k]
        BY <1>2, <1>3, <1>4, <3>1
      <4>2. QED BY <1>1, <2>0, <4>1 DEF Parted, old
    <3>2. CASE k = Len(old) + 1
      BY <1>1, <1>4, <3>2
    <3>3. CASE k = Len(all)
      BY <1>1, <1>4, <1>10, <3>3
    <3>4. k <= Len(old) \/ k = Len(old) + 1 \/ k = Len(all)
      <4>1. Len(all) = Len(old) + 1 \/ Len(all) = Len(old) + 2
        BY <1>3, <1>4
      <4>2. QED BY <1>2, <4>1
    <3>5. QED BY <3>1, <3>2, <3>3, <3>4
  <2>2. ASSUME NEW k \in 1 .. Len(all) - 1
        PROVE  Follows(c, all[k], all[k + 1])
    <3>1. CASE k < Len(old)
      <4>1. k \in 1 .. Len(old) - 1 /\ all[k] = old[k] /\ all[k + 1] = old[k + 1]
        <5>1. Len(old) \in Nat /\ k \in 1 .. Len(old) - 1
          BY <1>2, <3>1
        <5>2. k \in 1 .. Len(old) /\ k + 1 \in 1 .. Len(old)
          BY <5>1
        <5>3. QED BY <1>4, <5>1, <5>2
      <4>2. QED BY <1>1, <2>0, <4>1 DEF Parted, old
    <3>2. CASE k = Len(old)
      <4>1. old # <<>> /\ all[k] = old[Len(old)]
        BY <1>2, <1>4, <3>2
      <4>2. all[k] = LastPart(c, n - 1)
        BY <1>1, <1>9, <2>0, <4>1 DEF Ahead, old
      <4>3. all[k + 1] = <<"header", n>> /\ n - 1 + 1 = n /\ n - 1 \in Nat
        BY <1>1, <1>4, <3>2
      <4>4. QED BY <1>10, <4>2, <4>3 DEF Follows
    <3>3. CASE k > Len(old)
      <4>1. k = Len(old) + 1 /\ Len(more) = 2 /\ k + 1 = Len(all)
        BY <1>2, <1>3, <1>4, <3>3
      <4>2. /\ all[k] = <<"header", n>> /\ all[k + 1] = LastPart(c, n)
            /\ LastPart(c, n) = <<"body", n>>
        BY <1>3, <1>4, <4>1 DEF LastPart
      <4>3. QED BY <4>2 DEF Follows
    <3>4. QED BY <1>2, <3>1, <3>2, <3>3
  <2>3. QED BY <1>8, <2>1, <2>2 DEF Parted, Follows, LastPart
<1>12. Ahead(c)'
  <2>1. all # <<>> /\ Len(read[c]) <= n
    BY <1>2, <1>3, <1>4 DEF Connection, Ahead
  <2>2. \/ all[1] = <<"header", Len(read[c]) + 1>>
        \/ /\ all[1] = <<"body", Len(read[c])>>
           /\ sent[c][Len(read[c])].method = "HEAD"
    <3>1. CASE old = <<>>
      <4>1. Len(read[c]) = n - 1 /\ Len(old) = 0
        BY <1>1, <1>9, <3>1 DEF Connection, Ahead, old
      <4>2. QED BY <1>1, <1>4, <4>1
    <3>2. CASE old # <<>>
      <4>1. 1 \in 1 .. Len(old)
        BY <1>2, <3>2
      <4>2. all[1] = old[1]
        BY <1>4, <4>1
      <4>3. QED BY <3>2, <4>2 DEF Connection, Ahead, old
    <3>3. QED BY <3>1, <3>2
  <2>3. QED BY <1>4, <1>8, <1>9, <2>1, <2>2 DEF Ahead, LastPart
<1>13. \A d \in Client \ {c} : Apart(d)
  BY <1>1 DEF Apart, clients
<1>14. QED BY <1>5, <1>6, <1>7, <1>11, <1>12, <1>13, OneClient DEF Connection

-----------------------------------------------------------------------------
(* A reset leaves a prefix of what is on its way, of one client.           *)
LEMMA ResetFacts ==
  ASSUME TypeOK, NEW c \in Client, ResetByServer(c)
  PROVE  /\ inflight' \in [Client -> Seq(Part)]
         /\ cut' \in [Client -> BOOLEAN]
         /\ Len(inflight'[c]) <= Len(inflight[c])
         /\ \A k \in 1 .. Len(inflight'[c]) : inflight'[c][k] = inflight[c][k]
         /\ \A d \in Client \ {c} : inflight'[d] = inflight[d] /\ cut'[d] = cut[d]
<1>1. PICK n \in 0 .. Len(inflight[c]) :
        /\ inflight' = [inflight EXCEPT ![c] = SubSeq(@, 1, n)]
        /\ cut' = [cut EXCEPT ![c] = @ \/ n < Len(inflight[c])]
  BY DEF ResetByServer
<1>2. inflight[c] \in Seq(Part) /\ Len(inflight[c]) \in Nat
  BY DEF TypeOK
<1>3. /\ SubSeq(inflight[c], 1, n) \in Seq(Part)
      /\ Len(SubSeq(inflight[c], 1, n)) = n
      /\ \A k \in 1 .. n : SubSeq(inflight[c], 1, n)[k] = inflight[c][k]
  BY <1>2
<1>4. (cut[c] \/ n < Len(inflight[c])) \in BOOLEAN
  OBVIOUS
<1>5. cut' \in [Client -> BOOLEAN]
  BY <1>1, <1>4 DEF TypeOK
<1>6. QED BY <1>1, <1>2, <1>3, <1>5 DEF TypeOK

(* When there is no session any more, what is said of the parts on their   *)
(* way holds of each prefix of them, whatever else is sent.                *)
LEMMA PrefixKeeps ==
  ASSUME Inv, NEW c \in Client,
         session'[c] = "over", req'[c] = req[c], read'[c] = read[c],
         \A k \in 1 .. Len(sent[c]) : sent'[c][k] = sent[c][k],
         inflight'[c] \in Seq(Part), Len(inflight'[c]) <= Len(inflight[c]),
         \A k \in 1 .. Len(inflight'[c]) : inflight'[c][k] = inflight[c][k]
  PROVE  Parted(c)' /\ Ahead(c)'
<1> USE DEF Inv, TypeOK
<1>1. /\ Len(inflight[c]) \in Nat /\ Len(inflight'[c]) \in Nat
      /\ req[c] \in Nat /\ Len(sent[c]) \in Nat /\ req[c] <= Len(sent[c])
      /\ inflight[c] \in Seq(Part)
  BY DEF Connection, Requests
<1>2. \A n \in 1 .. req[c] : sent'[c][n] = sent[c][n]
  BY <1>1
<1>3. \A n \in 1 .. req[c] : LastPart(c, n)' = LastPart(c, n)
  BY <1>2 DEF LastPart
<1>4. \A k \in 1 .. Len(inflight'[c]) : k \in 1 .. Len(inflight[c])
  BY <1>1
<1>5. Parted(c)'
  <2>1. ASSUME NEW k \in 1 .. Len(inflight'[c])
        PROVE  /\ inflight'[c][k][2] \in 1 .. req'[c]
               /\ inflight'[c][k][1] = "body"
                    => HasBody(sent'[c][inflight'[c][k][2]])
    <3>1. k \in 1 .. Len(inflight[c]) /\ inflight'[c][k] = inflight[c][k]
      BY <1>4
    <3>2. /\ inflight[c][k][2] \in 1 .. req[c]
          /\ inflight[c][k][1] = "body"
               => HasBody(sent[c][inflight[c][k][2]])
      BY <3>1 DEF Connection, Parted
    <3>3. sent'[c][inflight[c][k][2]] = sent[c][inflight[c][k][2]]
      BY <1>2, <3>2
    <3>4. QED BY <3>1, <3>2, <3>3
  <2>2. ASSUME NEW k \in 1 .. Len(inflight'[c]) - 1
        PROVE  Follows(c, inflight[c][k], inflight[c][k + 1])'
    <3>1. k \in 1 .. Len(inflight'[c]) /\ k + 1 \in 1 .. Len(inflight'[c])
      BY <1>1
    <3>2. k \in 1 .. Len(inflight[c]) /\ k \in 1 .. Len(inflight[c]) - 1
      BY <1>1
    <3>3. /\ Follows(c, inflight[c][k], inflight[c][k + 1])
          /\ inflight[c][k][2] \in 1 .. req[c]
      BY <3>2 DEF Connection, Parted
    <3>4. /\ inflight'[c][k] = inflight[c][k]
          /\ inflight'[c][k + 1] = inflight[c][k + 1]
      BY <3>1
    <3>5. sent'[c][inflight[c][k][2]] = sent[c][inflight[c][k][2]]
      BY <1>2, <3>3
    <3>6. QED BY <3>3, <3>4, <3>5 DEF Follows, LastPart
  <2>3. QED BY <2>1, <2>2 DEF Parted
<1>6. Ahead(c)'
  <2>1. Len(read'[c]) <= req'[c]
    BY DEF Connection, Ahead
  <2> SUFFICES ASSUME inflight'[c] # <<>>
               PROVE  \/ inflight'[c][1] = <<"header", Len(read[c]) + 1>>
                      \/ /\ inflight'[c][1] = <<"body", Len(read[c])>>
                         /\ sent'[c][Len(read[c])].method = "HEAD"
    BY <2>1 DEF Ahead
  <2>2. 1 \in 1 .. Len(inflight'[c]) /\ 1 \in 1 .. Len(inflight[c])
    BY <1>1, <1>4
  <2>3. inflight[c] # <<>> /\ inflight'[c][1] = inflight[c][1]
    BY <1>1, <2>2
  <2>4. inflight[c][1][2] \in 1 .. req[c]
    BY <2>2 DEF Connection, Parted
  <2>5. CASE inflight[c][1] = <<"body", Len(read[c])>>
    <3>1. Len(read[c]) \in 1 .. req[c]
      BY <2>4, <2>5
    <3>2. sent'[c][Len(read[c])] = sent[c][Len(read[c])]
      BY <1>2, <3>1
    <3>3. QED BY <2>3, <2>5, <3>2 DEF Connection, Ahead
  <2>6. CASE inflight[c][1] # <<"body", Len(read[c])>>
    BY <2>3, <2>6 DEF Connection, Ahead
  <2>7. QED BY <2>5, <2>6
<1>7. QED BY <1>5, <1>6

(* The session ends after a response, or another request is read.          *)
LEMMA OnWriteInv ==
  ASSUME Inv, NEW c \in Client, OnWrite(c)
  PROVE  Inv'
<1> USE DEF Inv, TypeOK
<1>1. /\ session[c] = "written" /\ req[c] \in 1 .. Len(sent[c])
      /\ UNCHANGED <<program, buffer_, req, unread, clients>>
      /\ Len(sent[c]) \in Nat
  BY DEF OnWrite, Running, Connection, Requests
<1>2. CASE ~ Closes(sent[c][req[c]])
  <2>1. /\ session' = [session EXCEPT ![c] = "reading"]
        /\ UNCHANGED <<inflight, cut>>
    BY <1>2 DEF OnWrite, Goto
  <2>2. TypeOK'
    BY <1>1, <2>1 DEF clients
  <2>3. Requests(c)' /\ Ending(c)' /\ Stepping(c)' /\ Overtaking(c)'
    BY <1>1, <2>1
       DEF Connection, Requests, Ending, Stepping, Overtaking, clients
  <2>4. Parted(c)'
    BY <1>1, <2>1 DEF Connection, Parted, Follows, LastPart, clients
  <2>5. Ahead(c)'
    BY <1>1, <2>1 DEF Connection, Ahead, LastPart, Answers, clients
  <2>6. \A d \in Client \ {c} : Apart(d)
    BY <1>1, <2>1 DEF Apart, clients
  <2>7. QED BY <2>2, <2>3, <2>4, <2>5, <2>6, OneClient DEF Connection
<1>3. CASE Closes(sent[c][req[c]])
  <2>1. /\ session' = [session EXCEPT ![c] = "over"]
        /\ IF unread[c] = <<>> THEN UNCHANGED <<inflight, cut>>
           ELSE ResetByServer(c)
    BY <1>3 DEF OnWrite, Goto, Destroy
  <2>2. Ends(sent[c][req[c]]) /\ req[c] \in DOMAIN sent[c]
    BY <1>1, <1>3 DEF Ends
  <2>3. /\ inflight' \in [Client -> Seq(Part)]
        /\ cut' \in [Client -> BOOLEAN]
        /\ Len(inflight'[c]) <= Len(inflight[c])
        /\ \A k \in 1 .. Len(inflight'[c]) : inflight'[c][k] = inflight[c][k]
        /\ \A d \in Client \ {c} :
             inflight'[d] = inflight[d] /\ cut'[d] = cut[d]
    <3>1. CASE unread[c] = <<>>
      BY <2>1, <3>1
    <3>2. CASE unread[c] # <<>>
      BY <2>1, <3>2, ResetFacts
    <3>3. QED BY <3>1, <3>2
  <2>4. TypeOK'
    BY <1>1, <2>1, <2>3 DEF clients
  <2>5. Requests(c)'
    BY <1>1, <2>1 DEF Connection, Requests, clients
  <2>6. Ending(c)' /\ Stepping(c)'
    BY <1>1, <2>1, <2>2 DEF Connection, Ending, Stepping, clients
  <2>7. Overtaking(c)'
    <3>1. CASE unread[c] = <<>>
      BY <1>1, <2>1, <3>1 DEF Connection, Overtaking, clients
    <3>2. CASE unread[c] # <<>>
      <4>1. Len(unread[c]) \in Nat \ {0} /\ Len(buffer_[c]) \in Nat
        BY <3>2
      <4>2. req[c] < Len(sent[c])
        <5>1. Len(sent[c]) = req[c] + Len(buffer_[c]) + Len(unread[c])
          BY <1>1 DEF Connection, Requests
        <5> HIDE DEF Inv, TypeOK
        <5>2. QED BY <1>1, <4>1, <5>1
      <4>3. QED BY <1>1, <2>2, <4>2 DEF Overtaking, clients
    <3>3. QED BY <3>1, <3>2
  <2>8. Parted(c)' /\ Ahead(c)'
    BY <1>1, <2>1, <2>3, PrefixKeeps DEF clients
  <2>9. \A d \in Client \ {c} : Apart(d)
    BY <1>1, <2>1, <2>3 DEF Apart, clients
  <2>10. QED BY <2>4, <2>5, <2>6, <2>7, <2>8, <2>9, OneClient DEF Connection
<1>4. QED BY <1>2, <1>3

(* It ends with an error: the client has lost the connection, or has sent  *)
(* what is no request, and this is the next that the session reads.        *)
LEMMA OnErrorInv ==
  ASSUME Inv, NEW c \in Client, OnError(c)
  PROVE  Inv'
<1> USE DEF Inv, TypeOK
<1>1. /\ session[c] # "over" /\ session' = [session EXCEPT ![c] = "over"]
      /\ ResetByServer(c)
      /\ UNCHANGED <<program, buffer_, req, unread, clients>>
  BY DEF OnError, Goto
<1>2. /\ inflight' \in [Client -> Seq(Part)]
      /\ cut' \in [Client -> BOOLEAN]
      /\ Len(inflight'[c]) <= Len(inflight[c])
      /\ \A k \in 1 .. Len(inflight'[c]) : inflight'[c][k] = inflight[c][k]
      /\ \A d \in Client \ {c} : inflight'[d] = inflight[d] /\ cut'[d] = cut[d]
  BY <1>1, ResetFacts
<1>3. \/ client[c] = "reset"
      \/ \E n \in DOMAIN sent[c] : sent[c][n].method = "garbage"
  <2>1. CASE client[c] = "reset"
    BY <2>1
  <2>2. CASE client[c] # "reset"
    <3>1. buffer_[c] # <<>> /\ sent[c][Head(buffer_[c])].method = "garbage"
      BY <2>2 DEF OnError, Parsed
    <3>2. /\ Len(buffer_[c]) \in Nat \ {0} /\ Head(buffer_[c]) = buffer_[c][1]
          /\ Len(unread[c]) \in Nat /\ req[c] \in Nat /\ Len(sent[c]) \in Nat
      <4>1. /\ buffer_[c] \in Seq(Nat) /\ unread[c] \in Seq(Nat)
            /\ req[c] \in Nat /\ sent[c] \in Seq(Request)
        OBVIOUS
      <4> HIDE DEF Inv, TypeOK
      <4>2. QED BY <3>1, <4>1
    <3>3. buffer_[c][1] = req[c] + 1
      <4>1. 1 \in 1 .. Len(buffer_[c]) /\ Requests(c)
        BY <3>2 DEF Connection
      <4>2. QED BY <1>1, <4>1 DEF Requests
    <3>4. req[c] + 1 \in DOMAIN sent[c]
      BY <1>1, <3>2 DEF Connection, Requests
    <3>5. QED BY <3>1, <3>2, <3>3, <3>4
  <2>3. QED BY <2>1, <2>2
<1>4. TypeOK'
  BY <1>1, <1>2 DEF clients
<1>5. Requests(c)' /\ Stepping(c)'
  BY <1>1 DEF Connection, Requests, Stepping, clients
<1>6. Ending(c)' /\ Overtaking(c)'
  BY <1>1, <1>3 DEF Ending, Overtaking, Ends, clients
<1>7. Parted(c)' /\ Ahead(c)'
  BY <1>1, <1>2, PrefixKeeps DEF clients
<1>8. \A d \in Client \ {c} : Apart(d)
  BY <1>1, <1>2 DEF Apart, clients
<1>9. QED BY <1>4, <1>5, <1>6, <1>7, <1>8, OneClient DEF Connection

-----------------------------------------------------------------------------
(* One more request, which is unread while there is a session.             *)
LEMMA SendInv ==
  ASSUME Inv, NEW c \in Client, Send(c)
  PROVE  Inv'
<1> USE DEF Inv, TypeOK
<1>1. PICK q \in Asks[c] :
        /\ sent' = [sent EXCEPT ![c] = Append(@, q)]
        /\ IF session[c] = "over"
           THEN ResetByServer(c) /\ UNCHANGED unread
           ELSE /\ unread' = [unread EXCEPT ![c] = Append(@, Len(sent[c]) + 1)]
                /\ UNCHANGED <<inflight, cut>>
  BY DEF Send
<1>2. /\ client[c] = "open"
      /\ UNCHANGED <<program, session, buffer_, req, client, read, lostStep>>
  BY DEF Send, server
<1>3. /\ q \in Request /\ sent[c] \in Seq(Request) /\ Len(sent[c]) \in Nat
      /\ req[c] \in Nat /\ req[c] <= Len(sent[c])
  <2>1. Asks[c] \subseteq Request
    BY HttpAssumption
  <2>2. Requests(c)
    BY DEF Connection
  <2>3. QED BY <1>1, <2>1, <2>2 DEF Requests
<1>4. /\ sent' \in [Client -> Seq(Request)]
      /\ sent'[c] \in Seq(Request) /\ Len(sent'[c]) = Len(sent[c]) + 1
      /\ sent'[c][Len(sent[c]) + 1] = q
      /\ \A k \in 1 .. Len(sent[c]) : sent'[c][k] = sent[c][k]
      /\ DOMAIN sent[c] = 1 .. Len(sent[c])
      /\ DOMAIN sent[c] \subseteq DOMAIN sent'[c]
  BY <1>1, <1>3
<1>5. Stepping(c)'
  <2>1. Stepping(c) /\ DOMAIN read[c] = 1 .. Len(read[c]) /\ Len(read[c]) \in Nat
    BY DEF Connection
  <2>2. \A n \in DOMAIN read[c] : sent'[c][n] = sent[c][n]
    BY <1>3, <1>4, <2>1 DEF Connection, Ahead
  <2>3. read'[c] = read[c] /\ lostStep'[c] = lostStep[c]
    BY <1>2
  <2>4. QED BY <2>1, <2>2, <2>3 DEF Stepping
<1>6. session'[c] = session[c] /\ session[c] # "eof"
  BY <1>2 DEF Connection, Ending
<1>7. CASE session[c] = "over"
  <2>1. ResetByServer(c) /\ unread' = unread
    BY <1>1, <1>7
  <2>2. /\ inflight' \in [Client -> Seq(Part)]
        /\ cut' \in [Client -> BOOLEAN]
        /\ Len(inflight'[c]) <= Len(inflight[c])
        /\ \A k \in 1 .. Len(inflight'[c]) : inflight'[c][k] = inflight[c][k]
        /\ \A d \in Client \ {c} :
             inflight'[d] = inflight[d] /\ cut'[d] = cut[d]
    BY <2>1, ResetFacts
  <2>3. TypeOK'
    BY <1>2, <1>4, <2>1, <2>2
  <2>4. Requests(c)'
    BY <1>2, <1>3, <1>4, <1>7 DEF Connection, Requests
  <2>5. Ending(c)' /\ Overtaking(c)'
    <3>1. PICK n \in DOMAIN sent[c] : Ends(sent[c][n])
      BY <1>2, <1>7 DEF Connection, Ending
    <3>2. n \in DOMAIN sent'[c] /\ Ends(sent'[c][n]) /\ n < Len(sent'[c])
      BY <1>3, <1>4, <3>1
    <3>3. QED BY <1>6, <3>2 DEF Ending, Overtaking
  <2>6. Parted(c)' /\ Ahead(c)'
    BY <1>2, <1>4, <1>7, <2>2, PrefixKeeps
  <2>7. \A d \in Client \ {c} : Apart(d)
    BY <1>1, <1>2, <2>1, <2>2 DEF Apart
  <2>8. QED BY <1>5, <2>3, <2>4, <2>5, <2>6, <2>7, OneClient DEF Connection
<1>8. CASE session[c] # "over"
  <2>1. /\ unread' = [unread EXCEPT ![c] = Append(@, Len(sent[c]) + 1)]
        /\ UNCHANGED <<inflight, cut>>
    BY <1>1, <1>8
  <2>2. unread[c] \in Seq(Nat) /\ Len(unread[c]) \in Nat
    OBVIOUS
  <2>3. /\ unread'[c] \in Seq(Nat) /\ Len(unread'[c]) = Len(unread[c]) + 1
        /\ unread'[c][Len(unread[c]) + 1] = Len(sent[c]) + 1
        /\ \A k \in 1 .. Len(unread[c]) : unread'[c][k] = unread[c][k]
    BY <1>3, <2>1, <2>2
  <2>4. TypeOK'
    BY <1>2, <1>3, <1>4, <2>1, <2>3
  <2>5. Requests(c)'
    <3>1. /\ Len(buffer_[c]) \in Nat
          /\ Len(sent[c]) = req[c] + Len(buffer_[c]) + Len(unread[c])
          /\ \A k \in 1 .. Len(buffer_[c]) : buffer_[c][k] = req[c] + k
          /\ \A k \in 1 .. Len(unread[c]) :
               unread[c][k] = req[c] + Len(buffer_[c]) + k
      BY <1>8 DEF Connection, Requests
    <3>3. ASSUME NEW k \in 1 .. Len(unread'[c])
          PROVE  unread'[c][k] = req[c] + Len(buffer_[c]) + k
      <4>1. CASE k = Len(unread[c]) + 1
        <5>1. req[c] + Len(buffer_[c]) + k = Len(sent[c]) + 1
          BY <1>3, <2>2, <3>1, <4>1
        <5>2. QED BY <2>3, <4>1, <5>1
      <4>2. CASE k # Len(unread[c]) + 1
        <5>1. k \in 1 .. Len(unread[c])
          BY <2>2, <2>3, <4>2
        <5>2. QED BY <2>3, <3>1, <5>1
      <4>3. QED BY <4>1, <4>2
    <3>4. Len(sent'[c]) = req[c] + Len(buffer_[c]) + Len(unread'[c])
      BY <1>3, <1>4, <2>2, <2>3, <3>1
    <3>5. /\ req'[c] = req[c] /\ buffer_'[c] = buffer_[c]
          /\ session'[c] = session[c]
      BY <1>2
    <3>6. req[c] <= Len(sent'[c])
      BY <1>3, <1>4
    <3>7. session[c] \in {"writing", "written"} => req[c] > 0
      BY DEF Connection, Requests
    <3>8. QED BY <3>1, <3>3, <3>4, <3>5, <3>6, <3>7 DEF Requests
  <2>6. Overtaking(c)'
    <3>1. cut'[c] = cut[c] /\ client'[c] = client[c]
      BY <1>2, <2>1
    <3>2. ASSUME cut[c], NEW n \in DOMAIN sent[c], Ends(sent[c][n])
          PROVE  Overtaking(c)'
      <4>1. n \in DOMAIN sent'[c] /\ Ends(sent'[c][n]) /\ n < Len(sent'[c])
        BY <1>3, <1>4, <3>2
      <4>2. QED BY <4>1 DEF Overtaking
    <3>3. QED BY <3>1, <3>2 DEF Connection, Overtaking
  <2>7. \A n \in 1 .. req[c] : LastPart(c, n)' = LastPart(c, n)
    BY <1>3, <1>4 DEF LastPart
  <2>8. /\ req' = req /\ inflight' = inflight /\ read' = read
        /\ session' = session /\ Answers(c)' = Answers(c)
        /\ inflight[c] \in Seq(Part) /\ Len(inflight[c]) \in Nat
    BY <1>2, <2>1 DEF Answers
  <2>9. ASSUME NEW n \in 1 .. req[c] PROVE sent'[c][n] = sent[c][n]
    BY <1>3, <1>4
  <2>10. Parted(c)'
    <3>1. ASSUME NEW k \in 1 .. Len(inflight[c]),
                 inflight[c][k][1] = "body"
          PROVE  HasBody(sent'[c][inflight[c][k][2]])
      BY <2>9, <3>1 DEF Connection, Parted
    <3>2. ASSUME NEW k \in 1 .. Len(inflight[c]) - 1
          PROVE  Follows(c, inflight[c][k], inflight[c][k + 1])'
      <4>1. k \in 1 .. Len(inflight[c])
        BY <2>8
      <4>2. sent'[c][inflight[c][k][2]] = sent[c][inflight[c][k][2]]
        BY <2>9, <4>1 DEF Connection, Parted
      <4>3. Follows(c, inflight[c][k], inflight[c][k + 1])
        BY DEF Connection, Parted
      <4>4. QED BY <2>8, <4>2, <4>3 DEF Follows, LastPart
    <3>3. QED BY <2>8, <3>1, <3>2 DEF Connection, Parted
  <2>11. Ahead(c)'
    <3>1. ASSUME inflight[c] # <<>>,
                 inflight[c][1] = <<"body", Len(read[c])>>
          PROVE  sent'[c][Len(read[c])] = sent[c][Len(read[c])]
      <4>1. 1 \in 1 .. Len(inflight[c])
        BY <2>8, <3>1
      <4>2. inflight[c][1][2] \in 1 .. req[c]
        BY <4>1 DEF Connection, Parted
      <4>3. inflight[c][1][2] = Len(read[c])
        BY <3>1
      <4>4. QED BY <2>9, <4>2, <4>3
    <3>2. ASSUME inflight[c] # <<>>
          PROVE  /\ inflight[c][Len(inflight[c])] = LastPart(c, Answers(c))
                 /\ LastPart(c, Answers(c))' = LastPart(c, Answers(c))
      <4>1. inflight[c][Len(inflight[c])] = LastPart(c, Answers(c))
        BY <1>8, <3>2 DEF Connection, Ahead
      <4>2. LastPart(c, Answers(c))[2] = Answers(c)
        BY DEF LastPart
      <4>3. Len(inflight[c]) \in 1 .. Len(inflight[c])
        BY <2>8, <3>2
      <4>4. Answers(c) \in 1 .. req[c]
        <5>1. inflight[c][Len(inflight[c])][2] \in 1 .. req[c]
          BY <4>3 DEF Connection, Parted
        <5>2. QED BY <4>1, <4>2, <5>1
      <4>5. sent'[c][Answers(c)] = sent[c][Answers(c)]
        BY <2>9, <4>4
      <4>6. QED BY <2>8, <4>1, <4>5 DEF LastPart
    <3>3. QED BY <2>8, <3>1, <3>2 DEF Connection, Ahead
  <2>12. \A d \in Client \ {c} : Apart(d)
    BY <1>1, <1>2, <2>1 DEF Apart
  <2>13. Ending(c)'
    BY <1>6, <1>8 DEF Ending
  <2>14. QED BY <1>5, <2>4, <2>5, <2>6, <2>10, <2>11, <2>12, <2>13, OneClient
             DEF Connection
<1>9. QED BY <1>7, <1>8

-----------------------------------------------------------------------------
(* The client reads a header, and the body behind it unless it answers a   *)
(* HEAD; or it finds a body in the place of a header.                      *)
LEMMA ReceiveInv ==
  ASSUME Inv, NEW c \in Client, Receive(c)
  PROVE  Inv'
<1> USE DEF Inv, TypeOK
<1> DEFINE fl   == inflight[c]
           n    == fl[1][2]
           size == IF \/ Len(fl) = 1
                      \/ sent[c][Len(read[c]) + 1].method = "HEAD"
                      \/ fl[2] # <<"body", n>> THEN 1 ELSE 2
<1>1. /\ fl \in Seq(Part) /\ fl # <<>> /\ Len(fl) \in Nat \ {0}
      /\ Head(fl) = fl[1] /\ 1 \in 1 .. Len(fl) /\ Len(read[c]) \in Nat
      /\ read[c] \in Seq(Nat)
  BY DEF Receive
<1>2. /\ UNCHANGED <<program, session, buffer_, req, unread, sent, client,
                     cut>>
      /\ IF fl[1][1] = "header"
         THEN /\ read' = [read EXCEPT ![c] = Append(@, n)]
              /\ inflight' = [inflight EXCEPT ![c] = SubSeq(@, size + 1, Len(@))]
              /\ UNCHANGED lostStep
         ELSE /\ lostStep' = [lostStep EXCEPT ![c] = TRUE]
              /\ UNCHANGED <<read, inflight>>
  BY <1>1 DEF Receive, server
<1>3. Requests(c)' /\ Ending(c)' /\ Overtaking(c)'
  BY <1>2 DEF Connection, Requests, Ending, Overtaking
<1>4. /\ \A k \in 1 .. Len(fl) :
           /\ fl[k][2] \in 1 .. req[c]
           /\ fl[k][1] = "body" => HasBody(sent[c][fl[k][2]])
      /\ \A k \in 1 .. Len(fl) - 1 : Follows(c, fl[k], fl[k + 1])
      /\ \/ fl[1] = <<"header", Len(read[c]) + 1>>
         \/ /\ fl[1] = <<"body", Len(read[c])>>
            /\ sent[c][Len(read[c])].method = "HEAD"
      /\ session[c] # "over" => fl[Len(fl)] = LastPart(c, Answers(c))
      /\ Len(read[c]) <= req[c]
  BY <1>1 DEF Connection, Parted, Ahead
<1>5. n \in 1 .. req[c] /\ req[c] \in Nat
  BY <1>1, <1>4
<1>6. CASE fl[1][1] # "header"
  <2>1. /\ lostStep' = [lostStep EXCEPT ![c] = TRUE]
        /\ UNCHANGED <<read, inflight>>
    BY <1>2, <1>6
  <2>2. TypeOK'
    BY <1>2, <2>1
  <2>3. Parted(c)' /\ Ahead(c)'
    BY <1>2, <2>1 DEF Connection, Parted, Ahead, Follows, LastPart, Answers
  <2>4. /\ fl[1] = <<"body", Len(read[c])>>
        /\ sent[c][Len(read[c])].method = "HEAD"
    BY <1>4, <1>6
  <2>5. n = Len(read[c]) /\ HasBody(sent[c][n]) /\ n \in DOMAIN read[c]
    <3>1. fl[1][1] = "body" /\ fl[1][2] = Len(read[c])
      BY <2>4
    <3>2. HasBody(sent[c][fl[1][2]])
      BY <1>1, <1>4, <3>1
    <3>3. Len(read[c]) \in DOMAIN read[c]
      BY <1>1, <1>5, <3>1
    <3>4. QED BY <3>1, <3>2, <3>3
  <2>6. Stepping(c)'
    BY <1>2, <2>1, <2>4, <2>5 DEF Connection, Stepping
  <2>7. \A d \in Client \ {c} : Apart(d)
    BY <1>2, <2>1 DEF Apart
  <2>8. QED BY <1>3, <2>2, <2>3, <2>6, <2>7, OneClient DEF Connection
<1>7. CASE fl[1][1] = "header"
  <2> DEFINE rest == SubSeq(fl, size + 1, Len(fl))
  <2>1. /\ read' = [read EXCEPT ![c] = Append(@, n)]
        /\ inflight' = [inflight EXCEPT ![c] = rest]
        /\ UNCHANGED lostStep
    BY <1>2, <1>7
  <2>2. fl[1] = <<"header", n>> /\ n = Len(read[c]) + 1
    BY <1>4, <1>7
  <2>3. size \in {1, 2} /\ size <= Len(fl)
    <3>1. size = 1 \/ (size = 2 /\ Len(fl) # 1)
      OBVIOUS
    <3>2. Len(fl) \in Nat \ {0}
      BY <1>1
    <3>3. \A len \in Nat \ {0} : len = 1 \/ 2 <= len
      OBVIOUS
    <3>4. Len(fl) = 1 \/ 2 <= Len(fl)
      BY <3>2, <3>3
    <3>5. 1 <= Len(fl)
      BY <3>2
    <3> HIDE DEF size, fl
    <3>6. QED BY <3>1, <3>4, <3>5
  <2>4. /\ size = 2 => fl[2] = <<"body", n>>
        /\ size = 1 => \/ Len(fl) = 1 \/ sent[c][n].method = "HEAD"
                       \/ fl[2] # <<"body", n>>
    BY <2>2
  <2> HIDE DEF size
  <2>5. /\ rest \in Seq(Part) /\ Len(rest) = Len(fl) - size
        /\ \A k \in 1 .. Len(rest) : rest[k] = fl[k + size]
    BY <1>1, <2>3
  <2> HIDE DEF rest, fl, n
  <2>6. /\ inflight'[c] = rest /\ read'[c] = Append(read[c], n)
        /\ session'[c] = session[c] /\ req'[c] = req[c] /\ sent' = sent
    BY <1>2, <2>1
  <2>7. /\ read'[c] \in Seq(Nat) /\ Len(read'[c]) = n
        /\ read'[c][n] = n /\ DOMAIN read'[c] = 1 .. n
        /\ \A k \in 1 .. Len(read[c]) : read'[c][k] = read[c][k]
        /\ DOMAIN read[c] = 1 .. Len(read[c])
    BY <1>1, <1>5, <2>2, <2>6
  <2>8. TypeOK'
    BY <1>2, <2>1, <2>5, <2>7
  <2>9. Parted(c)'
    <3>1. ASSUME NEW k \in 1 .. Len(rest)
          PROVE  /\ rest[k][2] \in 1 .. req[c]
                 /\ rest[k][1] = "body" => HasBody(sent[c][rest[k][2]])
      <4>1. k + size \in 1 .. Len(fl) /\ rest[k] = fl[k + size]
        BY <1>1, <2>3, <2>5
      <4>2. QED BY <1>4, <4>1
    <3>2. ASSUME NEW k \in 1 .. Len(rest) - 1
          PROVE  Follows(c, rest[k], rest[k + 1])
      <4>1. /\ k + size \in 1 .. Len(fl) - 1 /\ rest[k] = fl[k + size]
            /\ k + 1 + size = k + size + 1 /\ rest[k + 1] = fl[k + 1 + size]
        <5>1. k \in 1 .. Len(rest) /\ k + 1 \in 1 .. Len(rest)
          BY <1>1, <2>3, <2>5
        <5>2. k + size \in 1 .. Len(fl) - 1 /\ k + 1 + size = k + size + 1
          BY <1>1, <2>3, <2>5
        <5>3. QED BY <2>5, <5>1, <5>2
      <4>2. QED BY <1>4, <4>1
    <3>3. QED BY <2>6, <3>1, <3>2 DEF Parted, Follows, LastPart
  <2>10. LastPart(c, n) = <<"body", n>> \/ LastPart(c, n) = <<"header", n>>
    BY DEF LastPart
  <2>11. ASSUME rest # <<>>
         PROVE  \/ rest[1] = <<"header", n + 1>>
                \/ /\ rest[1] = <<"body", n>>
                   /\ sent[c][n].method = "HEAD"
    <3>1. Len(rest) > 0 /\ Len(fl) > size /\ rest[1] = fl[1 + size]
      BY <1>1, <2>3, <2>5, <2>11
    <3>2. CASE size = 2
      <4>1. fl[2] = <<"body", n>> /\ 2 \in 1 .. Len(fl) - 1 /\ 2 \in 1 .. Len(fl)
        BY <1>1, <2>4, <3>1, <3>2
      <4>2. HasBody(sent[c][n]) /\ Follows(c, fl[2], fl[3])
        <5>1. fl[2][1] = "body" /\ fl[2][2] = n
          BY <4>1
        <5>2. HasBody(sent[c][n])
          BY <1>4, <4>1, <5>1
        <5>3. Follows(c, fl[2], fl[2 + 1])
          BY <1>4, <4>1
        <5>4. QED BY <5>2, <5>3
      <4>3. LastPart(c, n) = <<"body", n>> /\ fl[2][2] = n
        BY <4>1, <4>2 DEF LastPart
      <4>4. fl[3] = <<"header", n + 1>>
        BY <4>1, <4>2, <4>3 DEF Follows
      <4>5. QED BY <3>1, <3>2, <4>4
    <3>3. CASE size = 1
      <4>1. /\ 1 \in 1 .. Len(fl) - 1 /\ Follows(c, fl[1], fl[2])
            /\ fl[1][2] = n /\ Len(fl) # 1
        <5>1. 1 \in 1 .. Len(fl) - 1 /\ Len(fl) # 1
          BY <1>1, <3>1, <3>3
        <5>2. Follows(c, fl[1], fl[1 + 1])
          BY <1>4, <5>1
        <5>3. QED BY <2>2, <5>1, <5>2
      <4>2. fl[2] = <<"header", n + 1>> \/ fl[2] = <<"body", n>>
        BY <2>2, <2>10, <4>1 DEF Follows
      <4>3. rest[1] = fl[2] /\ Len(fl) > 1
        BY <3>1, <3>3
      <4>4. fl[2] = <<"body", n>> => sent[c][n].method = "HEAD"
        BY <2>4, <3>3, <4>1
      <4>5. QED BY <4>2, <4>3, <4>4
    <3>4. QED BY <2>3, <3>2, <3>3
  <2>12. Answers(c)' = Answers(c)
    BY <2>6 DEF Answers
  <2>13. ASSUME session[c] # "over", rest = <<>>
         PROVE  Answers(c) = n
    <3>1. Len(fl) = size
      BY <1>1, <2>3, <2>5, <2>13
    <3>2. fl[Len(fl)] = <<"header", n>> \/ fl[Len(fl)] = <<"body", n>>
      BY <2>2, <2>3, <2>4, <3>1
    <3>3. fl[Len(fl)][2] = n
      BY <3>2
    <3>4. LastPart(c, Answers(c))[2] = Answers(c)
      BY DEF LastPart
    <3>5. QED BY <1>4, <2>13, <3>3, <3>4
  <2>14. ASSUME session[c] # "over", rest # <<>>
         PROVE  rest[Len(rest)] = LastPart(c, Answers(c))
    <3>1. Len(rest) \in 1 .. Len(rest) /\ Len(rest) + size = Len(fl)
      BY <1>1, <2>3, <2>5, <2>14
    <3>2. rest[Len(rest)] = fl[Len(fl)]
      BY <2>5, <3>1
    <3>3. QED BY <1>4, <2>14, <3>2
  <2>15. Ahead(c)'
    <3>1. LastPart(c, Answers(c))' = LastPart(c, Answers(c))
      BY <2>6, <2>12 DEF LastPart
    <3>2. n <= req[c]
      BY <1>5
    <3>3. QED BY <2>6, <2>7, <2>11, <2>12, <2>13, <2>14, <3>1, <3>2 DEF Ahead
  <2>16. Stepping(c)'
    <3>1. Stepping(c) /\ lostStep'[c] = lostStep[c]
      BY <2>1 DEF Connection
    <3>2. ASSUME NEW k \in DOMAIN read'[c]
          PROVE  read'[c][k] = k
      <4>1. CASE k = n
        BY <2>7, <4>1
      <4>2. CASE k # n
        <5>1. k \in 1 .. Len(read[c])
          BY <1>1, <2>2, <2>7, <4>2
        <5>2. QED BY <2>7, <3>1, <5>1 DEF Stepping
      <4>3. QED BY <4>1, <4>2
    <3>3. DOMAIN read[c] \subseteq DOMAIN read'[c]
      BY <1>1, <2>2, <2>7
    <3>4. QED BY <2>6, <3>1, <3>2, <3>3 DEF Stepping
  <2>17. \A d \in Client \ {c} : Apart(d)
    BY <1>2, <2>1 DEF Apart
  <2>18. QED BY <1>3, <2>8, <2>9, <2>15, <2>16, <2>17, OneClient DEF Connection
<1>8. QED BY <1>6, <1>7

-----------------------------------------------------------------------------
LEMMA NextInv == Inv /\ [Next]_vars => Inv'
<1> SUFFICES ASSUME Inv, [Next]_vars PROVE Inv'
  OBVIOUS
<1>1. CASE UNCHANGED vars
  <2>1. TypeOK'
    BY <1>1 DEF vars, server, clients, Inv, TypeOK
  <2>2. ASSUME NEW c \in Client PROVE Connection(c)'
    BY <1>1, ApartKeeps DEF vars, server, clients, Inv, Apart
  <2>3. QED BY <2>1, <2>2 DEF Inv
<1>2. ASSUME NEW c \in Client, Step(c) PROVE Inv'
  BY <1>2, OnAcceptInv, ReadSomeInv, OnReadInv, WriteInv, OnWriteInv,
     OnErrorInv, ReadEofInv, OnEofInv DEF Step
<1>3. QED BY <1>1, <1>2, StopInv, SendInv, ReceiveInv, LeaveInv DEF Next

THEOREM Invariance == Spec => []Inv
<1>1. Init => Inv
  BY InitInv
<1>2. Inv /\ [Next]_vars => Inv'
  BY NextInv
<1>3. QED BY <1>1, <1>2, PTL DEF Spec

(* The n-th response that a client reads answers its n-th request; it can  *)
(* only lose its step by a body after the answer to a HEAD.                *)
THEOREM StaysInStep == Spec => []InStep
<1>1. Inv => InStep
  BY DEF Inv, Connection, Stepping, InStep
<1>2. QED BY <1>1, Invariance, PTL

(* A reset of the server overtakes a response only when the client has     *)
(* sent more than it could expect to be read, or something else than HTTP, *)
(* or has lost its connection.                                             *)
THEOREM NeverOvertaken == Spec => []NotOvertaken
<1>1. Inv => NotOvertaken
  BY DEF Inv, Connection, Overtaking, NotOvertaken
<1>2. QED BY <1>1, Invariance, PTL
=============================================================================
