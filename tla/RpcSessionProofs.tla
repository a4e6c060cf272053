--------------------------- MODULE RpcSessionProofs ---------------------------
(***************************************************************************)
(* Two sessions, whichever end calls, implement Rpc, and the client that   *)
(* makes one of them does not cut it off: for any number of calls, any     *)
(* values of id_ and any services.                                         *)
(***************************************************************************)
EXTENDS RpcClient, SequenceLemmas, FiniteSetTheorems

On(s) == ToSet(channel[s])

(* Calls that have been entered in the table.                              *)
Registered == {c \in Call : pc[c] \in {"send", "sent"}}

Entry(c) == reqCallbacks_[Caller[c]][id[c]]

(* Something is under way for a call, or about to be.                      *)
UnderWay(c) ==
  \/ \E s \in End : \E msg \in On(s) : msg.call = c
  \/ \E msg \in serving : msg.call = c

Waiting(c) == pc[c] = "send" \/ UnderWay(c)

(* A message is on its way to the end that it is for, at its time.         *)
Sound(s, msg) ==
  LET c == msg.call
  IN  /\ pc[c] = "sent" /\ msg.id = id[c]
      /\ msg.type = "REQUEST" =>
           s = Peer[Caller[c]] /\ msg.error = "NO_ERROR" /\ serves[c] = 0
      /\ msg.type = "RESPONSE" =>
           /\ s = Caller[c]
           /\ IF msg.error = "NO_ERROR"
              THEN serves[c] = 1 /\ c \notin EmptyReply
              ELSE c \in EmptyReply \/ Resolve[c] # "NO_ERROR"

(* One message at most is on its way for a call ...                        *)
Wire ==
  /\ \A s \in End : IsInjective(channel[s])
  /\ \A s \in End : \A msg \in On(s) : Sound(s, msg)
  /\ \A s, t \in End : \A m \in On(s), n \in On(t) :
       m.call = n.call => s = t /\ m = n

(* ... and none while its request is at the service.                       *)
Services ==
  \A msg \in serving :
    /\ msg = Request(msg.call) /\ pc[msg.call] = "sent"
    /\ serves[msg.call] = 1
    /\ \A s \in End : \A m \in On(s) : m.call # msg.call

(* A call in the table is in its own place, and has not been answered.     *)
Table ==
  \A s \in End : \A i \in Id : reqCallbacks_[s][i] # NoCall =>
    LET c == reqCallbacks_[s][i]
    IN  c \in Registered /\ Caller[c] = s /\ id[c] = i /\ runs[c] = 0

(* A call that waits keeps its place; a call that has a place shares its id*)
(* with no call that is known to share one.                                *)
Kept ==
  \A c \in Call \ shared :
    /\ Waiting(c) => Entry(c) = c
    /\ Entry(c) = c => SameId(c) \cap shared = {}

(* What has been run, and in which order.                                  *)
Ran ==
  /\ shared \subseteq Registered
  /\ \A c \in Call :
       /\ serves[c] \in {0, 1} /\ runs[c] \in {0, 1}
       /\ serves[c] = 1 => pc[c] = "sent" /\ Resolve[c] = "NO_ERROR"
       /\ runs[c] = 1 => c \in Registered
       /\ runs[c] = 1 /\ c \notin shared =>
            answer[c] = c /\ pc[c] = "sent"

Inv == TypeOK /\ Wire /\ Services /\ Table /\ Kept /\ Ran

-----------------------------------------------------------------------------
LEMMA Begins == Init => Inv
<1> SUFFICES ASSUME Init PROVE Inv
  OBVIOUS
<1> USE SessionAssumption DEF Init
<1>1. TypeOK
  BY DEF TypeOK, Id
<1>2. Wire /\ Services
  BY DEF Wire, Services, On, ToSet, IsInjective
<1>3. Table /\ Ran
  BY DEF Table, Ran
<1>4. Kept
  BY <1>1 DEF Kept, Waiting, UnderWay, Entry, On, ToSet, TypeOK
<1>5. QED BY <1>1, <1>2, <1>3, <1>4 DEF Inv

(* Each end is the peer of its peer.                                       *)
LEMMA Peers ==
  \A s \in End : Peer[s] \in End /\ Peer[s] # s /\ Peer[Peer[s]] = s
BY SessionAssumption

LEMMA Messages ==
  ASSUME TypeOK
  PROVE  /\ \A s \in End : \A m \in On(s) : m \in Message /\ m.call \in Call
         /\ \A m \in serving : m \in Message /\ m.call \in Call
<1>1. \A m \in Message : m.call \in Call
  BY DEF Message
<1>2. \A s \in End : \A k \in DOMAIN channel[s] : channel[s][k] \in Message
  BY DEF TypeOK
<1>3. QED BY <1>1, <1>2 DEF TypeOK, On, ToSet

(* An entry of the table.                                                  *)
LEMMA InTable ==
  ASSUME Table, NEW s \in End, NEW i \in Id, reqCallbacks_[s][i] # NoCall
  PROVE  LET c == reqCallbacks_[s][i]
         IN  c \in Registered /\ Caller[c] = s /\ id[c] = i /\ runs[c] = 0
BY DEF Table

(* The oldest message is taken, and another may be sent.                   *)
LEMMA Takes ==
  ASSUME TypeOK, Wire, NEW s \in End, channel[s] # <<>>
  PROVE  /\ Head(channel[s]) \in On(s) /\ Head(channel[s]) \in Message
         /\ Rest(s) \in [End -> Seq(Message)]
         /\ \A t \in End : IsInjective(Rest(s)[t])
         /\ \A t \in End : ToSet(Rest(s)[t]) \subseteq On(t)
         /\ Head(channel[s]) \notin ToSet(Rest(s)[s])
<1>1. channel[s] \in Seq(Message) /\ IsInjective(channel[s])
  BY DEF TypeOK, Wire
<1>2. /\ Rest(s)[s] = Tail(channel[s])
      /\ \A t \in End \ {s} : Rest(s)[t] = channel[t]
  BY DEF Rest, TypeOK
<1>3. Rest(s) \in [End -> Seq(Message)]
  BY <1>1, TakeOnce DEF Rest, TypeOK
<1>4. Head(channel[s]) \in Message
  BY <1>1
<1>5. /\ Head(channel[s]) \in On(s)
      /\ ToSet(Rest(s)[s]) = On(s) \ {Head(channel[s])}
      /\ IsInjective(Rest(s)[s])
  BY <1>1, <1>2, TakeOnce DEF On
<1>6. \A t \in End \ {s} : IsInjective(Rest(s)[t]) /\ ToSet(Rest(s)[t]) = On(t)
  BY <1>2 DEF On, Wire
<1>7. QED BY <1>3, <1>4, <1>5, <1>6

LEMMA Sends ==
  ASSUME NEW ch \in [End -> Seq(Message)], NEW s \in End, NEW msg \in Message,
         \A t \in End : IsInjective(ch[t]) /\ msg \notin ToSet(ch[t]),
         NEW new, new = Sent(ch, s, msg)
  PROVE  /\ new \in [End -> Seq(Message)]
         /\ \A t \in End :
              IsInjective(new[t]) /\ ToSet(new[t]) \subseteq ToSet(ch[t]) \cup {msg}
<1>1. CASE s \notin open
  BY <1>1, SMTT(30) DEF Sent
<1>2. CASE s \in open
  <2>1. /\ new \in [End -> Seq(Message)]
        /\ new[Peer[s]] = Append(ch[Peer[s]], msg)
        /\ \A t \in End \ {Peer[s]} : new[t] = ch[t]
    BY <1>2, Peers DEF Sent
  <2>2. /\ IsInjective(new[Peer[s]])
        /\ ToSet(new[Peer[s]]) = ToSet(ch[Peer[s]]) \cup {msg}
    BY <2>1, Peers, AppendOnce
  <2>3. QED BY <2>1, <2>2
<1>3. QED BY <1>1, <1>2

LEMMA SendsThere ==
  ASSUME NEW ch \in [End -> Seq(Message)], NEW s \in End, NEW msg,
         NEW new, new = Sent(ch, s, msg)
  PROVE  \A t \in End : t = Peer[s] \/ new[t] = ch[t]
BY DEF Sent

(* Messages of c give way to a single one, those of other calls stay as    *)
(* they are, or are lost.                                                  *)
LEMMA WireKept ==
  ASSUME Inv, NEW c \in Call, NEW t \in End, NEW msg \in Message,
         msg.call = c,
         channel' \in [End -> Seq(Message)],
         \A s \in End : IsInjective(channel'[s]),
         \A s \in End : \A m \in On(s)' :
           (m \in On(s) /\ m.call # c) \/ (s = t /\ m = msg),
         Sound(t, msg)',
         \A d \in Call \ {c} : pc'[d] = pc[d] /\ id'[d] = id[d]
                                /\ serves'[d] = serves[d]
  PROVE  Wire'
<1>1. \A s \in End : \A m \in On(s) : m.call \in Call
  BY Messages DEF Inv
<1>2. ASSUME NEW s \in End, NEW m \in On(s)' PROVE Sound(s, m)'
  <2>1. CASE m \in On(s) /\ m.call # c
    BY <1>1, <2>1 DEF Inv, Wire, Sound
  <2>2. QED BY <1>2, <2>1
<1>3. \A s, u \in End : \A m \in On(s)', n \in On(u)' :
        m.call = n.call => s = u /\ m = n
  BY DEF Inv, Wire
<1>4. QED BY <1>2, <1>3 DEF Wire

(* Messages may be lost, and nothing else depends on the ends.             *)
LEMMA Loses ==
  ASSUME Inv, channel' \in [End -> Seq(Message)],
         \A s \in End : IsInjective(channel'[s]) /\ On(s)' \subseteq On(s),
         open' \subseteq End, over' \subseteq End, gone' \subseteq End,
         UNCHANGED <<calls, reqCallbacks_, serving, history>>
  PROVE  Inv'
<1> USE DEF Inv, calls, history
<1>1. TypeOK'
  BY DEF TypeOK
<1>2. Wire'
  BY DEF Wire, Sound
<1>3. Services'
  BY DEF Services, Request
<1>4. Table' /\ Ran'
  BY DEF Table, Ran, Registered
<1>5. Kept'
  BY DEF Kept, Waiting, UnderWay, Entry, SameId
<1>6. QED BY <1>1, <1>2, <1>3, <1>4, <1>5

-----------------------------------------------------------------------------
(* Each step keeps the invariant.                                          *)
LEMMA StepFetchId ==
  ASSUME Inv, NEW c \in Call, FetchId(c)
  PROVE  Inv'
<1> USE DEF Inv, FetchId, Goto, ends, history
<1>0. c \notin Registered
  BY DEF Registered
<1>1. TypeOK'
  <2>1. Caller[c] \in End /\ id_[Caller[c]] \in Id
    BY SessionAssumption DEF TypeOK
  <2>2. (id_[Caller[c]] + 1) % Ids \in Id
    BY <2>1, SessionAssumption DEF Id
  <2>3. QED BY <2>1, <2>2 DEF TypeOK
<1>2. Registered' = Registered
  BY DEF Registered, TypeOK
<1>3. \A d \in Call \ {c} : pc'[d] = pc[d] /\ id'[d] = id[d]
  BY DEF TypeOK
<1>4. \A s \in End : \A m \in On(s) : m.call \in Call \ {c}
  BY Messages DEF Wire, Sound
<1>5. \A m \in serving : m.call \in Call \ {c}
  BY DEF TypeOK, Message, Services
<1>6. Wire'
  BY <1>3, <1>4 DEF Wire, Sound, On
<1>7. Services'
  BY <1>3, <1>5 DEF Services, Request, On
<1>8. Table'
  BY <1>0, <1>2, <1>3 DEF Table, TypeOK
<1>9. Kept'
  <2>1. ASSUME NEW d \in Call \ shared, d # c
        PROVE  /\ Waiting(d)' => Entry(d)' = d
               /\ Entry(d)' = d => SameId(d)' \cap shared = {}
    <3>1. Waiting(d)' => Waiting(d)
      BY <1>3, <2>1 DEF Waiting, UnderWay, On
    <3>2. Entry(d)' = Entry(d)
      BY <1>3, <2>1 DEF Entry
    <3>3. SameId(d)' \cap shared \subseteq SameId(d)
      BY <1>0, <1>3, <2>1 DEF SameId, Ran
    <3>4. QED BY <3>1, <3>2, <3>3 DEF Kept
  <2>2. ~ Waiting(c)'
    BY <1>4, <1>5 DEF Waiting, UnderWay, On, TypeOK
  <2>3. Entry(c)' # c
    <3>1. Caller[c] \in End /\ id'[c] \in Id
      BY <1>1, SessionAssumption DEF TypeOK
    <3>2. QED BY <1>0, <3>1, SessionAssumption DEF Entry, Table
  <2>4. QED BY <2>1, <2>2, <2>3 DEF Kept
<1>10. Ran'
  BY <1>0, <1>2, <1>3 DEF Ran, Registered
<1>11. QED BY <1>1, <1>6, <1>7, <1>8, <1>9, <1>10

LEMMA StepRegister ==
  ASSUME Inv, NEW c \in Call, Register(c)
  PROVE  Inv'
<1> USE DEF Inv, Register, Goto, ends
<1> DEFINE s == Caller[c]
           others == SameId(c) \cap (shared \cup {reqCallbacks_[s][id[c]]})
<1>0. c \notin Registered /\ s \in End /\ id[c] \in Id
  BY SessionAssumption DEF Registered, TypeOK
<1>1. /\ shared \subseteq shared' /\ others \subseteq shared'
      /\ shared' \subseteq shared \cup others \cup {c}
      /\ others # {} => c \in shared'
      /\ others = {} => shared' = shared
  OBVIOUS
<1>2. /\ \A u \in End, i \in Id : reqCallbacks_'[u][i] =
           IF u = s /\ i = id[c] THEN c ELSE reqCallbacks_[u][i]
      /\ TypeOK'
  <2>1. /\ reqCallbacks_' \in [End -> [Id -> Call \cup {NoCall}]]
        /\ \A u \in End, i \in Id : reqCallbacks_'[u][i] =
             IF u = s /\ i = id[c] THEN c ELSE reqCallbacks_[u][i]
    BY <1>0 DEF TypeOK
  <2>2. shared' \subseteq Call
    BY <1>1 DEF TypeOK, SameId
  <2>3. QED BY <2>1, <2>2 DEF TypeOK
<1>3. Registered' = Registered \cup {c}
      /\ \A d \in Call \ {c} : pc'[d] = pc[d]
  BY DEF Registered, TypeOK
<1>4. \A u \in End : \A m \in On(u) : m.call \in Call \ {c}
  BY Messages DEF Wire, Sound
<1>5. \A m \in serving : m.call \in Call \ {c}
  BY DEF TypeOK, Message, Services
<1>6. Wire'
  BY <1>3, <1>4 DEF Wire, Sound, On
<1>7. Services'
  BY <1>3, <1>5 DEF Services, Request, On
<1>8. Table'
  <2>1. runs[c] = 0
    BY <1>0 DEF Ran
  <2>2. QED BY <1>0, <1>2, <1>3, <2>1 DEF Table
<1>9. Kept'
  <2> SUFFICES ASSUME NEW d \in Call \ shared'
               PROVE  /\ Waiting(d)' => Entry(d)' = d
                      /\ Entry(d)' = d => SameId(d)' \cap shared' = {}
    BY DEF Kept
  <2>0. d \notin shared /\ Caller[d] \in End /\ id[d] \in Id
    BY <1>1, SessionAssumption DEF TypeOK
  <2>a. SameId(d)' = SameId(d)
    BY DEF SameId
  <2>1. CASE d = c
    <3>1. Entry(d)' = d
      BY <1>0, <1>2, <2>1 DEF Entry
    <3>2. shared' = shared /\ others = {}
      BY <1>1, <2>1
    <3>3. QED BY <2>1, <2>a, <3>1, <3>2
  <2>2. CASE d # c
    <3>1. Waiting(d)' => Waiting(d)
      BY <1>3, <2>2 DEF Waiting, UnderWay, On
    <3>2. CASE Caller[d] = s /\ id[d] = id[c]
      <4>1. d \in SameId(c) /\ Entry(d) = reqCallbacks_[s][id[c]]
        BY <2>2, <3>2 DEF SameId, Entry
      <4>2. Entry(d) # d
        BY <1>1, <4>1
      <4>3. Entry(d)' = c
        BY <1>0, <1>2, <3>2 DEF Entry
      <4>4. QED BY <2>0, <2>2, <3>1, <4>2, <4>3 DEF Kept
    <3>3. CASE ~ (Caller[d] = s /\ id[d] = id[c])
      <4>1. Entry(d)' = Entry(d)
        BY <1>2, <2>0, <3>3 DEF Entry
      <4>2. SameId(d) \cap (others \cup {c}) = {}
        BY <3>3 DEF SameId
      <4>3. /\ Waiting(d) => Entry(d) = d
            /\ Entry(d) = d => SameId(d) \cap shared = {}
        BY <2>0, Zenon DEF Kept
      <4>4. shared' \subseteq shared \cup (others \cup {c})
        BY <1>1
      <4> HIDE DEF others
      <4>5. SameId(d) \cap shared = {} => SameId(d) \cap shared' = {}
        BY <4>2, <4>4
      <4>6. QED BY <2>a, <3>1, <4>1, <4>3, <4>5
    <3>4. QED BY <3>2, <3>3
  <2>3. QED BY <2>1, <2>2
<1>10. Ran'
  <2>1. others \subseteq Registered
    BY <1>0, SessionAssumption DEF Ran, Table, SameId
  <2>2. shared' \subseteq Registered'
    BY <1>1, <1>3, <2>1 DEF Ran
  <2>3. QED BY <1>0, <1>1, <1>3, <2>2 DEF Ran, Registered
<1>11. QED BY <1>2, <1>6, <1>7, <1>8, <1>9, <1>10

(* Places are kept while the table is not changed.                         *)
LEMMA KeptStays ==
  ASSUME Inv, UNCHANGED <<reqCallbacks_, id, shared>>,
         \A d \in Call : Waiting(d)' => Waiting(d)
  PROVE  Kept'
BY DEF Inv, Kept, Entry, SameId

LEMMA StepSendRequest ==
  ASSUME Inv, NEW c \in Call, SendRequest(c)
  PROVE  Inv'
<1> USE DEF Inv, SendRequest, Goto, ends, history
<1>0. PICK msg \in Message : msg = Request(c)
  BY DEF TypeOK, Request, Message, ErrorCode
<1>1. /\ \A s \in End : \A m \in On(s) : m.call \in Call \ {c}
      /\ \A m \in serving : m.call \in Call \ {c}
  BY Messages DEF Wire, Sound, Services
<1>2. PICK u \in End : u = Peer[Caller[c]] /\ Caller[c] \in End /\ msg.call = c
  BY <1>0, Peers, SessionAssumption DEF Request
<1>3. /\ channel' \in [End -> Seq(Message)]
      /\ \A s \in End : IsInjective(channel'[s])
      /\ \A s \in End : \A m \in On(s)' :
           m \in On(s) \/ (s = u /\ m = msg)
  <2>0. PICK ch : ch = channel
    OBVIOUS
  <2>1. \A t \in End : IsInjective(ch[t]) /\ msg \notin ToSet(ch[t])
    BY <1>1, <1>2, <2>0 DEF On, Wire
  <2>2. channel' = Sent(ch, Caller[c], msg)
    BY <1>0, <2>0
  <2>3. ch \in [End -> Seq(Message)]
    BY <2>0 DEF TypeOK
  <2>4. /\ channel' \in [End -> Seq(Message)]
        /\ \A t \in End : IsInjective(channel'[t])
                         /\ ToSet(channel'[t]) \subseteq ToSet(ch[t]) \cup {msg}
    BY <1>2, <2>1, <2>2, <2>3, Sends
  <2>5. \A t \in End : t = u \/ channel'[t] = ch[t]
    BY <1>2, <2>2, <2>3, SendsThere
  <2>6. QED BY <2>0, <2>4, <2>5 DEF On
<1>4. /\ \A d \in Call \ {c} : pc'[d] = pc[d]
      /\ pc'[c] = "sent" /\ Registered' = Registered
  BY DEF TypeOK, Registered
<1>5. TypeOK'
  BY <1>3 DEF TypeOK
<1>6. Wire'
  <2>1. Sound(u, msg)'
    BY <1>0, <1>2, <1>4 DEF Sound, Request, Ran
  <2>2. \A s \in End : \A m \in On(s)' :
          (m \in On(s) /\ m.call # c) \/ (s = u /\ m = msg)
    BY <1>1, <1>3
  <2>3. QED BY <1>2, <1>3, <1>4, <2>1, <2>2, WireKept
<1>7. Services'
  BY <1>1, <1>2, <1>3, <1>4 DEF Services, Request
<1>8. Table' /\ Ran'
  BY <1>4 DEF Table, Ran
<1>9. Kept'
  <2>1. \A d \in Call : Waiting(d)' => Waiting(d)
    BY <1>2, <1>3, <1>4 DEF Waiting, UnderWay
  <2>2. QED BY <2>1, KeptStays
<1>10. QED BY <1>5, <1>6, <1>7, <1>8, <1>9

(* The head of a channel is the only thing under way for its call.         *)
LEMMA HeadIs ==
  ASSUME Inv, NEW s \in End, channel[s] # <<>>
  PROVE  LET msg == Head(channel[s])
             c   == msg.call
         IN  /\ msg \in Message /\ c \in Call /\ Sound(s, msg)
             /\ \A t \in End : \A m \in ToSet(Rest(s)[t]) :
                  m \in On(t) /\ m.call # c
             /\ \A m \in serving : m.call # c
             /\ Waiting(c)
<1>1. TypeOK /\ Wire /\ Services
  BY DEF Inv
<1>2. PICK msg \in On(s) : msg = Head(channel[s])
  BY <1>1, Takes
<1>3. msg \in Message /\ msg.call \in Call /\ Sound(s, msg)
  BY <1>1, Messages DEF Wire
<1>4. ASSUME NEW t \in End, NEW m \in ToSet(Rest(s)[t])
      PROVE  m \in On(t) /\ m.call # msg.call
  <2>1. m \in On(t) /\ (t = s => m # msg)
    BY <1>1, <1>2, Takes
  <2>2. QED BY <1>1, <2>1 DEF Wire
<1>5. \A m \in serving : m.call # msg.call
  BY <1>1 DEF Services
<1>6. Waiting(msg.call)
  BY DEF Waiting, UnderWay
<1>7. QED BY <1>2, <1>3, <1>4, <1>5, <1>6

(* Something else is under way for a call than was, and nothing else is.   *)
LEMMA Rests ==
  ASSUME Inv, NEW c \in Call, Waiting(c),
         channel' \in [End -> Seq(Message)],
         \A t \in End : IsInjective(channel'[t]),
         \A t \in End : \A m \in On(t)' : m \in On(t) /\ m.call # c,
         UNCHANGED <<pc, id, shared>>,
         \A d \in Call \ {c} : serves'[d] = serves[d],
         \A m \in serving' : m.call # c => m \in serving
  PROVE  Wire' /\ \A d \in Call : Waiting(d)' => Waiting(d)
<1>1. ASSUME NEW s \in End, NEW m \in On(s)' PROVE Sound(s, m)'
  <2>1. m \in On(s) /\ m.call \in Call \ {c}
    BY Messages DEF Inv
  <2>2. QED BY <2>1 DEF Inv, Wire, Sound
<1>2. Wire'
  BY <1>1 DEF Inv, Wire
<1>3. \A d \in Call : Waiting(d)' => Waiting(d)
  BY DEF Waiting, UnderWay
<1>4. QED BY <1>2, <1>3

LEMMA StepOnRequest ==
  ASSUME Inv, NEW s \in End, OnRequest(s)
  PROVE  Inv'
<1> USE DEF Inv, calls, ends
<1>0. /\ channel[s] # <<>> /\ Head(channel[s]).type = "REQUEST"
      /\ Head(channel[s]).intact
      /\ UNCHANGED <<calls, reqCallbacks_, ends, answer, runs, shared>>
  BY DEF OnRequest, Arrived
<1>1. PICK msg \in Message, c \in Call :
        /\ msg = Head(channel[s]) /\ c = msg.call /\ Sound(s, msg)
        /\ \A t \in End : \A m \in ToSet(Rest(s)[t]) : m \in On(t) /\ m.call # c
        /\ \A m \in serving : m.call # c
        /\ Waiting(c)
  BY <1>0, HeadIs
<1>2. /\ s = Peer[Caller[c]] /\ Peer[s] = Caller[c]
      /\ msg.error = "NO_ERROR" /\ serves[c] = 0 /\ msg = Request(c)
      /\ pc[c] = "sent" /\ msg.id = id[c]
  <2>1. /\ s = Peer[Caller[c]] /\ msg.error = "NO_ERROR" /\ serves[c] = 0
        /\ pc[c] = "sent" /\ msg.id = id[c]
    BY <1>0, <1>1 DEF Sound
  <2>2. msg = Request(c)
    BY <1>0, <1>1, <2>1 DEF Request, Message
  <2>3. QED BY <2>1, <2>2, Peers, SessionAssumption
<1>3. /\ Rest(s) \in [End -> Seq(Message)]
      /\ \A t \in End : IsInjective(Rest(s)[t])
  BY <1>0, Takes
<1>4. Table'
  BY <1>0 DEF Table, Registered
<1>5. CASE Resolve[c] = "NO_ERROR"
  <2>1. /\ channel' = Rest(s) /\ serving' = serving \cup {msg}
        /\ serves' = [serves EXCEPT ![c] = @ + 1]
    BY <1>1, <1>5 DEF OnRequest
  <2>2. serves'[c] = 1 /\ \A d \in Call \ {c} : serves'[d] = serves[d]
    BY <1>2, <2>1 DEF TypeOK
  <2>3. TypeOK'
    BY <1>0, <1>3, <2>1 DEF TypeOK
  <2>4. Wire' /\ \A d \in Call : Waiting(d)' => Waiting(d)
    BY <1>0, <1>1, <1>3, <2>1, <2>2, Rests DEF On
  <2>5. Kept'
    BY <1>0, <2>4, KeptStays
  <2>6. Services'
    <3>1. \A m \in serving : m.call \in Call \ {c}
      BY <1>1, Messages
    <3>2. \A t \in End : \A m \in On(t)' : m \in On(t) /\ m.call # c
      BY <1>1, <2>1 DEF On
    <3>3. ASSUME NEW m \in serving'
          PROVE  /\ m = Request(m.call)' /\ pc'[m.call] = "sent"
                 /\ serves'[m.call] = 1
                 /\ \A t \in End : \A n \in On(t)' : n.call # m.call
      <4>1. Request(m.call)' = Request(m.call)
        BY <1>0 DEF Request
      <4>2. CASE m = msg
        <5>1. m = Request(c)' /\ m.call = c
          BY <1>1, <1>2, <4>1, <4>2
        <5>2. pc' = pc
          BY <1>0
        <5>3. QED BY <1>2, <2>2, <3>2, <5>1, <5>2
      <4>3. CASE m \in serving
        BY <1>0, <2>2, <3>1, <3>2, <4>1, <4>3 DEF Services
      <4>4. QED BY <2>1, <4>2, <4>3
    <3>4. QED BY <3>3 DEF Services
  <2>7. Ran'
    BY <1>0, <1>2, <1>5, <2>2 DEF Ran, Registered
  <2>8. QED BY <1>4, <2>3, <2>4, <2>5, <2>6, <2>7
<1>6. CASE Resolve[c] # "NO_ERROR"
  <2>1. PICK new : new = Response(msg, Resolve[c])
    OBVIOUS
  <2>2. channel' = Sent(Rest(s), s, new) /\ UNCHANGED <<serving, serves>>
    BY <1>1, <1>6, <2>1 DEF OnRequest
  <2>3. /\ new \in Message /\ new.call = c /\ new.type = "RESPONSE"
        /\ new.id = id[c] /\ new.error = Resolve[c]
    <3>1. Resolve[c] \in ErrorCode
      BY SessionAssumption
    <3>2. QED BY <1>1, <1>2, <2>1, <3>1 DEF Response, Message, TypeOK
  <2>4. /\ channel' \in [End -> Seq(Message)]
        /\ \A t \in End : IsInjective(channel'[t])
        /\ \A t \in End : \A m \in On(t)' :
             (m \in On(t) /\ m.call # c) \/ (t = Caller[c] /\ m = new)
    <3>0. PICK ch : ch = Rest(s)
      OBVIOUS
    <3>1. /\ ch \in [End -> Seq(Message)] /\ channel' = Sent(ch, s, new)
          /\ \A t \in End : IsInjective(ch[t]) /\ new \notin ToSet(ch[t])
      BY <1>1, <1>3, <2>2, <2>3, <3>0
    <3>2. /\ channel' \in [End -> Seq(Message)]
          /\ \A t \in End :
               /\ IsInjective(channel'[t])
               /\ ToSet(channel'[t]) \subseteq ToSet(ch[t]) \cup {new}
      BY <2>3, <3>1, Sends
    <3>3. \A t \in End : t = Caller[c] \/ channel'[t] = ch[t]
      BY <1>2, <3>1, SendsThere
    <3>4. QED BY <1>1, <3>0, <3>2, <3>3 DEF On
  <2>5. TypeOK'
    BY <1>0, <2>2, <2>4 DEF TypeOK
  <2>6. Wire'
    <3>1. Sound(Caller[c], new)'
      BY <1>0, <1>2, <1>6, <2>2, <2>3 DEF Sound
    <3>2. Caller[c] \in End
      BY SessionAssumption
    <3>3. QED BY <1>0, <2>2, <2>3, <2>4, <3>1, <3>2, WireKept, SMTT(30)
  <2>7. Kept'
    <3>1. \A d \in Call : Waiting(d)' => Waiting(d)
      BY <1>0, <1>1, <2>2, <2>3, <2>4 DEF Waiting, UnderWay
    <3>2. QED BY <1>0, <3>1, KeptStays
  <2>8. Services'
    BY <1>0, <1>1, <2>2, <2>3, <2>4 DEF Services, Request
  <2>9. Ran'
    BY <1>0, <2>2 DEF Ran, Registered
  <2>10. QED BY <1>4, <2>5, <2>6, <2>7, <2>8, <2>9
<1>7. QED BY <1>5, <1>6

LEMMA StepServiceDone ==
  ASSUME Inv, NEW msg \in serving, ServiceDone(msg)
  PROVE  Inv'
<1> USE DEF Inv, calls, ends, history
<1>0. PICK c \in Call, s \in End :
        c = msg.call /\ s = Peer[Caller[c]] /\ Peer[s] = Caller[c]
  <2>1. msg.call \in Call
    BY Messages
  <2>2. QED BY <2>1, Peers, SessionAssumption
<1>a. PICK new :
        new = Response(msg, IF c \in EmptyReply THEN "INVALID_REQUEST"
                            ELSE "NO_ERROR")
  OBVIOUS
<1>1. /\ channel' = Sent(channel, s, new) /\ serving' = serving \ {msg}
      /\ UNCHANGED <<calls, reqCallbacks_, ends, history>>
  BY <1>0, <1>a DEF ServiceDone
<1>2. /\ msg = Request(c) /\ pc[c] = "sent" /\ serves[c] = 1
      /\ \A t \in End : \A m \in On(t) : m.call # c
      /\ Resolve[c] = "NO_ERROR" /\ Waiting(c)
  BY <1>0 DEF Services, Ran, Waiting, UnderWay
<1>3. /\ new \in Message /\ new.call = c /\ new.type = "RESPONSE"
      /\ new.id = id[c]
      /\ new.error = IF c \in EmptyReply THEN "INVALID_REQUEST" ELSE "NO_ERROR"
  BY <1>a, <1>2 DEF Response, Request, Message, ErrorCode, TypeOK
<1>4. /\ channel' \in [End -> Seq(Message)]
      /\ \A t \in End : IsInjective(channel'[t])
      /\ \A t \in End : \A m \in On(t)' :
           (m \in On(t) /\ m.call # c) \/ (t = Caller[c] /\ m = new)
  <2>1. PICK ch : ch = channel
    OBVIOUS
  <2>2. /\ ch \in [End -> Seq(Message)] /\ channel' = Sent(ch, s, new)
        /\ \A t \in End : IsInjective(ch[t]) /\ new \notin ToSet(ch[t])
    BY <1>1, <1>2, <1>3, <2>1 DEF On, Wire, TypeOK
  <2>3. /\ channel' \in [End -> Seq(Message)]
        /\ \A t \in End : IsInjective(channel'[t])
                         /\ ToSet(channel'[t]) \subseteq ToSet(ch[t]) \cup {new}
    BY <1>3, <2>2, Sends
  <2>4. \A t \in End : t = Caller[c] \/ channel'[t] = ch[t]
    BY <1>0, <2>2, SendsThere
  <2>5. QED BY <1>2, <2>1, <2>3, <2>4 DEF On
<1>5. TypeOK'
  BY <1>1, <1>4 DEF TypeOK
<1>6. Wire'
  <2>1. Sound(Caller[c], new)'
    BY <1>0, <1>1, <1>2, <1>3 DEF Sound
  <2>2. Caller[c] \in End /\ pc' = pc /\ id' = id /\ serves' = serves
    BY <1>1, SessionAssumption
  <2>3. \A t \in End : \A m \in On(t)' :
          (m \in On(t) /\ m.call # c) \/ (t = Caller[c] /\ m = new)
    BY <1>0, <1>4
  <2>4. QED BY <1>3, <1>4, <2>1, <2>2, <2>3, WireKept
<1>7. Services'
  <2>1. \A m \in serving' : m.call # c
    BY <1>0, <1>1 DEF Services
  <2>2. QED BY <1>1, <1>3, <1>4, <2>1 DEF Services, Request
<1>8. Kept'
  <2>1. \A d \in Call : Waiting(d)' => Waiting(d)
    BY <1>1, <1>2, <1>3, <1>4 DEF Waiting, UnderWay
  <2>2. QED BY <1>1, <2>1, KeptStays
<1>9. Table' /\ Ran'
  BY <1>1 DEF Table, Ran, Registered
<1>10. QED BY <1>5, <1>6, <1>7, <1>8, <1>9

(* A response finds the entry of its own call, unless calls share its id.  *)
LEMMA Answered ==
  ASSUME Inv, NEW d \in Call, Waiting(d), NEW c \in Call, Entry(d) = c,
         d # c
  PROVE  c \in shared
<1>1. Caller[d] \in End /\ id[d] \in Id /\ c # NoCall
  BY SessionAssumption DEF Inv, TypeOK
<1>2. Caller[c] = Caller[d] /\ id[c] = id[d]
  BY <1>1 DEF Inv, Table, Entry
<1>3. Entry(c) = c /\ d \in SameId(c)
  BY <1>2 DEF Entry, SameId
<1>4. CASE d \in shared
  BY <1>3, <1>4 DEF Inv, Kept
<1>5. CASE d \notin shared
  BY <1>5 DEF Inv, Kept
<1>6. QED BY <1>4, <1>5

LEMMA StepOnResponse ==
  ASSUME Inv, NEW s \in End, OnResponse(s)
  PROVE  Inv'
<1> USE DEF Inv, calls, ends
<1>0. /\ channel[s] # <<>> /\ Head(channel[s]).type = "RESPONSE"
      /\ channel' = Rest(s)
      /\ UNCHANGED <<calls, serving, ends, serves, shared>>
  BY DEF OnResponse, Arrived
<1>1. PICK msg \in Message, d \in Call :
        /\ msg = Head(channel[s]) /\ d = msg.call /\ Sound(s, msg)
        /\ \A t \in End : \A m \in ToSet(Rest(s)[t]) : m \in On(t) /\ m.call # d
        /\ \A m \in serving : m.call # d
        /\ Waiting(d)
  BY <1>0, HeadIs
<1>2. /\ s = Caller[d] /\ msg.id = id[d] /\ id[d] \in Id /\ pc[d] = "sent"
  BY <1>0, <1>1 DEF Sound, TypeOK
<1>3. PICK c \in Call \cup {NoCall} : c = Entry(d)
  BY <1>2 DEF TypeOK, Entry
<1>4. /\ reqCallbacks_' = [reqCallbacks_ EXCEPT ![s][msg.id] = NoCall]
      /\ IF c # NoCall /\ msg.error = "NO_ERROR"
         THEN /\ answer' = [answer EXCEPT ![c] = d]
              /\ runs' = [runs EXCEPT ![c] = @ + 1]
         ELSE UNCHANGED <<answer, runs>>
  BY <1>1, <1>2, <1>3 DEF OnResponse, Entry
<1>5. /\ reqCallbacks_' \in [End -> [Id -> Call \cup {NoCall}]]
      /\ \A t \in End, i \in Id : reqCallbacks_'[t][i] =
           IF t = s /\ i = id[d] THEN NoCall ELSE reqCallbacks_[t][i]
  BY <1>2, <1>4 DEF TypeOK
<1>6. c # NoCall =>
        /\ c \in Call /\ c \in Registered /\ runs[c] = 0
        /\ Caller[c] = s /\ id[c] = id[d]
        /\ c \notin shared => c = d
  <2>1. c # NoCall => c \in Call /\ (c \notin shared => c = d)
    BY <1>1, <1>3, Answered
  <2>2. QED BY <1>2, <1>3, <2>1 DEF Table, Entry
<1>7. /\ Rest(s) \in [End -> Seq(Message)]
      /\ \A t \in End : IsInjective(Rest(s)[t])
  BY <1>0, Takes
<1>8. TypeOK'
  <2>1. runs' \in [Call -> Nat] /\ answer' \in [Call -> Call \cup {NoCall}]
    <3>1. CASE c # NoCall /\ msg.error = "NO_ERROR"
      <4>1. /\ answer' = [answer EXCEPT ![c] = d]
            /\ runs' = [runs EXCEPT ![c] = 1]
            /\ c \in Call
        BY <1>4, <1>6, <3>1 DEF TypeOK
      <4>2. QED BY <4>1 DEF TypeOK
    <3>2. CASE ~ (c # NoCall /\ msg.error = "NO_ERROR")
      BY <1>4, <3>2 DEF TypeOK
    <3>3. QED BY <3>1, <3>2
  <2>2. QED BY <1>0, <1>5, <1>7, <2>1 DEF TypeOK
<1>9. Wire' /\ \A e \in Call : Waiting(e)' => Waiting(e) /\ e # d
  <2>1. Wire' /\ \A e \in Call : Waiting(e)' => Waiting(e)
    BY <1>0, <1>1, <1>7, Rests DEF On
  <2>2. ~ Waiting(d)'
    BY <1>0, <1>1, <1>2 DEF Waiting, UnderWay, On
  <2>3. QED BY <2>1, <2>2
<1>10. Services'
  BY <1>0, <1>1 DEF Services, Request, On
<1>11. Table'
  <2> SUFFICES ASSUME NEW t \in End, NEW i \in Id, NEW e,
                      e = reqCallbacks_'[t][i], e # NoCall
               PROVE  e \in Registered' /\ Caller[e] = t /\ id'[e] = i
                      /\ runs'[e] = 0
    BY DEF Table
  <2>1. e = reqCallbacks_[t][i] /\ ~ (t = s /\ i = id[d])
    BY <1>5
  <2>2. e \in Registered /\ Caller[e] = t /\ id[e] = i /\ runs[e] = 0
    BY <2>1 DEF Table
  <2>3. runs'[e] = runs[e]
    BY <1>4, <1>6, <2>1, <2>2 DEF TypeOK, Registered
  <2>4. QED BY <1>0, <2>2, <2>3 DEF Registered
<1>12. Kept'
  <2> SUFFICES ASSUME NEW e \in Call \ shared
               PROVE  /\ Waiting(e)' => Entry(e)' = e
                      /\ Entry(e)' = e => SameId(e)' \cap shared = {}
    BY <1>0 DEF Kept
  <2>1. Caller[e] \in End /\ id[e] \in Id /\ SameId(e)' = SameId(e)
    BY <1>0, SessionAssumption DEF TypeOK, SameId
  <2>2. Entry(e)' = e => Entry(e) = e
    BY <1>0, <1>5, <2>1, SessionAssumption, SMTT(30) DEF Entry
  <2>3. ASSUME Waiting(e)' PROVE Entry(e)' = e
    <3>1. Waiting(e) /\ e # d /\ Entry(e) = e
      BY <1>9, <2>3 DEF Kept
    <3>2. ~ (Caller[e] = s /\ id[e] = id[d])
      <4> SUFFICES ASSUME Caller[e] = s, id[e] = id[d] PROVE FALSE
        OBVIOUS
      <4>1. Entry(d) = e
        BY <1>2, <3>1 DEF Entry
      <4>2. QED BY <1>1, <3>1, <4>1, Answered
    <3>3. QED BY <1>0, <1>5, <2>1, <3>1, <3>2 DEF Entry
  <2>4. QED BY <2>1, <2>2, <2>3 DEF Kept
<1>13. Ran'
  <2>1. \A e \in Call : e # c => runs'[e] = runs[e] /\ answer'[e] = answer[e]
    BY <1>4, <1>6 DEF TypeOK
  <2>2. CASE c # NoCall /\ msg.error = "NO_ERROR"
    <3>1. runs'[c] = 1 /\ answer'[c] = d
      BY <1>4, <1>6, <2>2 DEF TypeOK
    <3>2. QED BY <1>0, <1>2, <1>6, <2>1, <2>2, <3>1 DEF Ran, Registered
  <2>3. CASE ~ (c # NoCall /\ msg.error = "NO_ERROR")
    BY <1>0, <1>4, <2>3 DEF Ran, Registered
  <2>4. QED BY <2>2, <2>3
<1>14. QED BY <1>8, <1>9, <1>10, <1>11, <1>12, <1>13

LEMMA StepDamage ==
  ASSUME Inv, NEW s \in End, Damage(s)
  PROVE  Inv'
<1> USE DEF Inv, calls, ends, history
<1>1. PICK k \in DOMAIN channel[s] :
        /\ channel[s][k].intact
        /\ channel' = [channel EXCEPT ![s][k].intact = FALSE]
        /\ UNCHANGED <<calls, reqCallbacks_, serving, ends, history>>
  BY DEF Damage
<1>2. channel[s] \in Seq(Message) /\ IsInjective(channel[s])
  BY DEF TypeOK, Wire
<1>a. PICK msg \in On(s) : msg = channel[s][k]
  BY DEF On, ToSet
<1>b. PICK c \in Call : c = msg.call
  BY Messages
<1>c. PICK new : new = [msg EXCEPT !.intact = FALSE]
  OBVIOUS
<1>3. /\ msg = channel[s][k] /\ msg \in On(s) /\ msg \in Message
      /\ new = [msg EXCEPT !.intact = FALSE] /\ c = msg.call
      /\ \A m \in serving : m.call # c
  BY <1>a, <1>b, <1>c, Messages DEF Services
<1>4. /\ new \in Message /\ new.call = c /\ new.type = msg.type
      /\ new.id = msg.id /\ new.error = msg.error /\ new # msg
  BY <1>1, <1>3 DEF Message
<1>5. \A t \in End : \A m \in On(t) : m.call = c => t = s /\ m = msg
  BY <1>3 DEF Wire
<1>6. /\ channel'[s] = [channel[s] EXCEPT ![k] = new]
      /\ \A t \in End \ {s} : channel'[t] = channel[t]
  BY <1>1, <1>3 DEF TypeOK
<1>7. /\ channel'[s] \in Seq(Message) /\ IsInjective(channel'[s])
      /\ On(s)' = (On(s) \ {msg}) \cup {new}
  <2>1. new \notin ToSet(channel[s]) \ {channel[s][k]}
    BY <1>3, <1>4, <1>5 DEF On
  <2>2. PICK w : w = [channel[s] EXCEPT ![k] = new]
    OBVIOUS
  <2>3. /\ w \in Seq(Message) /\ IsInjective(w)
        /\ ToSet(w) = (ToSet(channel[s]) \ {channel[s][k]}) \cup {new}
    BY <1>2, <1>4, <2>1, <2>2, ReplaceOnce
  <2>4. QED BY <1>3, <1>6, <2>2, <2>3 DEF On
<1>8. /\ channel' \in [End -> Seq(Message)]
      /\ \A t \in End : IsInjective(channel'[t])
      /\ \A t \in End : \A m \in On(t)' :
           (m \in On(t) /\ m.call # c) \/ (t = s /\ m = new)
  <2>1. \A t \in End \ {s} : IsInjective(channel'[t]) /\ On(t)' = On(t)
    BY <1>6 DEF Wire, On
  <2>2. channel' \in [End -> Seq(Message)]
    BY <1>1, <1>6, <1>7 DEF TypeOK
  <2>3. QED BY <1>5, <1>7, <2>1, <2>2
<1>9. TypeOK'
  BY <1>1, <1>8 DEF TypeOK
<1>10. Wire'
  <2>1. Sound(s, msg)
    BY <1>3 DEF Wire
  <2>2. Sound(s, new)'
    BY <1>1, <1>3, <1>4, <2>1 DEF Sound
  <2>3. pc' = pc /\ id' = id /\ serves' = serves
    BY <1>1
  <2>4. QED BY <1>4, <1>8, <2>2, <2>3, WireKept
<1>11. Services'
  <2> SUFFICES ASSUME NEW m \in serving
               PROVE  /\ m = Request(m.call)' /\ pc'[m.call] = "sent"
                      /\ serves'[m.call] = 1
                      /\ \A t \in End : \A n \in On(t)' : n.call # m.call
    BY <1>1 DEF Services
  <2>1. Request(m.call)' = Request(m.call)
    BY <1>1 DEF Request
  <2>2. \A t \in End : \A n \in On(t)' : n.call # m.call
    <3>1. \A t \in End : \A n \in On(t) : n.call # m.call
      BY DEF Services
    <3>2. m.call # c
      BY <1>3
    <3>3. QED BY <1>4, <1>8, <3>1, <3>2
  <2>3. QED BY <1>1, <2>1, <2>2 DEF Services
<1>12. Kept'
  <2>1. \A e \in Call : Waiting(e)' => Waiting(e)
    <3>1. \A e \in Call : UnderWay(e)' => UnderWay(e)
      <4> SUFFICES ASSUME NEW e \in Call, UnderWay(e)' PROVE UnderWay(e)
        OBVIOUS
      <4>1. CASE \E m \in serving' : m.call = e
        BY <1>1, <4>1, Zenon DEF UnderWay
      <4>2. CASE \E t \in End : \E m \in On(t)' : m.call = e
        <5>1. PICK t \in End : \E m \in On(t)' : m.call = e
          BY <4>2
        <5>2. PICK m \in On(t)' : m.call = e
          BY <5>1
        <5>3. CASE m \in On(t)
          BY <5>2, <5>3, Zenon DEF UnderWay
        <5>4. CASE t = s /\ m = new
          BY <1>3, <1>4, <5>2, <5>4, Zenon DEF UnderWay
        <5>5. QED BY <1>8, <5>2, <5>3, <5>4, Zenon
      <4>3. QED BY <4>1, <4>2, Zenon DEF UnderWay
    <3>2. QED BY <1>1, <3>1, Zenon DEF Waiting
  <2>2. QED BY <1>1, <2>1, KeptStays
<1>13. Table' /\ Ran'
  BY <1>1 DEF Table, Ran, Registered
<1>14. QED BY <1>9, <1>10, <1>11, <1>12, <1>13

LEMMA StepBreak ==
  ASSUME Inv, Break
  PROVE  Inv'
<1>1. /\ channel' \in [End -> UNION {Prefixes(channel[s]) : s \in End}]
      /\ \A s \in End : channel'[s] \in Prefixes(channel[s])
      /\ open' = {}
      /\ UNCHANGED <<calls, reqCallbacks_, serving, over, gone, history>>
  BY DEF Break
<1>2. ASSUME NEW s \in End
      PROVE  /\ channel'[s] \in Seq(Message) /\ IsInjective(channel'[s])
             /\ On(s)' \subseteq On(s)
  <2>1. channel[s] \in Seq(Message) /\ IsInjective(channel[s])
    BY DEF Inv, TypeOK, Wire
  <2>2. QED BY <1>1, <2>1, PrefixOnce DEF On
<1>3. channel' \in [End -> Seq(Message)]
  BY <1>1, <1>2
<1>4. over' \subseteq End /\ gone' \subseteq End /\ open' \subseteq End
  BY <1>1 DEF Inv, TypeOK
<1>5. QED BY <1>1, <1>2, <1>3, <1>4, Loses

LEMMA StepOnDamaged ==
  ASSUME Inv, NEW s \in End, OnDamaged(s)
  PROVE  Inv'
<1>1. /\ Rest(s) \in [End -> Seq(Message)]
      /\ \A t \in End : IsInjective(Rest(s)[t])
      /\ \A t \in End : ToSet(Rest(s)[t]) \subseteq On(t)
  BY Takes DEF OnDamaged, Inv
<1>2. \A t \in End : IsInjective(channel'[t]) /\ On(t)' \subseteq On(t)
  BY <1>1 DEF OnDamaged, On
<1>3. QED BY <1>1, <1>2, Loses DEF OnDamaged, Inv, TypeOK

(* Steps that change no more than the state of the ends.                   *)
LEMMA StepEnds ==
  ASSUME Inv, open' \subseteq End, over' \subseteq End, gone' \subseteq End,
         UNCHANGED <<calls, reqCallbacks_, channel, serving, history>>
  PROVE  Inv'
<1>1. channel' \in [End -> Seq(Message)]
  BY DEF Inv, TypeOK
<1>2. \A s \in End : IsInjective(channel'[s]) /\ On(s)' \subseteq On(s)
  BY DEF Inv, Wire, On
<1>3. QED BY <1>1, <1>2, Loses

LEMMA Preserves == Inv /\ [Next]_vars => Inv'
<1> SUFFICES ASSUME Inv, [Next]_vars PROVE Inv'
  OBVIOUS
<1>1. CASE \E c \in Call : FetchId(c) \/ Register(c) \/ SendRequest(c)
  BY <1>1, StepFetchId, StepRegister, StepSendRequest
<1>2. CASE \E s \in End : OnRequest(s) \/ OnResponse(s) \/ OnDamaged(s)
  BY <1>2, StepOnRequest, StepOnResponse, StepOnDamaged
<1>3. CASE \E msg \in serving : ServiceDone(msg)
  BY <1>3, StepServiceDone
<1>4. CASE Network
  BY <1>4, StepBreak, StepDamage DEF Network
<1>5. CASE \E s \in End : disconnect(s) \/ SessionOver(s)
  <2>1. /\ open' \subseteq End /\ over' \subseteq End /\ gone' \subseteq End
        /\ UNCHANGED <<calls, reqCallbacks_, channel, serving, history>>
    BY <1>5 DEF disconnect, SessionOver, Inv, TypeOK
  <2>2. QED BY <2>1, StepEnds
<1>6. CASE UNCHANGED vars
  <2>1. /\ open' \subseteq End /\ over' \subseteq End /\ gone' \subseteq End
        /\ UNCHANGED <<calls, reqCallbacks_, channel, serving, history>>
    BY <1>6 DEF vars, ends, Inv, TypeOK
  <2>2. QED BY <2>1, StepEnds
<1>7. QED
  BY <1>1, <1>2, <1>3, <1>4, <1>5, <1>6 DEF Next, Program, Progress, Read

LEMMA Invariance == Spec => []Inv
BY Begins, Preserves, PTL DEF Spec

(* A client's step is one of the two sessions, or its program ends, or no  *)
(* session sees it.                                                        *)
LEMMA ClientSteps == [ClientNext]_allVars => [Next]_vars \/ Return
<1> USE ClientAssumption, SessionAssumption
<1>1. ASSUME Program(Client) \/ Program(Peer[Client]) \/ Network PROVE Next
  BY <1>1 DEF Next
<1>2. connect \/ Connected \/ on_connect \/ Expire => UNCHANGED vars
  BY DEF connect, Connected, on_connect, Expire
<1>3. on_connect_error \/ on_timeout => Return
  BY DEF on_connect_error, on_timeout
<1>4. on_handshake => UNCHANGED vars \/ Return
  BY DEF on_handshake
<1>5. QED BY <1>1, <1>2, <1>3, <1>4 DEF ClientNext, allVars

LEMMA ClientPreserves == Inv /\ [ClientNext]_allVars => Inv'
<1> SUFFICES ASSUME Inv, [ClientNext]_allVars PROVE Inv'
  OBVIOUS
<1>1. CASE [Next]_vars
  BY <1>1, Preserves
<1>2. CASE Return
  <2>1. /\ open' \subseteq End /\ over' \subseteq End /\ gone' \subseteq End
        /\ UNCHANGED <<calls, reqCallbacks_, channel, serving, history>>
    BY <1>2, ClientAssumption DEF Return, Inv, TypeOK
  <2>2. QED BY <2>1, StepEnds
<1>3. QED BY <1>1, <1>2, ClientSteps

LEMMA ClientInvariance == ClientSpec => []Inv
<1>1. ClientInit => Inv
  BY Begins DEF ClientInit
<1>2. QED BY <1>1, ClientPreserves, PTL DEF ClientSpec

-----------------------------------------------------------------------------
(* What the copies of a call are.                                          *)
LEMMA CopiesAre ==
  ASSUME Inv, NEW c \in Call
  PROVE  /\ Copies(c) <= 1
         /\ Copies(c) = 1 => UnderWay(c)
<1> DEFINE there == Places(c)
           here  == {msg \in serving : msg.call = c}
<1>1. \A p \in there : \E s \in End : \E k \in DOMAIN channel[s] :
        p = <<s, k>> /\ channel[s][k] \in On(s) /\ channel[s][k].call = c
  BY DEF Places, On, ToSet
<1>2. ASSUME NEW p \in there, NEW q \in there PROVE p = q
  <2>a. PICK s \in End : \E k \in DOMAIN channel[s] :
          p = <<s, k>> /\ channel[s][k] \in On(s) /\ channel[s][k].call = c
    BY <1>1
  <2>1. PICK k \in DOMAIN channel[s] :
          p = <<s, k>> /\ channel[s][k] \in On(s) /\ channel[s][k].call = c
    BY <2>a
  <2>b. PICK t \in End : \E j \in DOMAIN channel[t] :
          q = <<t, j>> /\ channel[t][j] \in On(t) /\ channel[t][j].call = c
    BY <1>1
  <2>2. PICK j \in DOMAIN channel[t] :
          q = <<t, j>> /\ channel[t][j] \in On(t) /\ channel[t][j].call = c
    BY <2>b
  <2>3. s = t /\ channel[s][k] = channel[t][j]
    BY <2>1, <2>2 DEF Inv, Wire
  <2>4. k = j
    BY <2>3 DEF Inv, Wire, IsInjective
  <2>5. QED BY <2>1, <2>2, <2>3, <2>4
<1>3. \A m, n \in here : m = n
  BY DEF Inv, Services
<1>4. there = {} \/ here = {}
  BY <1>1 DEF Inv, Services
<1>5. there = {} \/ \E p : there = {p}
  BY <1>2
<1>6. here = {} \/ \E m : here = {m}
  BY <1>3
<1> HIDE DEF there, here
<1>7. /\ Cardinality(there) \in {0, 1} /\ (there = {} => Cardinality(there) = 0)
      /\ Cardinality(here) \in {0, 1} /\ (here = {} => Cardinality(here) = 0)
  BY <1>5, <1>6, FS_EmptySet, FS_Singleton
<1>8. Copies(c) = Cardinality(there) + Cardinality(here)
  BY DEF Copies, there, here
<1>9. Copies(c) = 1 => there # {} \/ here # {}
  BY <1>7, <1>8
<1>10. there # {} \/ here # {} => UnderWay(c)
  BY <1>1 DEF UnderWay, here
<1>11. QED BY <1>4, <1>7, <1>8, <1>9, <1>10

LEMMA NoSecondCopy == Inv => OneCopy
<1> SUFFICES ASSUME Inv PROVE OneCopy
  OBVIOUS
<1>1. ASSUME NEW s \in End, NEW k \in DOMAIN channel[s], NEW msg,
             msg = channel[s][k]
      PROVE  /\ msg.id = id[msg.call]
             /\ s = IF msg.type = "REQUEST" THEN Peer[Caller[msg.call]]
                    ELSE Caller[msg.call]
  <2>1. msg \in On(s)
    BY <1>1 DEF On, ToSet
  <2>2. Sound(s, msg) /\ msg.type \in {"REQUEST", "RESPONSE"}
    BY <2>1, Messages DEF Inv, Wire, Message
  <2>3. QED BY <2>2 DEF Sound
<1>2. QED BY <1>1, CopiesAre DEF OneCopy

LEMMA EntryThere == Inv => EntryFound
<1> SUFFICES ASSUME Inv, NEW c \in Call, Copies(c) = 1, c \notin shared
             PROVE  reqCallbacks_[Caller[c]][id[c]] = c
  BY DEF EntryFound
<1>1. Waiting(c)
  BY CopiesAre DEF Waiting
<1>2. QED BY <1>1 DEF Inv, Kept, Entry

(* No request and no response of a client's session is duplicated, and     *)
(* each is for the right end and has the id of its call.                   *)
THEOREM NeverTwice == ClientSpec => []OneCopy
BY ClientInvariance, NoSecondCopy, PTL

(* on_rpc_callback finds the entry of the call that a response is for, for *)
(* every call whose id has not been taken by another while it waited.      *)
THEOREM FindsEntry == ClientSpec => []EntryFound
BY ClientInvariance, EntryThere, PTL

-----------------------------------------------------------------------------
(* StageOf, without its stages that are not of Rpc.                        *)
LEMMA StageIs ==
  ASSUME Inv, NEW c \in Call
  PROVE  StageOf(c) =
           IF c \in shared THEN IF runs[c] = 0 THEN "shared" ELSE "mixed" ELSE
           IF runs[c] = 1 THEN "answered" ELSE
           IF pc[c] # "sent" THEN "idle" ELSE
           IF Entry(c) # c THEN "failed" ELSE
           IF serves[c] = 1 THEN "served" ELSE "called"
<1>1. serves[c] \in {0, 1} /\ runs[c] \in {0, 1}
  BY DEF Inv, Ran
<1>2. ~ (serves[c] > 1 \/ runs[c] > 1)
  BY <1>1
<1>3. c \notin shared /\ runs[c] = 1 => answer[c] = c
  BY DEF Inv, Ran
<1>4. QED BY <1>2, <1>3 DEF StageOf, Entry

LEMMA StageTypes ==
  ASSUME Inv
  PROVE  \A c \in Call : StageOf(c) \in Abstract!Stage
BY StageIs DEF Abstract!Stage

LEMMA StageBegins == Init => Abstract!Init
<1> SUFFICES ASSUME Init PROVE Abstract!Init
  OBVIOUS
<1>1. ASSUME NEW c \in Call PROVE StageOf(c) = "idle"
  BY <1>1 DEF Init, StageOf
<1>2. QED BY <1>1 DEF Abstract!Init

(* A step at which one call moves on and the others stay.                  *)
LEMMA Moves ==
  ASSUME NEW c \in Call,
         \A d \in Call \ {c} : StageOf(d)' = StageOf(d),
         NEW from, NEW to, StageOf(c) \in from, StageOf(c)' = to
  PROVE  Abstract!Move(c, from, to)
BY DEF Abstract!Move

LEMMA NoMove ==
  ASSUME \A c \in Call : StageOf(c)' = StageOf(c)
  PROVE  UNCHANGED [c \in Call |-> StageOf(c)]
OBVIOUS

(* A call with the id of one that waits, or of calls that share theirs.    *)
LEMMA RegisterShares ==
  ASSUME Inv, Inv', NEW c \in Call, Register(c)
  PROVE  Abstract!Share
<1> DEFINE s == Caller[c]
           others == SameId(c) \cap (shared \cup {reqCallbacks_[s][id[c]]})
<1>0. s \in End /\ id[c] \in Id /\ c \notin Registered
  BY SessionAssumption DEF Inv, TypeOK, Register, Registered
<1>1. /\ UNCHANGED <<id, answer, runs, serves>>
      /\ reqCallbacks_' = [reqCallbacks_ EXCEPT ![s][id[c]] = c]
      /\ shared' = shared \cup others \cup (IF others = {} THEN {} ELSE {c})
      /\ pc' = [pc EXCEPT ![c] = "send"]
  BY DEF Register, Goto
<1>2. \A t \in End, i \in Id : reqCallbacks_'[t][i] =
        IF t = s /\ i = id[c] THEN c ELSE reqCallbacks_[t][i]
  BY <1>0, <1>1 DEF Inv, TypeOK
<1>3. ASSUME NEW d \in Call, StageOf(d)' # StageOf(d)
      PROVE  StageOf(d) \notin Abstract!Final /\ StageOf(d)' = "shared"
  <2>0. Caller[d] \in End /\ id[d] \in Id
    BY SessionAssumption DEF Inv, TypeOK
  <2>1. CASE d = c
    <3>1. /\ pc[c] = "register" /\ pc'[c] = "send" /\ c \notin shared
          /\ runs[c] = 0 /\ runs'[c] = 0
      BY <1>0, <1>1 DEF Register, Inv, TypeOK, Ran
    <3>2. StageOf(c) = "idle"
      BY <3>1, StageIs
    <3>3. StageOf(c)' = IF c \in shared' THEN "shared" ELSE "idle"
      BY <1>1, <3>1 DEF StageOf, Inv, Ran
    <3>4. QED BY <1>3, <2>1, <3>2, <3>3 DEF Abstract!Final
  <2>2. CASE d # c /\ d \in shared' /\ d \notin shared
    <3>1. d = reqCallbacks_[s][id[c]] /\ d \in SameId(c)
      BY <1>1, <2>2
    <3>2. Entry(d) = d /\ runs[d] = 0 /\ runs'[d] = 0
      <4>1. Caller[d] = s /\ id[d] = id[c] /\ d # NoCall
        BY <3>1, SessionAssumption DEF SameId
      <4>2. Entry(d) = d
        BY <3>1, <4>1 DEF Entry
      <4>3. runs[d] = 0
        BY <1>0, <3>1, <4>1, InTable DEF Inv
      <4>4. QED BY <1>1, <4>2, <4>3
    <3>3. StageOf(d) \notin Abstract!Final
      BY <2>2, <3>2, StageIs DEF Abstract!Final
    <3>4. StageOf(d)' = "shared"
      BY <1>1, <2>2, <3>2 DEF StageOf, Inv, Ran
    <3>5. QED BY <3>3, <3>4
  <2>3. CASE d # c /\ (d \in shared \/ d \notin shared')
    <3>1. pc'[d] = pc[d] /\ (d \in shared' <=> d \in shared)
      BY <1>1, <2>3 DEF Inv, TypeOK
    <3>2. d \in shared \/ (Entry(d)' = d <=> Entry(d) = d)
      <4> SUFFICES ASSUME d \notin shared, d \notin shared'
                   PROVE  Entry(d)' = d <=> Entry(d) = d
        BY <3>1
      <4>1. CASE Caller[d] = s /\ id[d] = id[c]
        <5>1. d # reqCallbacks_[s][id[c]]
          BY <1>1, <2>3, <4>1 DEF SameId
        <5>2. QED BY <1>1, <1>2, <2>0, <2>3, <4>1, <5>1 DEF Entry
      <4>2. CASE ~ (Caller[d] = s /\ id[d] = id[c])
        BY <1>1, <1>2, <2>0, <4>2 DEF Entry
      <4>3. QED BY <4>1, <4>2
    <3>3. StageOf(d)' = StageOf(d)
      BY <1>1, <3>1, <3>2 DEF StageOf, Entry
    <3>4. QED BY <1>3, <3>3
  <2>4. QED BY <2>1, <2>2, <2>3
<1>4. \A d \in Call : StageOf(d)' \in Abstract!Stage
  BY <1>3, StageTypes DEF Abstract!Stage
<1>5. QED BY <1>3, <1>4 DEF Abstract!Share

LEMMA SendMakes ==
  ASSUME Inv, Inv', NEW c \in Call, SendRequest(c)
  PROVE  Abstract!Make(c) \/ UNCHANGED [d \in Call |-> StageOf(d)]
<1>1. /\ UNCHANGED <<id, reqCallbacks_, answer, runs, serves, shared>>
      /\ pc[c] = "send" /\ pc'[c] = "sent"
      /\ \A d \in Call \ {c} : pc'[d] = pc[d]
  BY DEF SendRequest, Goto, history, Inv, TypeOK
<1>2. \A d \in Call \ {c} : StageOf(d)' = StageOf(d)
  BY <1>1 DEF StageOf
<1>3. CASE c \in shared
  <2>1. StageOf(c)' = StageOf(c)
    BY <1>1, <1>3 DEF StageOf
  <2>2. QED BY <1>2, <2>1, NoMove
<1>4. CASE c \notin shared
  <2>1. runs[c] = 0 /\ serves[c] = 0 /\ Entry(c) = c
    BY <1>1, <1>4 DEF Inv, Ran, Kept, Waiting
  <2>2. StageOf(c) = "idle" /\ StageOf(c)' = "called"
    BY <1>1, <1>4, <2>1 DEF StageOf, Entry
  <2>3. QED BY <1>2, <2>2, Moves DEF Abstract!Make
<1>5. QED BY <1>3, <1>4

LEMMA RequestServes ==
  ASSUME Inv, Inv', NEW s \in End, OnRequest(s)
  PROVE  \/ \E c \in Call : Abstract!Serve(c)
         \/ UNCHANGED [d \in Call |-> StageOf(d)]
<1>1. /\ channel[s] # <<>> /\ Head(channel[s]).type = "REQUEST"
      /\ UNCHANGED <<pc, id, reqCallbacks_, answer, runs, shared>>
  BY DEF OnRequest, Arrived, calls
<1>2. PICK msg \in Message, c \in Call :
        /\ msg = Head(channel[s]) /\ c = msg.call /\ Sound(s, msg) /\ Waiting(c)
  BY <1>1, HeadIs
<1>3. CASE Resolve[c] # "NO_ERROR"
  <2>1. serves' = serves
    BY <1>2, <1>3 DEF OnRequest
  <2>2. \A d \in Call : StageOf(d)' = StageOf(d)
    BY <1>1, <2>1 DEF StageOf
  <2>3. QED BY <2>2, NoMove
<1>4. CASE Resolve[c] = "NO_ERROR"
  <2>1. serves' = [serves EXCEPT ![c] = @ + 1] /\ serves[c] = 0 /\ pc[c] = "sent"
    BY <1>1, <1>2, <1>4 DEF OnRequest, Sound
  <2>2. serves'[c] = 1 /\ \A d \in Call \ {c} : serves'[d] = serves[d]
    BY <2>1 DEF Inv, TypeOK
  <2>3. \A d \in Call \ {c} : StageOf(d)' = StageOf(d)
    BY <1>1, <2>2 DEF StageOf
  <2>4. CASE c \in shared
    <3>1. StageOf(c)' = StageOf(c)
      BY <1>1, <2>1, <2>2, <2>4 DEF StageOf
    <3>2. QED BY <2>3, <3>1, NoMove
  <2>5. CASE c \notin shared
    <3>1. Entry(c) = c
      BY <1>2, <2>5 DEF Inv, Kept
    <3>2. runs[c] = 0
      BY <3>1, SessionAssumption DEF Inv, TypeOK, Table, Entry
    <3>3. StageOf(c) = "called" /\ StageOf(c)' = "served"
      BY <1>1, <2>1, <2>2, <2>5, <3>1, <3>2 DEF StageOf, Entry
    <3>4. Abstract!Serve(c)
      BY <1>4, <2>3, <3>3, Moves DEF Abstract!Serve
    <3>5. QED BY <3>4
  <2>6. QED BY <2>4, <2>5
<1>5. QED BY <1>3, <1>4

LEMMA ResponseAnswers ==
  ASSUME Inv, Inv', NEW s \in End, OnResponse(s)
  PROVE  \/ \E c \in Call :
              Abstract!Answer(c) \/ Abstract!Fail(c) \/ Abstract!AnswerShared(c)
         \/ UNCHANGED [d \in Call |-> StageOf(d)]
<1>1. /\ channel[s] # <<>> /\ Head(channel[s]).type = "RESPONSE"
      /\ UNCHANGED <<pc, id, serves, shared>>
  BY DEF OnResponse, Arrived, calls
<1>2. PICK msg \in Message, d \in Call :
        /\ msg = Head(channel[s]) /\ d = msg.call /\ Sound(s, msg) /\ Waiting(d)
  BY <1>1, HeadIs
<1>3. /\ s = Caller[d] /\ msg.id = id[d] /\ id[d] \in Id /\ pc[d] = "sent"
  BY <1>1, <1>2 DEF Sound, Inv, TypeOK
<1>4. PICK c \in Call \cup {NoCall} : c = Entry(d)
  BY <1>3 DEF Inv, TypeOK, Entry
<1>5. /\ reqCallbacks_' = [reqCallbacks_ EXCEPT ![s][msg.id] = NoCall]
      /\ IF c # NoCall /\ msg.error = "NO_ERROR"
         THEN /\ answer' = [answer EXCEPT ![c] = d]
              /\ runs' = [runs EXCEPT ![c] = @ + 1]
         ELSE UNCHANGED <<answer, runs>>
  BY <1>2, <1>3, <1>4 DEF OnResponse, Entry
<1>6. \A t \in End, i \in Id : reqCallbacks_'[t][i] =
        IF t = s /\ i = id[d] THEN NoCall ELSE reqCallbacks_[t][i]
  BY <1>3, <1>5 DEF Inv, TypeOK
<1>7. ASSUME NEW e \in Call
      PROVE  Entry(e)' = IF Caller[e] = s /\ id[e] = id[d] THEN NoCall ELSE Entry(e)
  BY <1>1, <1>6, SessionAssumption, SMTT(30) DEF Entry, Inv, TypeOK
<1>8. \A e \in Call : e # c /\ runs'[e] = runs[e] /\ answer'[e] = answer[e] =>
        StageOf(e)' = StageOf(e)
  <2> SUFFICES ASSUME NEW e \in Call, e # c,
                      runs'[e] = runs[e], answer'[e] = answer[e]
               PROVE  StageOf(e)' = StageOf(e)
    OBVIOUS
  <2>1. Entry(e)' = e <=> Entry(e) = e
    BY <1>3, <1>4, <1>7, SessionAssumption DEF Entry
  <2>2. QED BY <1>1, <2>1 DEF StageOf, Entry
<1>9. CASE c = NoCall
  <2>1. \A e \in Call : e # c /\ runs'[e] = runs[e] /\ answer'[e] = answer[e]
    BY <1>5, <1>9, SessionAssumption
  <2>2. QED BY <1>8, <2>1, NoMove
<1>10. CASE c # NoCall
  <2>1. /\ c \in Call /\ runs[c] = 0 /\ Entry(c) = c
        /\ Caller[c] = s /\ id[c] = id[d]
    <3>1. /\ c \in Registered /\ Caller[c] = s /\ id[c] = id[d]
          /\ runs[c] = 0
      <4>1. c = reqCallbacks_[s][id[d]] /\ id[d] \in Id
        BY <1>3, <1>4 DEF Entry
      <4>2. QED BY <1>10, <4>1, InTable DEF Inv
    <3>2. c \in Call
      BY <3>1 DEF Registered
    <3>3. QED BY <1>3, <1>4, <3>1, <3>2, Zenon DEF Entry
  <2>2. /\ \A e \in Call \ {c} : StageOf(e)' = StageOf(e)
        /\ Entry(c)' = NoCall /\ NoCall # c
    BY <1>5, <1>7, <1>8, <2>1, SessionAssumption DEF Inv, TypeOK
  <2>3. CASE c \in shared
    <3>1. CASE msg.error = "NO_ERROR"
      <4>1. runs'[c] = 1
        BY <1>5, <1>10, <2>1, <3>1 DEF Inv, TypeOK
      <4>2. StageOf(c) = "shared" /\ StageOf(c)' = "mixed"
        BY <1>1, <2>1, <2>3, <4>1 DEF StageOf, Inv, Ran
      <4>3. Abstract!AnswerShared(c)
        BY <2>1, <2>2, <4>2, Moves DEF Abstract!AnswerShared
      <4>4. QED BY <2>1, <4>3
    <3>2. CASE msg.error # "NO_ERROR"
      <4>1. StageOf(c)' = StageOf(c)
        BY <1>1, <1>5, <2>3, <3>2 DEF StageOf
      <4>2. QED BY <2>2, <4>1, NoMove
    <3>3. QED BY <3>1, <3>2
  <2>4. CASE c \notin shared
    <3>1. c = d
      BY <1>2, <1>4, <2>1, <2>4, Answered
    <3>2. CASE msg.error = "NO_ERROR"
      <4>1. runs'[c] = 1 /\ answer'[c] = c
        BY <1>5, <1>10, <2>1, <3>1, <3>2 DEF Inv, TypeOK
      <4>2. /\ serves[c] = 1 /\ c \notin EmptyReply /\ Resolve[c] = "NO_ERROR"
        BY <1>1, <1>2, <3>1, <3>2 DEF Sound, Inv, Ran
      <4>3. StageOf(c) = "served" /\ StageOf(c)' = "answered"
        BY <1>1, <1>3, <2>1, <2>4, <3>1, <4>1, <4>2 DEF StageOf, Entry
      <4>4. Abstract!Answer(c)
        BY <2>1, <2>2, <4>2, <4>3, Moves DEF Abstract!Answer
      <4>5. QED BY <2>1, <4>4
    <3>3. CASE msg.error # "NO_ERROR"
      <4>1. c \in EmptyReply \/ Resolve[c] # "NO_ERROR"
        BY <1>1, <1>2, <3>1, <3>3 DEF Sound
      <4>2. StageOf(c) \in {"called", "served"}
        BY <1>3, <2>1, <2>4, <3>1, StageIs
      <4>3. StageOf(c)' = "failed"
        BY <1>1, <1>3, <1>5, <2>1, <2>2, <2>4, <3>1, <3>3
        DEF StageOf, Entry, Inv, Ran
      <4>4. Abstract!Fail(c)
        BY <2>1, <2>2, <4>1, <4>2, <4>3, Moves DEF Abstract!Fail
      <4>5. QED BY <2>1, <4>4
    <3>4. QED BY <3>2, <3>3
  <2>5. QED BY <2>3, <2>4
<1>11. QED BY <1>9, <1>10

(* Nothing but these steps moves a call.                                   *)
LEMMA Stays ==
  ASSUME UNCHANGED <<pc, id, reqCallbacks_, answer, runs, serves, shared>>
  PROVE  UNCHANGED [c \in Call |-> StageOf(c)]
<1>1. \A c \in Call : StageOf(c)' = StageOf(c)
  BY DEF StageOf
<1>2. QED BY <1>1, NoMove

LEMMA StepMaps ==
  Inv /\ Inv' /\ [Next]_vars =>
    [Abstract!Next]_([c \in Call |-> StageOf(c)])
<1> SUFFICES ASSUME Inv, Inv', [Next]_vars
             PROVE  \/ Abstract!Next
                    \/ UNCHANGED [c \in Call |-> StageOf(c)]
  OBVIOUS
<1>1. CASE \E c \in Call : FetchId(c)
  <2>1. PICK c \in Call : FetchId(c)
    BY <1>1
  <2>2. /\ c \notin Registered /\ pc[c] = "idle" /\ pc'[c] = "register"
        /\ \A d \in Call \ {c} : pc'[d] = pc[d] /\ id'[d] = id[d]
        /\ UNCHANGED <<reqCallbacks_, answer, runs, serves, shared>>
    BY <2>1 DEF FetchId, Goto, history, Registered, Inv, TypeOK
  <2>3. \A d \in Call \ {c} : StageOf(d)' = StageOf(d)
    BY <2>2 DEF StageOf
  <2>4. StageOf(c) = "idle" /\ StageOf(c)' = "idle"
    BY <2>2 DEF StageOf, Inv, Ran
  <2>5. QED BY <2>3, <2>4, NoMove
<1>2. CASE \E c \in Call : Register(c) \/ SendRequest(c)
  BY <1>2, RegisterShares, SendMakes DEF Abstract!Next
<1>3. CASE \E s \in End : OnRequest(s) \/ OnResponse(s)
  BY <1>3, RequestServes, ResponseAnswers DEF Abstract!Next
<1>4. CASE UNCHANGED <<calls, reqCallbacks_, history>>
  BY <1>4, Stays DEF calls, history
<1>5. ASSUME NEW s \in End,
             \/ OnDamaged(s) \/ disconnect(s) \/ SessionOver(s) \/ Damage(s)
             \/ \E msg \in serving : ServiceDone(msg)
      PROVE  UNCHANGED <<calls, reqCallbacks_, history>>
  BY <1>5 DEF OnDamaged, disconnect, SessionOver, Damage, ServiceDone
<1>6. Break => UNCHANGED <<calls, reqCallbacks_, history>>
  BY DEF Break
<1>7. QED
  BY <1>1, <1>2, <1>3, <1>4, <1>5, <1>6
  DEF Next, Network, Program, Progress, Read, vars

(* Two sessions are a remote call: a service runs at most once for a call, *)
(* and the closure at most once, after it and with its result, and never   *)
(* for an error or an empty result, unless the id of the call is taken by  *)
(* another while it waits.                                                 *)
THEOREM SessionsAreRpc == Spec => RpcSpec
<1>1. Init => Abstract!Init
  BY StageBegins
<1>2. QED BY <1>1, StepMaps, Invariance, PTL DEF Spec, RpcSpec, Abstract!Spec

(* And they are when one of them is an rpc_client's, whose program ends    *)
(* with a timeout, with a refused connection or with its session.          *)
THEOREM ClientIsRpc == ClientSpec => RpcSpec
<1>1. ClientInit => Abstract!Init
  BY StageBegins DEF ClientInit
<1>2. Inv /\ Inv' /\ [ClientNext]_allVars =>
        [Abstract!Next]_([c \in Call |-> StageOf(c)])
  <2> SUFFICES ASSUME Inv, Inv', [ClientNext]_allVars
               PROVE  \/ Abstract!Next
                      \/ UNCHANGED [c \in Call |-> StageOf(c)]
    OBVIOUS
  <2>1. CASE [Next]_vars
    BY <2>1, StepMaps
  <2>2. CASE Return
    BY <2>2, Stays DEF Return, calls, history
  <2>3. QED BY <2>1, <2>2, ClientSteps
<1>3. QED
  BY <1>1, <1>2, ClientInvariance, PTL DEF ClientSpec, RpcSpec, Abstract!Spec

-----------------------------------------------------------------------------
(* Until run() has returned, the client's session is not over and its      *)
(* program has not ended.                                                  *)
Unended == phase # "returned" => Client \notin over \cup gone

(* The timer waits only while the client connects, and a handler that was  *)
(* queued then is known to be late.                                        *)
Alive ==
  /\ Unended
  /\ phase \in {"new", "connecting", "handshake", "up", "returned"}
  /\ socket \in {"none", "pending", "refused", "made", "secured"}
  /\ timeOut_ \in {"off", "waiting", "queued"} /\ late \in BOOLEAN
  /\ phase = "new" => timeOut_ = "off"
  /\ timeOut_ = "waiting" => phase = "connecting"
  /\ timeOut_ = "queued" /\ phase \in {"handshake", "up"} => late

LEMMA AliveBegins == ClientInit => Alive
BY DEF ClientInit, Init, Alive, Unended

(* What the peer does, or the network, ends neither the client's session   *)
(* nor its program.                                                        *)
LEMMA OthersSpare ==
  ASSUME Program(Peer[Client]) \/ Network
  PROVE  Client \in over' \cup gone' => Client \in over \cup gone
<1>1. ASSUME NEW s \in End \ {Client}, Program(s)
      PROVE  Client \in over' \cup gone' => Client \in over \cup gone
  BY <1>1 DEF Program, Progress, Read, FetchId, Register, SendRequest, OnRequest,
     OnResponse, OnDamaged, SessionOver, ServiceDone, disconnect, ends
<1>2. Peer[Client] \in End \ {Client}
  BY Peers, ClientAssumption
<1>3. Network => over' = over /\ gone' = gone
  BY DEF Network, Break, Damage, ends
<1>4. QED BY <1>1, <1>2, <1>3

LEMMA AlivePreserved ==
  ASSUME Alive, [ClientNext]_allVars
  PROVE  Alive'
<1> USE DEF Alive, Unended
<1>1. CASE connect \/ Connected \/ on_connect \/ Expire
  BY <1>1 DEF connect, Connected, on_connect, Expire, vars, ends
<1>2. CASE on_connect_error \/ on_timeout
  BY <1>2 DEF on_connect_error, on_timeout, Return
<1>3. CASE on_handshake
  BY <1>3 DEF on_handshake, Return, vars, ends
<1>4. CASE /\ phase = "up" /\ Program(Client) /\ StopWhenOver
           /\ UNCHANGED <<socket, timeOut_, late>>
  BY <1>4 DEF StopWhenOver
<1>5. CASE (Program(Peer[Client]) \/ Network) /\ UNCHANGED clientVars
  BY <1>5, OthersSpare DEF clientVars
<1>6. CASE UNCHANGED allVars
  BY <1>6 DEF allVars, vars, ends, clientVars
<1>7. QED BY <1>1, <1>2, <1>3, <1>4, <1>5, <1>6 DEF ClientNext

LEMMA StaysAlive == ClientSpec => []Alive
BY AliveBegins, AlivePreserved, PTL DEF ClientSpec

(* The client, its session and the session of its peer have their types:   *)
(* no id is outside of its range when id_ wraps around.  And the client's  *)
(* session is not over before run() returns: not before the connection is  *)
(* made, and its end is the end of run().                                  *)
THEOREM ClientTypes == ClientSpec => [](ClientTypeOK /\ Unended)
<1>1. Inv /\ Alive => ClientTypeOK /\ Unended
  BY DEF Inv, Alive, ClientTypeOK
<1>2. QED BY <1>1, ClientInvariance, StaysAlive, PTL

(* run() returns from a session that is up only when the session is over   *)
(* or the program has crashed, or after a timeout that on_connect was too  *)
(* late to cancel.                                                         *)
THEOREM ClientNotCutOff == ClientSpec => NotCutOff
<1>1. Alive /\ [ClientNext]_allVars =>
        [phase = "up" /\ phase' = "returned" =>
           Client \in over' \/ OnDamaged(Client) \/ late]_allVars
  <2> SUFFICES ASSUME Alive, ClientNext, phase = "up", phase' = "returned"
               PROVE  Client \in over' \/ OnDamaged(Client) \/ late
    OBVIOUS
  <2>1. CASE on_timeout
    BY <2>1 DEF on_timeout, Alive
  <2>2. CASE Program(Client) /\ StopWhenOver
    <3>1. Client \notin gone /\ Client \in over' \cup gone'
      BY <2>2 DEF StopWhenOver, Alive, Unended
    <3>2. OnDamaged(Client) \/ gone' = gone
      BY <2>2 DEF Program, Progress, Read, FetchId, Register, SendRequest,
         OnRequest, OnResponse, SessionOver, ServiceDone, disconnect, ends
    <3>3. QED BY <3>1, <3>2
  <2>3. ~ (connect \/ Connected \/ on_connect \/ on_connect_error
           \/ on_handshake \/ Expire)
    BY DEF connect, Connected, on_connect, on_connect_error, on_handshake, Expire
  <2>4. ~ UNCHANGED clientVars
    BY DEF clientVars
  <2>5. QED BY <2>1, <2>2, <2>3, <2>4 DEF ClientNext
<1>2. QED BY <1>1, StaysAlive, PTL DEF ClientSpec, NotCutOff
=============================================================================
