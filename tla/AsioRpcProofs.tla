---------------------------- MODULE AsioRpcProofs ----------------------------
(***************************************************************************)
(* The client and the server of asio_rpc_practice implement Rpc, for any   *)
(* number of calls and of threads that make them.                          *)
(***************************************************************************)
EXTENDS AsioRpc, SequenceLemmas

Types ==
  /\ pc \in [Call -> {"idle", "fetched", "bumped", "called"}]
  /\ id_ \in Nat /\ id \in [Call -> Nat]
  /\ requests \in Seq(Call) /\ responses \in Seq(Call)
  /\ answer \in [Call -> Call \cup {NoCall}]
  /\ runs \in [Call -> {0, 1}]
  /\ \A i \in DOMAIN resCalls_ : resCalls_[i] \in Call

(* Only the calls between SetId and FetchAdd may have the id that the next *)
(* call gets.                                                              *)
Ids ==
  \A c \in Call :
    /\ pc[c] = "fetched" => id[c] <= id_
    /\ pc[c] \in {"bumped", "called"} => id[c] < id_

(* A call is on the wire once.                                             *)
Wire ==
  /\ IsInjective(requests) /\ IsInjective(responses)
  /\ ToSet(requests) \cap ToSet(responses) = {}
  /\ \A c \in ToSet(requests) \cup ToSet(responses) : c \in Called

(* Each entry of the table is that of a call that waits, under its id.     *)
Entries ==
  \A i \in DOMAIN resCalls_ :
    /\ id[resCalls_[i]] = i
    /\ resCalls_[i] \in Called /\ runs[resCalls_[i]] = 0

(* A closure that has run.                                                 *)
Ran ==
  \A c \in Call : runs[c] = 1 =>
    /\ c \in Called
    /\ ~ SameId(c) =>
         answer[c] = c /\ c \notin ToSet(requests) \cup ToSet(responses)

Inv == Types /\ Ids /\ Wire /\ Entries /\ Ran

-----------------------------------------------------------------------------
LEMMA Begins == Init => Inv
BY DEF Init, Inv, Types, Ids, Wire, Entries, Ran, IsInjective, ToSet

(* Ids are never given back: calls that share one go on sharing it.        *)
LEMMA StillSame ==
  ASSUME Inv, [Next]_vars
  PROVE  \A c \in Call : SameId(c) => SameId(c)'
<1>1. CASE \E c \in Call : SetId(c)
  <2>1. /\ Made \subseteq Made'
        /\ \A d \in Made : id'[d] = id[d]
    BY <1>1 DEF SetId, Inv, Types, Made
  <2>2. QED BY <2>1 DEF SameId
<1>2. CASE \E c \in Call : FetchAdd(c) \/ CallMethod(c)
  BY <1>2 DEF FetchAdd, CallMethod, Inv, Types, SameId, Made
<1>3. CASE UNCHANGED <<pc, id>>
  BY <1>3 DEF SameId, Made
<1>4. QED
  BY <1>1, <1>2, <1>3 DEF Next, vars, network, ends, OnSend, OnRequest, OnWrite,
     OnResponse, OnResponseUnknown, OnConnect, Break, ClientError, OnSendError,
     ServerError, OnWriteError

LEMMA StepSetId ==
  ASSUME Inv, NEW c \in Call, SetId(c),
         \A d \in Call : SameId(d) => SameId(d)'
  PROVE  Inv'
<1> USE DEF Inv, SetId, network, ends
<1>1. Types'
  BY DEF Types
<1>2. Ids'
  BY DEF Ids, Types
<1>3. Wire' /\ Entries'
  BY DEF Wire, Entries, Types, Called
<1>4. Ran'
  BY DEF Ran, Types, Called
<1>5. QED BY <1>1, <1>2, <1>3, <1>4

LEMMA StepFetchAdd ==
  ASSUME Inv, NEW c \in Call, FetchAdd(c),
         \A d \in Call : SameId(d) => SameId(d)'
  PROVE  Inv'
<1> USE DEF Inv, FetchAdd, network, ends
<1>1. Types'
  BY DEF Types
<1>2. Ids'
  BY DEF Ids, Types
<1>3. Wire' /\ Entries'
  BY DEF Wire, Entries, Types, Called
<1>4. Ran'
  BY DEF Ran, Types, Called
<1>5. QED BY <1>1, <1>2, <1>3, <1>4

LEMMA StepCallMethod ==
  ASSUME Inv, NEW c \in Call, CallMethod(c),
         \A d \in Call : SameId(d) => SameId(d)'
  PROVE  Inv'
<1> USE DEF Inv, CallMethod, ends
<1>1. c \notin Called /\ Called' = Called \cup {c} /\ runs[c] = 0
  BY DEF Called, Types, Ran
<1>2. /\ requests' \in Seq(Call) /\ ToSet(requests)' = ToSet(requests) \cup {c}
      /\ IsInjective(requests)' /\ c \notin ToSet(responses)
  BY <1>1, AppendOnce DEF Types, Wire
<1>3. /\ DOMAIN resCalls_' = DOMAIN resCalls_ \cup {id[c]}
      /\ \A i \in DOMAIN resCalls_' :
           resCalls_'[i] = IF i = id[c] THEN c ELSE resCalls_[i]
  BY DEF Entered
<1>4. Types'
  BY <1>2, <1>3 DEF Types
<1>5. Ids'
  BY DEF Ids, Types
<1>6. Wire'
  BY <1>1, <1>2 DEF Wire
<1>7. Entries'
  BY <1>1, <1>3 DEF Entries
<1>8. Ran'
  BY <1>1, <1>2 DEF Ran, Types
<1>9. QED BY <1>4, <1>5, <1>6, <1>7, <1>8

LEMMA StepOnRequest ==
  ASSUME Inv, OnRequest, \A d \in Call : SameId(d) => SameId(d)'
  PROVE  Inv'
<1> DEFINE c == Head(requests)
<1> USE DEF Inv, OnRequest, ends
<1>1. /\ requests' \in Seq(Call) /\ c \in ToSet(requests)
      /\ ToSet(requests)' = ToSet(requests) \ {c} /\ IsInjective(requests)'
  BY TakeOnce DEF Types, Wire
<1>2. c \in Call /\ c \notin ToSet(responses)
  BY <1>1 DEF Wire, Called
<1>3. /\ responses' \in Seq(Call)
      /\ ToSet(responses)' = ToSet(responses) \cup {c} /\ IsInjective(responses)'
  BY <1>2, AppendOnce DEF Types, Wire
<1> HIDE DEF c
<1>4. Called' = Called
  BY SMTT(30) DEF Called
<1>5. Types' /\ Ids'
  BY <1>1, <1>3 DEF Types, Ids
<1>6. Wire'
  BY <1>1, <1>2, <1>3, <1>4 DEF Wire
<1>7. Entries'
  BY <1>4 DEF Entries
<1>8. Ran'
  BY <1>1, <1>3, <1>4 DEF Ran
<1>9. QED BY <1>5, <1>6, <1>7, <1>8

(* The closure that runs is that of the call whose response has come, or   *)
(* both calls have the same id.                                            *)
LEMMA Closure ==
  ASSUME Inv, OnResponse
  PROVE  LET c == Head(responses)
             d == resCalls_[id[c]]
         IN  /\ c \in ToSet(responses) /\ c \in Called
             /\ d \in Called /\ runs[d] = 0 /\ id[d] = id[c]
             /\ d # c => SameId(d)
             /\ answer' = [answer EXCEPT ![d] = c]
             /\ runs' = [runs EXCEPT ![d] = 1]
<1> DEFINE c == Head(responses)
           d == resCalls_[id[c]]
<1>1. c \in ToSet(responses) /\ c \in Called
  BY TakeOnce DEF Inv, Types, Wire, OnResponse
<1>2. d \in Called /\ runs[d] = 0 /\ id[d] = id[c]
  BY DEF Inv, Entries, OnResponse
<1>3. d # c => SameId(d)
  BY <1>1, <1>2 DEF SameId, Made, Called
<1>4. /\ answer' = [answer EXCEPT ![d] = c]
      /\ runs' = [runs EXCEPT ![d] = 1]
  BY <1>2 DEF OnResponse
<1>5. QED BY <1>1, <1>2, <1>3, <1>4

LEMMA StepOnResponse ==
  ASSUME Inv, OnResponse, \A e \in Call : SameId(e) => SameId(e)'
  PROVE  Inv'
<1> USE DEF Inv, ends
<1>1. PICK c \in Call, d \in Call :
        /\ c = Head(responses) /\ d = resCalls_[id[c]]
        /\ c \in Called /\ d \in Called /\ runs[d] = 0 /\ id[d] = id[c]
        /\ d # c => SameId(d)
        /\ answer' = [answer EXCEPT ![d] = c]
        /\ runs' = [runs EXCEPT ![d] = 1]
  BY Closure DEF Called
<1>2. /\ responses' \in Seq(Call) /\ c \in ToSet(responses)
      /\ ToSet(responses)' = ToSet(responses) \ {c} /\ IsInjective(responses)'
  BY <1>1, TakeOnce DEF OnResponse, Types, Wire
<1>3. /\ DOMAIN resCalls_' = DOMAIN resCalls_ \ {id[c]}
      /\ \A i \in DOMAIN resCalls_' : resCalls_'[i] = resCalls_[i]
  BY <1>1 DEF OnResponse, Restrict
<1>4. UNCHANGED <<pc, id_, id, requests>> /\ Called' = Called
  BY DEF OnResponse, Called
<1>5. Types' /\ Ids'
  BY <1>1, <1>2, <1>3, <1>4 DEF Types, Ids, Called
<1>6. Wire'
  BY <1>2, <1>4 DEF Wire
<1>7. Entries'
  BY <1>1, <1>3, <1>4 DEF Entries
<1>8. Ran'
  <2>1. ASSUME NEW e \in Call, runs'[e] = 1, e # d
        PROVE  /\ e \in Called'
               /\ ~ SameId(e)' =>
                    answer'[e] = e /\ e \notin ToSet(requests) \cup ToSet(responses)'
    BY <1>1, <1>2, <1>4, <2>1 DEF Ran, Types
  <2>2. /\ d \in Called'
        /\ ~ SameId(d)' =>
             answer'[d] = d /\ d \notin ToSet(requests) \cup ToSet(responses)'
    BY <1>1, <1>2, <1>4 DEF Wire, Types
  <2>3. QED BY <1>4, <2>1, <2>2 DEF Ran
<1>9. QED BY <1>5, <1>6, <1>7, <1>8

LEMMA Preserves == Inv /\ [Next]_vars => Inv'
<1> SUFFICES ASSUME Inv, [Next]_vars PROVE Inv'
  OBVIOUS
<1>1. \A c \in Call : SameId(c) => SameId(c)'
  BY StillSame
<1>2. CASE \E c \in Call : SetId(c) \/ FetchAdd(c) \/ CallMethod(c)
  BY <1>1, <1>2, StepSetId, StepFetchAdd, StepCallMethod
<1>3. CASE OnRequest \/ OnResponse
  BY <1>1, <1>3, StepOnRequest, StepOnResponse
<1>4. CASE UNCHANGED <<pc, id_, id, resCalls_, requests, responses, answer, runs>>
  BY <1>4 DEF Inv, Types, Ids, Wire, Entries, Ran, Called, SameId, Made
<1>5. QED
  BY <1>2, <1>3, <1>4 DEF Next, vars, network, ends, OnSend, OnWrite,
     OnResponseUnknown, OnConnect, Break, ClientError, OnSendError, ServerError,
     OnWriteError

LEMMA Invariance == Spec => []Inv
BY Begins, Preserves, PTL DEF Spec

-----------------------------------------------------------------------------
(* StageOf, without its two stages that are not of Rpc.                    *)
LEMMA StageIs ==
  ASSUME Types, Ran, NEW c \in Call
  PROVE  /\ runs[c] = 0 /\ SameId(c) => StageOf(c) = "shared"
         /\ runs[c] = 1 /\ SameId(c) => StageOf(c) = "mixed"
         /\ runs[c] = 1 /\ ~ SameId(c) => StageOf(c) = "answered"
         /\ runs[c] = 0 /\ ~ SameId(c) /\ c \notin Called => StageOf(c) = "idle"
         /\ runs[c] = 0 /\ ~ SameId(c) /\ c \in Called =>
              StageOf(c) = IF c \in ToSet(requests) THEN "called" ELSE "served"
         /\ runs[c] \in {0, 1}
<1>1. runs[c] \in {0, 1}
  BY DEF Types
<1>2. CASE runs[c] = 0
  BY <1>2 DEF StageOf
<1>3. CASE runs[c] = 1
  <2>1. ~ SameId(c) => answer[c] = c
    BY <1>3 DEF Ran
  <2>2. QED BY <1>3, <2>1 DEF StageOf
<1>4. QED BY <1>1, <1>2, <1>3



-----------------------------------------------------------------------------
LEMMA StageBegins == Init => Abstract!Init
<1> SUFFICES ASSUME Init PROVE Abstract!Init
  OBVIOUS
<1>1. ASSUME NEW c \in Call PROVE StageOf(c) = "idle"
  BY <1>1 DEF Init, StageOf, SameId, Made, Called
<1>2. QED BY <1>1 DEF Abstract!Init

(* Only SetId gives a call the id of another: a call of that id has not    *)
(* got beyond SetId itself.                                                *)
LEMMA SetIdShares ==
  ASSUME Inv, Inv', NEW c \in Call, SetId(c)
  PROVE  Abstract!Share
<1>1. /\ Called' = Called /\ UNCHANGED <<runs, answer, requests>>
      /\ id' = [id EXCEPT ![c] = id_] /\ Made' = Made \cup {c} /\ c \notin Made
  BY DEF SetId, network, Called, Made, Inv, Types
<1>2. ASSUME NEW d \in Call, StageOf(d)' # StageOf(d)
      PROVE  StageOf(d) \notin Abstract!Final /\ StageOf(d)' = "shared"
  <2>1. SameId(d)' /\ ~ SameId(d)
    BY <1>1, <1>2, StageIs DEF StageOf, SameId, Made, Inv, Types
  <2>2. d = c \/ (id[d] = id_ /\ d \in Made)
    BY <1>1, <2>1 DEF SameId, Inv, Types, Made
  <2>3. d \notin Called /\ runs[d] = 0
    BY <1>1, <2>2 DEF Inv, Types, Ids, Ran, Called, Made, SetId
  <2>4. QED BY <1>1, <2>1, <2>3 DEF StageOf, Abstract!Final
<1>3. \A d \in Call : StageOf(d)' \in Abstract!Stage
  BY StageIs DEF Inv, Types, Ran, StageOf, Abstract!Stage
<1>4. QED BY <1>2, <1>3 DEF Abstract!Share

(* A step at which one call moves on and the others stay.                  *)
LEMMA Moves ==
  ASSUME NEW c \in Call,
         \A d \in Call \ {c} : StageOf(d)' = StageOf(d),
         NEW from, NEW to, StageOf(c) \in from, StageOf(c)' = to
  PROVE  Abstract!Move(c, from, to)
BY DEF Abstract!Move

LEMMA NoMove ==
  ASSUME \A c \in Call : StageOf(c)' = StageOf(c)
  PROVE  UNCHANGED [c \in Call |-> StageOf(c)]
OBVIOUS

LEMMA CallMakes ==
  ASSUME Inv, Inv', NEW c \in Call, CallMethod(c)
  PROVE  Abstract!Make(c) \/ UNCHANGED [d \in Call |-> StageOf(d)]
<1>1. /\ Called' = Called \cup {c} /\ c \notin Called
      /\ Made' = Made /\ UNCHANGED <<id, runs, answer>>
      /\ ToSet(requests)' = ToSet(requests) \cup {c}
  BY AppendOnce DEF CallMethod, Called, Made, Inv, Types
<1>2. \A d \in Call : SameId(d)' <=> SameId(d)
  BY <1>1 DEF SameId
<1>3. \A d \in Call \ {c} : StageOf(d)' = StageOf(d)
  BY <1>1, <1>2 DEF StageOf
<1>4. runs[c] = 0
  BY <1>1 DEF Inv, Types, Ran
<1>5. CASE SameId(c)
  <2>1. StageOf(c)' = StageOf(c)
    BY <1>1, <1>2, <1>4, <1>5 DEF StageOf
  <2>2. QED BY <1>3, <2>1, NoMove
<1>6. CASE ~ SameId(c)
  <2>1. StageOf(c) = "idle" /\ StageOf(c)' = "called"
    BY <1>1, <1>2, <1>4, <1>6 DEF StageOf
  <2>2. QED BY <1>3, <2>1, Moves DEF Abstract!Make
<1>7. QED BY <1>5, <1>6

LEMMA RequestServes ==
  ASSUME Inv, Inv', OnRequest
  PROVE  \/ \E c \in Call : Abstract!Serve(c)
         \/ UNCHANGED [c \in Call |-> StageOf(c)]
<1>1. PICK c \in Call :
        /\ c \in ToSet(requests) /\ c \in Called
        /\ ToSet(requests)' = ToSet(requests) \ {c}
  BY TakeOnce DEF OnRequest, Inv, Types, Wire, Called
<1>2. Called' = Called /\ Made' = Made /\ UNCHANGED <<id, runs, answer>>
  BY DEF OnRequest, Called, Made
<1>3. \A d \in Call : SameId(d)' <=> SameId(d)
  BY <1>2 DEF SameId
<1>4. \A d \in Call \ {c} : StageOf(d)' = StageOf(d)
  BY <1>1, <1>2, <1>3 DEF StageOf
<1>5. CASE SameId(c)
  <2>1. StageOf(c)' = StageOf(c)
    BY <1>2, <1>3, <1>5 DEF StageOf
  <2>2. QED BY <1>4, <2>1, NoMove
<1>6. CASE ~ SameId(c)
  <2>1. runs[c] = 0
    BY <1>1, <1>6 DEF Inv, Types, Ran
  <2>2. StageOf(c) = "called" /\ StageOf(c)' = "served"
    BY <1>1, <1>2, <1>3, <1>6, <2>1 DEF StageOf
  <2>3. Abstract!Serve(c)
    BY <1>4, <2>2, Moves DEF Abstract!Serve
  <2>4. QED BY <2>3
<1>7. QED BY <1>5, <1>6

LEMMA ResponseAnswers ==
  ASSUME Inv, Inv', OnResponse
  PROVE  \E c \in Call : Abstract!Answer(c) \/ Abstract!AnswerShared(c)
<1>1. PICK c \in Call, d \in Call :
        /\ c \in ToSet(responses)
        /\ d \in Called /\ runs[d] = 0
        /\ d # c => SameId(d)
        /\ answer' = [answer EXCEPT ![d] = c]
        /\ runs' = [runs EXCEPT ![d] = 1]
  BY Closure DEF Called
<1>2. Called' = Called /\ Made' = Made /\ UNCHANGED <<id, requests>>
  BY DEF OnResponse, Called, Made
<1>3. \A e \in Call : SameId(e)' <=> SameId(e)
  BY <1>2 DEF SameId
<1>4. /\ \A e \in Call \ {d} : runs'[e] = runs[e] /\ answer'[e] = answer[e]
      /\ runs'[d] = 1 /\ answer'[d] = c
  BY <1>1 DEF Inv, Types
<1>5. \A e \in Call \ {d} : StageOf(e)' = StageOf(e)
  BY <1>2, <1>3, <1>4 DEF StageOf
<1>6. CASE SameId(d)
  <2>1. StageOf(d) = "shared" /\ StageOf(d)' = "mixed"
    BY <1>1, <1>3, <1>4, <1>6 DEF StageOf
  <2>2. Abstract!AnswerShared(d)
    BY <1>5, <2>1, Moves DEF Abstract!AnswerShared
  <2>3. QED BY <2>2
<1>7. CASE ~ SameId(d)
  <2>1. d = c /\ d \notin ToSet(requests)
    BY <1>1, <1>7 DEF Inv, Wire
  <2>2. StageOf(d) = "served" /\ StageOf(d)' = "answered"
    BY <1>1, <1>3, <1>4, <1>7, <2>1 DEF StageOf
  <2>3. Abstract!Answer(d)
    BY <1>5, <2>2, Moves DEF Abstract!Answer
  <2>4. QED BY <2>3
<1>8. QED BY <1>6, <1>7

LEMMA StepMaps ==
  Inv /\ Inv' /\ [Next]_vars =>
    [Abstract!Next]_([c \in Call |-> StageOf(c)])
<1> SUFFICES ASSUME Inv, Inv', [Next]_vars
             PROVE  \/ Abstract!Next
                    \/ UNCHANGED [c \in Call |-> StageOf(c)]
  OBVIOUS
<1>1. CASE \E c \in Call : SetId(c) \/ CallMethod(c)
  BY <1>1, SetIdShares, CallMakes DEF Abstract!Next
<1>2. CASE \E c \in Call : FetchAdd(c)
  <2>1. /\ Called' = Called /\ Made' = Made
        /\ UNCHANGED <<id, runs, answer, requests>>
    BY <1>2 DEF FetchAdd, network, Called, Made, Inv, Types
  <2>2. \A d \in Call : StageOf(d)' = StageOf(d)
    BY <2>1 DEF StageOf, SameId
  <2>3. QED BY <2>2, NoMove
<1>3. CASE OnRequest
  BY <1>3, RequestServes DEF Abstract!Next
<1>4. CASE OnResponse
  BY <1>4, ResponseAnswers DEF Abstract!Next
<1>5. CASE UNCHANGED <<pc, id, requests, answer, runs>>
  <2>1. \A d \in Call : StageOf(d)' = StageOf(d)
    BY <1>5 DEF StageOf, SameId, Made, Called
  <2>2. QED BY <2>1, NoMove
<1>6. QED
  BY <1>1, <1>2, <1>3, <1>4, <1>5 DEF Next, vars, network, ends, OnSend,
     OnWrite, OnResponseUnknown, OnConnect, Break, ClientError, OnSendError,
     ServerError, OnWriteError

(* The closure of a call runs at most once, after the server has served    *)
(* that very call and with its result, unless its id is shared: for any    *)
(* number of calls and threads.                                            *)
THEOREM ImplementsRpc == Spec => RpcSpec
<1>1. Init => Abstract!Init
  BY StageBegins
<1>2. Inv /\ Inv' /\ [Next]_vars =>
        [Abstract!Next]_([c \in Call |-> StageOf(c)])
  BY StepMaps
<1>3. QED BY <1>1, <1>2, Invariance, PTL DEF Spec, RpcSpec, Abstract!Spec

-----------------------------------------------------------------------------
(* One thread makes one call after another.                                *)
OneByOne ==
  ~ together =>
    /\ \A c, d \in InSendRequest : c = d
    /\ \A c \in Call : ~ SameId(c)

(* A call that waits has its entry, and the client goes on, for as long as *)
(* no id is shared.                                                        *)
Waits ==
  (\A c \in Call : ~ SameId(c)) =>
    /\ \A c \in Called : runs[c] = 0 =>
         id[c] \in DOMAIN resCalls_ /\ resCalls_[id[c]] = c
    /\ client = "terminated" => broken

LEMMA OneByOneBegins == Init => OneByOne /\ Waits
BY DEF Init, OneByOne, Waits, InSendRequest, SameId, Made, Called

LEMMA OneByOnePreserved ==
  ASSUME Inv, OneByOne, [Next]_vars
  PROVE  OneByOne'
<1>1. CASE \E c \in Call : SetId(c)
  <2>1. PICK c \in Call : SetId(c)
    BY <1>1
  <2>2. SUFFICES ASSUME ~ together, ~ together' PROVE OneByOne'
    BY <2>1 DEF SetId, OneByOne
  <2>3. /\ InSendRequest = {} /\ InSendRequest' = {c}
        /\ Made' = Made \cup {c} /\ c \notin Made
        /\ id' = [id EXCEPT ![c] = id_]
    BY <2>1, <2>2 DEF SetId, InSendRequest, Made, Inv, Types
  <2>4. \A d \in Made : id[d] < id_ /\ id'[d] = id[d]
    BY <2>3 DEF InSendRequest, Made, Inv, Types, Ids
  <2>5. id'[c] = id_ /\ id_ \in Nat /\ \A d \in Made : id[d] \in Nat
    BY <2>3 DEF Inv, Types, Made
  <2>6. \A d, e \in Made : id[d] = id[e] => d = e
    BY <2>2 DEF OneByOne, SameId, Made
  <2>7. \A d \in Call : ~ SameId(d)'
    BY <2>3, <2>4, <2>5, <2>6 DEF SameId
  <2>8. QED BY <2>3, <2>7 DEF OneByOne
<1>2. CASE \E c \in Call : FetchAdd(c) \/ CallMethod(c)
  <2>1. /\ UNCHANGED <<together, id>> /\ Made' = Made
        /\ InSendRequest' \subseteq InSendRequest
    BY <1>2 DEF FetchAdd, CallMethod, InSendRequest, Made, Inv, Types
  <2>2. QED BY <2>1 DEF OneByOne, SameId
<1>3. CASE UNCHANGED <<together, pc, id>>
  BY <1>3 DEF OneByOne, InSendRequest, SameId, Made
<1>4. QED
  BY <1>1, <1>2, <1>3 DEF Next, vars, network, ends, OnSend, OnRequest, OnWrite,
     OnResponse, OnResponseUnknown, OnConnect, Break, ClientError, OnSendError,
     ServerError, OnWriteError

LEMMA WaitsPreserved ==
  ASSUME Inv, Waits, [Next]_vars
  PROVE  Waits'
<1> SUFFICES ASSUME \A c \in Call : ~ SameId(c)'
             PROVE  /\ \A c \in Called' : runs'[c] = 0 =>
                         /\ id'[c] \in DOMAIN resCalls_'
                         /\ resCalls_'[id'[c]] = c
                    /\ client' = "terminated" => broken'
  BY DEF Waits
<1>1. \A c \in Call : ~ SameId(c)
  BY StillSame
<1>2. /\ \A c \in Called : runs[c] = 0 =>
           id[c] \in DOMAIN resCalls_ /\ resCalls_[id[c]] = c
      /\ client = "terminated" => broken
  BY <1>1 DEF Waits
<1>3. CASE \E c \in Call : SetId(c) \/ FetchAdd(c)
  <2>1. Called' = Called /\ \A c \in Called : id'[c] = id[c]
    BY <1>3 DEF SetId, FetchAdd, Called, Inv, Types
  <2>2. QED BY <1>2, <1>3, <2>1 DEF SetId, FetchAdd, ends
<1>4. CASE \E c \in Call : CallMethod(c)
  <2>1. PICK c \in Call : CallMethod(c)
    BY <1>4
  <2>2. /\ Called' = Called \cup {c}
        /\ UNCHANGED <<id, runs, client, broken>>
        /\ \A d \in Called : d # c
    BY <2>1 DEF CallMethod, ends, Called, Inv, Types
  <2>3. /\ DOMAIN resCalls_' = DOMAIN resCalls_ \cup {id[c]}
        /\ \A i \in DOMAIN resCalls_' :
             resCalls_'[i] = IF i = id[c] THEN c ELSE resCalls_[i]
    BY <2>1 DEF CallMethod, Entered
  <2>4. \A d \in Called : id[d] # id[c]
    BY <1>1, <2>1, <2>2 DEF CallMethod, SameId, Made, Called
  <2>5. QED BY <1>2, <2>2, <2>3, <2>4
<1>5. CASE OnResponse
  <2>1. PICK c \in Call, d \in Call :
          /\ d = resCalls_[id[c]] /\ c = Head(responses)
          /\ c \in Called /\ d \in Called /\ d = c
          /\ runs' = [runs EXCEPT ![d] = 1]
    BY <1>1, <1>5, Closure DEF Called
  <2>2. /\ Called' = Called /\ UNCHANGED <<id, client, broken>>
        /\ DOMAIN resCalls_' = DOMAIN resCalls_ \ {id[c]}
        /\ \A i \in DOMAIN resCalls_' : resCalls_'[i] = resCalls_[i]
    BY <1>5, <2>1 DEF OnResponse, ends, Called, Restrict
  <2>3. \A e \in Called \ {c} : id[e] # id[c]
    BY <1>1, <2>1 DEF SameId, Made, Called
  <2>4. \A e \in Called' : runs'[e] = 0 => e # c /\ runs[e] = 0
    BY <2>1, <2>2 DEF Inv, Types, Called
  <2>5. QED BY <1>2, <2>2, <2>3, <2>4
<1>6. ~ OnResponseUnknown
  <2> SUFFICES ASSUME OnResponseUnknown PROVE FALSE
    OBVIOUS
  <2> DEFINE c == Head(responses)
  <2>1. c \in ToSet(responses) /\ c \in Called /\ c \in Call
    BY TakeOnce DEF OnResponseUnknown, Inv, Types, Wire, Called
  <2>2. runs[c] = 0
    BY <1>1, <2>1 DEF Inv, Types, Ran
  <2>3. QED BY <1>2, <2>1, <2>2 DEF OnResponseUnknown
<1>7. CASE ClientError \/ OnSendError
  <2>1. UNCHANGED <<pc, id, resCalls_, runs>> /\ broken /\ broken'
    BY <1>7 DEF ClientError, OnSendError, network
  <2>2. QED BY <1>2, <2>1 DEF Called
<1>8. CASE OnConnect
  <2>1. /\ UNCHANGED <<pc, id, resCalls_, runs, broken>>
        /\ client' # "terminated"
    BY <1>8 DEF OnConnect, Left, network
  <2>2. QED BY <1>2, <2>1 DEF Called
<1>9. CASE /\ UNCHANGED <<pc, id, resCalls_, runs, client>>
           /\ broken => broken'
  BY <1>2, <1>9 DEF Called
<1>10. QED
  BY <1>3, <1>4, <1>5, <1>6, <1>7, <1>8, <1>9 DEF Next, vars, network, ends,
     OnSend, OnRequest, OnWrite, Break, ServerError, OnWriteError

(* As long as no id is shared, and with one thread none ever is, a response*)
(* finds its entry: the client never follows a null closure.               *)
THEOREM TableRight == Spec => []OwnEntry
<1>1. Init => OneByOne /\ Waits
  BY OneByOneBegins
<1>2. Inv /\ OneByOne /\ Waits /\ [Next]_vars => OneByOne' /\ Waits'
  BY OneByOnePreserved, WaitsPreserved
<1>3. Inv /\ OneByOne /\ Waits => OwnEntry
  <2> SUFFICES ASSUME Inv, OneByOne, Waits PROVE OwnEntry
    OBVIOUS
  <2>1. (\E c \in Call : SameId(c)) => together
    BY DEF OneByOne
  <2>2. ASSUME ~ \E c \in Call : SameId(c)
        PROVE  /\ Range(resCalls_) = {c \in Called : runs[c] = 0}
               /\ \A i \in DOMAIN resCalls_ : id[resCalls_[i]] = i
               /\ client = "terminated" => broken
    <3>1. Range(resCalls_) \subseteq {c \in Called : runs[c] = 0}
      BY DEF Inv, Entries, Range
    <3>2. ASSUME NEW c \in Called, runs[c] = 0 PROVE c \in Range(resCalls_)
      BY <2>2, <3>2 DEF Waits, Range
    <3>3. QED BY <2>2, <3>1, <3>2 DEF Waits, Inv, Entries
  <2>3. QED BY <2>1, <2>2 DEF OwnEntry
<1>4. QED BY <1>1, <1>2, <1>3, Invariance, PTL DEF Spec
=============================================================================
