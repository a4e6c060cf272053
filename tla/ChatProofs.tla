----------------------------- MODULE ChatProofs ------------------------------
(***************************************************************************)
(* The chat server, for any number of threads, connections and messages:   *)
(* which reads may outlive their session, and, with one thread, whom a     *)
(* broadcast has reached and that every session is read from.              *)
(*                                                                         *)
(* The strand makes the handlers of a session exclude each other, but not  *)
(* on_accept, which runs the session before it pushes it.  So a session    *)
(* whose read is outstanding is in the vector, or about to be pushed, or   *)
(* was erased by a write that failed: nothing else erases it while its     *)
(* read is outstanding, and no handler of its read is under way.           *)
(***************************************************************************)
EXTENDS ChatServer, ChatSession, SequenceLemmas

TypeOK ==
  /\ threads \subseteq Thread
  /\ pc \in [Thread -> {"poll", "accepted", "broadcast", "over", "written",
                        "failed"}]
  /\ on \in [Thread -> Session \cup {NoOne}]
  /\ at \in [Thread -> Nat \ {0}]
  /\ accepting \in {"yes", "no", "failed"}
  /\ sessions_ \in Seq(Session)
  /\ read \in [Session -> {"new", "pending", "handled"}]
  /\ writes \in [Session -> Nat]
  /\ broken \subseteq Session
  /\ ended \in {"none", "iterator", "buffer", "freed", "thrown"}
  /\ sent \in Nat
  /\ got \in [Thread -> SUBSET Session]
  /\ writeFailed \subseteq Session

(* A thread in a handler is about a session that has been accepted.  One   *)
(* in the handler of a read has taken that read; one that has accepted a   *)
(* session has yet to push it, and nothing else is accepted meanwhile.     *)
Handler(t) ==
  /\ pc[t] = "poll" <=> on[t] = NoOne
  /\ pc[t] # "poll" => t \in threads /\ read[on[t]] # "new"
  /\ pc[t] \in {"broadcast", "over"} => read[on[t]] = "handled"
  /\ pc[t] = "failed" => on[t] \in writeFailed
  /\ pc[t] = "accepted" => accepting = "no" /\ on[t] \notin ToSet(sessions_)
  /\ pc[t] # "broadcast" => at[t] = 1 /\ got[t] = {}

Handlers == \A t \in Thread : Handler(t)

(* One on_accept at a time, and one handler of each session.               *)
OneAtATime ==
  \A t, u \in Thread :
    \/ pc[t] = "accepted" /\ pc[u] = "accepted"
    \/ /\ pc[t] \notin {"poll", "accepted"} /\ pc[u] \notin {"poll", "accepted"}
       /\ on[t] = on[u]
    => t = u

Vector ==
  /\ IsInjective(sessions_)
  /\ \A s \in Session :
       s \in ToSet(sessions_) \/ writes[s] > 0 => read[s] # "new"

(* A session that is read, or will be when its broadcast is over, is held, *)
(* or has been erased by a write.                                          *)
Kept(s) ==
  \/ s \in ToSet(sessions_) \cup writeFailed
  \/ \E t \in Thread : pc[t] = "accepted" /\ on[t] = s

Held ==
  \A s \in Session :
    \/ read[s] = "pending"
    \/ \E t \in Thread : pc[t] = "broadcast" /\ on[t] = s
    => Kept(s)

(* With one thread, which a broadcast does not lose to any other.          *)
Reached ==
  Alone => \A t \in Thread :
     pc[t] = "broadcast" =>
       /\ at[t] <= Len(sessions_) + 1
       /\ got[t] = {sessions_[k] : k \in 1 .. at[t] - 1} \ {on[t]}

Handled(s) ==
  \/ \E t \in Thread : on[t] = s /\ pc[t] \in {"broadcast", "over"}
  \/ /\ s \notin ToSet(sessions_)
     /\ \A t \in Thread : pc[t] = "accepted" => on[t] # s

Listened ==
  Alone => \A s \in Session : read[s] = "handled" => Handled(s)

Inv == TypeOK /\ Handlers /\ OneAtATime /\ Vector /\ Held /\ Reached /\ Listened

-----------------------------------------------------------------------------
LEMMA InitInv == Init => Inv
<1> SUFFICES ASSUME Init PROVE Inv
  OBVIOUS
<1> USE DEF Init
<1>1. TypeOK /\ ToSet(sessions_) = {} /\ IsInjective(sessions_)
  BY ChatServerAssumption DEF TypeOK, ToSet, IsInjective
<1>2. Handlers /\ OneAtATime
  BY <1>1, ChatServerAssumption DEF Handlers, Handler, OneAtATime
<1>3. Vector /\ Held /\ Reached /\ Listened
  BY <1>1 DEF Vector, Held, Reached, Listened
<1>4. QED BY <1>1, <1>2, <1>3 DEF Inv

LEMMA OnAcceptInv ==
  ASSUME Inv, NEW t \in threads, NEW s \in Session, OnAccept(t, s)
  PROVE  Inv'
<1> USE DEF Inv, TypeOK, OnAccept, At, Begin
<1>1. TypeOK'
  BY ChatServerAssumption
<1>2. Handlers'
  BY ChatServerAssumption DEF Handlers, Handler, Vector
<1>3. OneAtATime'
  BY ChatServerAssumption DEF Handlers, Handler, OneAtATime
<1>4. Vector'
  BY DEF Handlers, Handler, Vector
<1>5. Held'
  <2> SUFFICES ASSUME NEW r \in Session,
                      \/ read'[r] = "pending"
                      \/ \E u \in Thread : pc'[u] = "broadcast" /\ on'[u] = r
               PROVE  Kept(r)'
    BY DEF Held
  <2>1. t \in Thread /\ pc'[t] = "accepted" /\ on'[t] = s
    BY ChatServerAssumption
  <2>2. \A u \in Thread \ {t} : pc'[u] = pc[u] /\ on'[u] = on[u]
    OBVIOUS
  <2>3. CASE r = s
    BY <2>1, <2>3 DEF Kept
  <2>4. CASE r # s
    <3>1. read'[r] = read[r]
      BY <2>4
    <3>2. Kept(r)
      BY <2>1, <2>2, <3>1 DEF Held
    <3>3. pc[t] = "poll"
      OBVIOUS
    <3>4. QED BY <2>2, <3>2, <3>3 DEF Kept
  <2>5. QED BY <2>3, <2>4
<1>6. Reached'
  BY ChatServerAssumption DEF Handlers, Handler, Reached, Alone
<1>7. Listened'
  BY ChatServerAssumption DEF Handlers, Handler, Listened, Handled, Alone
<1>8. QED BY <1>1, <1>2, <1>3, <1>4, <1>5, <1>6, <1>7

LEMMA OnAcceptErrorInv ==
  ASSUME Inv, NEW t \in threads, OnAcceptError(t)
  PROVE  Inv'
<1> USE DEF Inv, TypeOK, OnAcceptError, At
<1>1. TypeOK'
  BY ChatServerAssumption
<1>2. Handlers'
  BY ChatServerAssumption DEF Handlers, Handler
<1>3. OneAtATime'
  BY ChatServerAssumption DEF Handlers, Handler, OneAtATime
<1>4. Vector'
  BY DEF Handlers, Handler, Vector
<1>5. Held'
  BY ChatServerAssumption DEF Handlers, Handler, OneAtATime, Held, Kept
<1>6. Reached'
  BY ChatServerAssumption DEF Handlers, Handler, Reached, Alone
<1>7. Listened'
  BY ChatServerAssumption DEF Handlers, Handler, Listened, Handled, Alone
<1>8. QED BY <1>1, <1>2, <1>3, <1>4, <1>5, <1>6, <1>7

LEMMA OnAcceptThrowsInv ==
  ASSUME Inv, NEW t \in threads, NEW s \in Session, OnAcceptThrows(t, s)
  PROVE  Inv'
<1> USE DEF Inv, OnAcceptThrows
<1>1. TypeOK'
  BY DEF TypeOK
<1>2. Handlers' /\ OneAtATime' /\ Vector'
  BY DEF Handlers, Handler, OneAtATime, Vector
<1>3. Held' /\ Reached' /\ Listened'
  BY DEF Held, Kept, Reached, Listened, Handled, Alone
<1>4. QED BY <1>1, <1>2, <1>3

LEMMA OnReadInv ==
  ASSUME Inv, NEW t \in threads, NEW s \in Session, OnRead(t, s)
  PROVE  Inv'
<1> USE DEF Inv, TypeOK, OnRead, At, Begin, Strand
<1>1. TypeOK'
  BY ChatServerAssumption
<1>2. Handlers'
  BY ChatServerAssumption DEF Handlers, Handler
<1>3. OneAtATime'
  BY ChatServerAssumption DEF Handlers, Handler, OneAtATime
<1>4. Vector'
  BY DEF Handlers, Handler, Vector
<1>5. Held'
  BY ChatServerAssumption DEF Handlers, Handler, OneAtATime, Held, Kept
<1>6. Reached'
  BY ChatServerAssumption DEF Handlers, Handler, Reached, Alone
<1>7. Listened'
  BY ChatServerAssumption DEF Handlers, Handler, Listened, Handled, Alone
<1>8. QED BY <1>1, <1>2, <1>3, <1>4, <1>5, <1>6, <1>7

LEMMA OnReadErrorInv ==
  ASSUME Inv, NEW t \in threads, NEW s \in Session, OnReadError(t, s)
  PROVE  Inv'
<1> USE DEF Inv, TypeOK, OnReadError, At, Begin, Strand
<1>1. TypeOK'
  BY ChatServerAssumption
<1>2. Handlers'
  BY ChatServerAssumption DEF Handlers, Handler
<1>3. OneAtATime'
  BY ChatServerAssumption DEF Handlers, Handler, OneAtATime
<1>4. Vector'
  BY DEF Handlers, Handler, Vector
<1>5. Held'
  BY ChatServerAssumption DEF Handlers, Handler, OneAtATime, Held, Kept
<1>6. Reached'
  BY ChatServerAssumption DEF Handlers, Handler, Reached, Alone
<1>7. Listened'
  BY ChatServerAssumption DEF Handlers, Handler, Listened, Handled, Alone
<1>8. QED BY <1>1, <1>2, <1>3, <1>4, <1>5, <1>6, <1>7

LEMMA OnReadFreedInv ==
  ASSUME Inv, NEW t \in threads, NEW s \in Session, OnReadFreed(t, s)
  PROVE  Inv'
<1> USE DEF Inv, TypeOK, OnReadFreed, At, Strand
<1>1. TypeOK'
  BY ChatServerAssumption
<1>2. Handlers'
  BY ChatServerAssumption DEF Handlers, Handler
<1>3. OneAtATime'
  BY ChatServerAssumption DEF Handlers, Handler, OneAtATime
<1>4. Vector'
  BY DEF Handlers, Handler, Vector
<1>5. Held'
  BY ChatServerAssumption DEF Handlers, Handler, OneAtATime, Held, Kept
<1>6. Reached'
  BY ChatServerAssumption DEF Handlers, Handler, Reached, Alone
<1>7. Listened'
  BY ChatServerAssumption DEF Handlers, Handler, Listened, Handled, Alone
<1>8. QED BY <1>1, <1>2, <1>3, <1>4, <1>5, <1>6, <1>7

LEMMA OnWriteInv ==
  ASSUME Inv, NEW t \in threads, NEW s \in Session, OnWrite(t, s)
  PROVE  Inv'
<1> USE DEF Inv, TypeOK, OnWrite, At, Begin, Strand
<1>1. TypeOK'
  BY ChatServerAssumption
<1>2. Handlers'
  BY ChatServerAssumption DEF Handlers, Handler, Vector
<1>3. OneAtATime'
  BY ChatServerAssumption DEF Handlers, Handler, OneAtATime
<1>4. Vector'
  BY DEF Handlers, Handler, Vector
<1>5. Held'
  BY ChatServerAssumption DEF Handlers, Handler, OneAtATime, Held, Kept
<1>6. Reached'
  BY ChatServerAssumption DEF Handlers, Handler, Reached, Alone
<1>7. Listened'
  BY ChatServerAssumption DEF Handlers, Handler, Listened, Handled, Alone
<1>8. QED BY <1>1, <1>2, <1>3, <1>4, <1>5, <1>6, <1>7

LEMMA OnWriteErrorInv ==
  ASSUME Inv, NEW t \in threads, NEW s \in Session, OnWriteError(t, s)
  PROVE  Inv'
<1> USE DEF Inv, TypeOK, OnWriteError, At, Begin, Strand
<1>1. TypeOK'
  BY ChatServerAssumption
<1>2. Handlers'
  BY ChatServerAssumption DEF Handlers, Handler, Vector
<1>3. OneAtATime'
  BY ChatServerAssumption DEF Handlers, Handler, OneAtATime
<1>4. Vector'
  BY DEF Handlers, Handler, Vector
<1>5. Held'
  BY ChatServerAssumption DEF Handlers, Handler, OneAtATime, Held, Kept
<1>6. Reached'
  BY ChatServerAssumption DEF Handlers, Handler, Reached, Alone
<1>7. Listened'
  BY ChatServerAssumption DEF Handlers, Handler, Listened, Handled, Alone
<1>8. QED BY <1>1, <1>2, <1>3, <1>4, <1>5, <1>6, <1>7

LEMMA BreakInv ==
  ASSUME Inv, NEW s \in Session, Break(s)
  PROVE  Inv'
<1> USE DEF Inv, TypeOK, Break
<1>1. TypeOK'
  BY ChatServerAssumption
<1>2. Handlers'
  BY ChatServerAssumption DEF Handlers, Handler
<1>3. OneAtATime'
  BY ChatServerAssumption DEF Handlers, Handler, OneAtATime
<1>4. Vector'
  BY DEF Handlers, Handler, Vector
<1>5. Held'
  BY ChatServerAssumption DEF Handlers, Handler, OneAtATime, Held, Kept
<1>6. Reached'
  BY ChatServerAssumption DEF Handlers, Handler, Reached, Alone
<1>7. Listened'
  BY ChatServerAssumption DEF Handlers, Handler, Listened, Handled, Alone
<1>8. QED BY <1>1, <1>2, <1>3, <1>4, <1>5, <1>6, <1>7

LEMMA WriteRestInv ==
  ASSUME Inv, NEW t \in threads, WriteRest(t)
  PROVE  Inv'
<1> USE DEF Inv, TypeOK, WriteRest, At, Finish
<1>0. on[t] \in Session
  BY DEF Handlers, Handler
<1>1. TypeOK'
  <2>1. PICK more \in {0, 1} : writes' = [writes EXCEPT ![on[t]] = @ + more]
    OBVIOUS
  <2>2. writes' \in [Session -> Nat]
    BY <1>0, <2>1
  <2>3. QED BY <2>2, ChatServerAssumption
<1>2. Handlers'
  BY ChatServerAssumption DEF Handlers, Handler
<1>3. OneAtATime'
  BY ChatServerAssumption DEF Handlers, Handler, OneAtATime
<1>4. Vector'
  BY DEF Handlers, Handler, Vector
<1>5. Held'
  BY ChatServerAssumption DEF Handlers, Handler, OneAtATime, Held, Kept
<1>6. Reached'
  BY ChatServerAssumption DEF Handlers, Handler, Reached, Alone
<1>7. Listened'
  <2>1. \A u \in Thread : pc'[u] # pc[u] => pc[u] = "written"
    BY DEF Handlers, Handler
  <2>2. ASSUME NEW s \in Session, Handled(s) PROVE Handled(s)'
    BY <2>1, <2>2 DEF Handled
  <2>3. QED BY <2>2 DEF Listened, Alone
<1>8. QED BY <1>1, <1>2, <1>3, <1>4, <1>5, <1>6, <1>7

LEMMA SendMessageInv ==
  ASSUME Inv, NEW t \in threads, SendMessage(t)
  PROVE  Inv'
<1> USE DEF Inv, TypeOK
<1>0. IF Target(t) = on[t] THEN writes' = writes /\ got' = got
      ELSE /\ writes' = [writes EXCEPT ![Target(t)] = @ + 1]
           /\ got' = [got EXCEPT ![t] = @ \cup {Target(t)}]
  BY DEF SendMessage
<1>1. /\ Target(t) \in Session /\ on[t] \in Session /\ t \in Thread
      /\ Target(t) \in ToSet(sessions_)
      /\ at[t] \in 1 .. Len(sessions_)
  BY DEF Handlers, Handler, ToSet, Target, SendMessage, At
<1>2. writes' \in [Session -> Nat]
  <2>1. CASE Target(t) = on[t]
    BY <1>0, <2>1
  <2>2. CASE Target(t) # on[t]
    <3>1. writes' = [writes EXCEPT ![Target(t)] = @ + 1]
      BY <1>0, <2>2
    <3>2. writes[Target(t)] + 1 \in Nat
      BY <1>1
    <3>3. QED BY <3>1, <3>2
  <2>3. QED BY <2>1, <2>2
<1>3. got' \in [Thread -> SUBSET Session]
  <2>1. CASE Target(t) = on[t]
    BY <1>0, <2>1
  <2>2. CASE Target(t) # on[t]
    <3>1. got' = [got EXCEPT ![t] = @ \cup {Target(t)}]
      BY <1>0, <2>2
    <3>2. got[t] \cup {Target(t)} \in SUBSET Session
      BY <1>1
    <3>3. QED BY <3>1, <3>2
  <2>3. QED BY <2>1, <2>2
<1>4. TypeOK'
  <2>1. at' \in [Thread -> Nat \ {0}]
    BY <1>1 DEF SendMessage
  <2>2. ended' \in {"none", "iterator", "buffer", "freed", "thrown"}
    BY DEF SendMessage, MayBreak
  <2>3. QED BY <1>2, <1>3, <2>1, <2>2 DEF SendMessage
<1>5. Handlers'
  BY <1>0, <1>1 DEF Handlers, Handler, SendMessage, At
<1>6. OneAtATime'
  BY DEF OneAtATime, SendMessage
<1>7. Vector'
  <2>1. \A s \in Session \ {Target(t)} : writes'[s] = writes[s]
    BY <1>0, <1>1
  <2>2. QED BY <1>1, <2>1 DEF Vector, SendMessage
<1>8. Held'
  BY DEF Held, Kept, SendMessage
<1>9. Reached'
  <2> SUFFICES ASSUME Alone', NEW u \in Thread, pc'[u] = "broadcast"
               PROVE  /\ at'[u] <= Len(sessions_') + 1
                      /\ got'[u] = {sessions_'[k] : k \in 1 .. at'[u] - 1}
                                     \ {on'[u]}
    BY DEF Reached
  <2>1. u = t
    BY DEF Handlers, Handler, Alone, SendMessage, At
  <2>2. /\ at'[t] = at[t] + 1
        /\ got[t] = {sessions_[k] : k \in 1 .. at[t] - 1} \ {on[t]}
    BY <1>1 DEF Reached, Alone, SendMessage, At
  <2>3. {sessions_[k] : k \in 1 .. at[t] + 1 - 1}
          = {sessions_[k] : k \in 1 .. at[t] - 1} \cup {Target(t)}
    BY <1>1 DEF Target
  <2>4. got'[t] = (got[t] \cup {Target(t)}) \ {on[t]}
    BY <1>0, <1>1, <2>2
  <2>5. at'[t] <= Len(sessions_) + 1
    BY <1>1, <2>2
  <2>6. got'[t] = {sessions_[k] : k \in 1 .. at[t] + 1 - 1} \ {on[t]}
    <3> DEFINE before == {sessions_[k] : k \in 1 .. at[t] - 1}
               after  == {sessions_[k] : k \in 1 .. at[t] + 1 - 1}
    <3>1. got[t] = before \ {on[t]} /\ after = before \cup {Target(t)}
      BY <2>2, <2>3
    <3> HIDE DEF before, after
    <3>2. got'[t] = after \ {on[t]}
      BY <2>4, <3>1
    <3>3. QED BY <3>2 DEF after
  <2>7. QED BY <2>1, <2>2, <2>5, <2>6 DEF SendMessage
<1>10. Listened'
  BY DEF Listened, Handled, Alone, SendMessage
<1>11. QED BY <1>4, <1>5, <1>6, <1>7, <1>8, <1>9, <1>10

LEMMA EndBroadcastInv ==
  ASSUME Inv, NEW t \in threads, EndBroadcast(t)
  PROVE  Inv'
<1> USE DEF Inv, TypeOK, EndBroadcast, At, Finish
<1>1. on[t] \in Session /\ t \in Thread
  BY DEF Handlers, Handler
<1>2. TypeOK'
  <2>1. at' \in [Thread -> Nat \ {0}]
    BY <1>1
  <2>2. read' \in [Session -> {"new", "pending", "handled"}]
    BY <1>1
  <2>3. QED BY <2>1, <2>2, ChatServerAssumption
<1>3. Handlers'
  <2> SUFFICES ASSUME NEW u \in Thread PROVE Handler(u)'
    BY DEF Handlers
  <2>1. CASE u = t
    BY <2>1 DEF Handlers, Handler
  <2>2. CASE u # t
    <3>1. pc[u] \in {"broadcast", "over"} => on[u] # on[t]
      BY <2>2, <1>1 DEF OneAtATime
    <3>2. QED BY <2>2, <3>1, <1>1 DEF Handlers, Handler
  <2>3. QED BY <2>1, <2>2
<1>4. OneAtATime'
  BY ChatServerAssumption DEF Handlers, Handler, OneAtATime
<1>5. Vector'
  BY <1>1 DEF Handlers, Handler, Vector
<1>6. Held'
  <2> SUFFICES ASSUME NEW r \in Session,
                      \/ read'[r] = "pending"
                      \/ \E u \in Thread : pc'[u] = "broadcast" /\ on'[u] = r
               PROVE  Kept(r)'
    BY DEF Held
  <2>1. /\ pc[t] = "broadcast" /\ pc'[t] = "poll"
        /\ \A u \in Thread \ {t} : pc'[u] = pc[u] /\ on'[u] = on[u]
        /\ read'[r] = "pending" => r = on[t] \/ read[r] = "pending"
    BY <1>1
  <2>2. \/ read[r] = "pending"
        \/ \E u \in Thread : pc[u] = "broadcast" /\ on[u] = r
    BY <1>1, <2>1
  <2>3. Kept(r)
    BY <2>2 DEF Held
  <2>4. sessions_' = sessions_ /\ writeFailed' = writeFailed
    OBVIOUS
  <2>5. QED BY <2>1, <2>3, <2>4 DEF Kept
<1>7. Reached'
  BY DEF Handlers, Handler, Reached, Alone
<1>8. Listened'
  BY <1>1, ChatServerAssumption DEF Handlers, Handler, OneAtATime, Listened, Handled, Alone
<1>9. QED BY <1>2, <1>3, <1>4, <1>5, <1>6, <1>7, <1>8

LEMMA PushInv ==
  ASSUME Inv, NEW t \in threads, Push(t)
  PROVE  Inv'
<1> USE DEF Inv, TypeOK, Push, At, Finish, Change, MayBreak
<1>1. /\ on[t] \in Session /\ t \in Thread /\ read[on[t]] # "new"
      /\ on[t] \notin ToSet(sessions_)
  BY DEF Handlers, Handler
<1>2. /\ sessions_' \in Seq(Session)
      /\ ToSet(sessions_') = ToSet(sessions_) \cup {on[t]}
      /\ IsInjective(sessions_')
  BY <1>1, AppendOnce DEF Vector
<1>3. TypeOK'
  BY <1>2, ChatServerAssumption
<1>4. Handlers'
  <2> SUFFICES ASSUME NEW u \in Thread PROVE Handler(u)'
    BY DEF Handlers
  <2>1. CASE u = t
    BY <2>1 DEF Handlers, Handler
  <2>2. CASE u # t
    <3>1. pc[u] # "accepted"
      BY <1>1, <2>2 DEF OneAtATime
    <3>2. QED BY <2>2, <3>1, <1>1 DEF Handlers, Handler
  <2>3. QED BY <2>1, <2>2
<1>5. OneAtATime'
  BY ChatServerAssumption DEF Handlers, Handler, OneAtATime
<1>6. Vector'
  BY <1>1, <1>2 DEF Vector
<1>7. Held'
  <2>1. ASSUME NEW s \in Session, Kept(s) PROVE Kept(s)'
    BY <1>1, <1>2, <2>1 DEF Kept, OneAtATime
  <2>2. QED BY <2>1 DEF Held
<1>8. Reached'
  BY <1>1 DEF Handlers, Handler, Reached, Alone
<1>9. Listened'
  <2>1. \A s \in Session : s \in ToSet(sessions_') =>
          s \in ToSet(sessions_) \/ (pc[t] = "accepted" /\ on[t] = s)
    BY <1>1, <1>2
  <2>2. ASSUME Alone, NEW s \in Session, Handled(s), read[s] = "handled"
        PROVE  Handled(s)'
    BY <1>1, <2>1, <2>2 DEF Handled, Handlers, Handler, Alone
  <2>3. QED BY <2>2 DEF Listened, Alone
<1>10. QED BY <1>3, <1>4, <1>5, <1>6, <1>7, <1>8, <1>9

LEMMA EraseInv ==
  ASSUME Inv, NEW t \in threads, Erase(t)
  PROVE  Inv'
<1> USE DEF Inv, TypeOK, Erase, At, Finish, Change, MayBreak
<1>1. on[t] \in Session /\ t \in Thread
  BY DEF Handlers, Handler
<1>2. /\ sessions_' \in Seq(Session)
      /\ ToSet(sessions_') = ToSet(sessions_) \ {on[t]}
      /\ IsInjective(sessions_')
  BY <1>1, RemoveFirstOnce DEF Vector
<1>3. TypeOK'
  BY <1>2, ChatServerAssumption
<1>4. Handlers'
  <2> SUFFICES ASSUME NEW u \in Thread PROVE Handler(u)'
    BY DEF Handlers
  <2>1. CASE u = t
    BY <2>1 DEF Handlers, Handler
  <2>2. CASE u # t
    BY <1>1, <1>2, <2>2 DEF Handlers, Handler
  <2>3. QED BY <2>1, <2>2
<1>5. OneAtATime'
  BY ChatServerAssumption DEF Handlers, Handler, OneAtATime
<1>6. Vector'
  BY <1>2 DEF Vector
<1>7. Held'
  <2> SUFFICES ASSUME NEW s \in Session,
                      \/ read'[s] = "pending"
                      \/ \E u \in Thread : pc'[u] = "broadcast" /\ on'[u] = s
               PROVE  Kept(s)'
    BY DEF Held
  <2>1. CASE s = on[t]
    <3>1. pc[t] = "failed"
      BY <1>1, <2>1 DEF Handlers, Handler, OneAtATime
    <3>2. QED BY <2>1, <3>1 DEF Handlers, Handler, Kept
  <2>2. CASE s # on[t]
    <3>1. Kept(s)
      BY <2>2 DEF Held
    <3>2. QED BY <1>1, <1>2, <2>2, <3>1 DEF Kept
  <2>3. QED BY <2>1, <2>2
<1>8. Reached'
  BY <1>1 DEF Handlers, Handler, Reached, Alone
<1>9. Listened'
  <2> SUFFICES ASSUME Alone', NEW s \in Session, read'[s] = "handled"
               PROVE  Handled(s)'
    BY DEF Listened
  <2>1. CASE s = on[t]
    <3>1. \A u \in Thread : pc'[u] # "accepted"
      BY DEF Handlers, Handler, Alone
    <3>2. QED BY <1>2, <2>1, <3>1 DEF Handled
  <2>2. CASE s # on[t]
    <3>1. Handled(s)
      BY DEF Listened, Alone
    <3>2. QED BY <1>1, <1>2, <2>2, <3>1 DEF Handled
  <2>3. QED BY <2>1, <2>2
<1>10. QED BY <1>3, <1>4, <1>5, <1>6, <1>7, <1>8, <1>9

-----------------------------------------------------------------------------
LEMMA NextInv == Inv /\ [Next]_vars => Inv'
<1> SUFFICES ASSUME Inv, [Next]_vars PROVE Inv'
  OBVIOUS
<1>1. CASE UNCHANGED vars
  BY <1>1 DEF vars, Inv, TypeOK, Handlers, Handler, OneAtATime, Vector, Held,
              Kept, Reached, Listened, Handled, Alone
<1>2. ASSUME NEW t \in threads, Step(t) PROVE Inv'
  BY <1>2, PushInv, SendMessageInv, EndBroadcastInv, WriteRestInv, EraseInv
     DEF Step
<1>3. ASSUME NEW t \in threads, NEW s \in Session,
             \/ OnAccept(t, s) \/ OnAcceptThrows(t, s)
             \/ OnRead(t, s) \/ OnReadError(t, s)
             \/ OnReadFreed(t, s) \/ OnWrite(t, s) \/ OnWriteError(t, s)
      PROVE  Inv'
  BY <1>3, OnAcceptInv, OnAcceptThrowsInv, OnReadInv, OnReadErrorInv, OnReadFreedInv, OnWriteInv,
     OnWriteErrorInv
<1>4. QED BY <1>1, <1>2, <1>3, OnAcceptErrorInv, BreakInv DEF Next

THEOREM Invariance == Spec => []Inv
<1>1. Init => Inv
  BY InitInv
<1>2. Inv /\ [Next]_vars => Inv'
  BY NextInv
<1>3. QED BY <1>1, <1>2, PTL DEF Spec

(* on_read runs on freed memory only for a session that a failed write has *)
(* erased before: no other way of erasing leaves a read outstanding.       *)
THEOREM ReadsOutlive == Spec => []ReadOutlives
<1>1. Inv => ReadOutlives
  <2> SUFFICES ASSUME Inv, NEW s \in Session, read[s] = "pending", ~ Alive(s)
               PROVE  s \in writeFailed
    BY DEF ReadOutlives
  <2>1. Kept(s)
    BY DEF Inv, Held
  <2>2. ASSUME NEW t \in Thread, pc[t] = "accepted" PROVE t \in threads
    BY <2>2 DEF Inv, Handlers, Handler
  <2>3. QED BY <2>1, <2>2 DEF Kept, Alive
<1>2. QED BY <1>1, Invariance, PTL

(* No session is in the vector twice, and with one thread a broadcast has  *)
(* reached the sessions up to its iterator, all but the sender.            *)
THEOREM ReachesEveryoneElse == Spec => []EveryoneElse
<1>1. Inv => EveryoneElse
  BY DEF Inv, TypeOK, Vector, Reached, EveryoneElse
<1>2. QED BY <1>1, Invariance, PTL

(* With one thread no session of the vector is left without a read and     *)
(* without a handler that will start one or erase it.                      *)
THEOREM AlwaysListening == Spec => []Listening
<1>1. Inv => Listening
  <2> SUFFICES ASSUME Inv, Alone, NEW s \in ToSet(sessions_),
                      read[s] # "pending"
               PROVE  \E t \in threads : on[t] = s
    BY DEF Listening
  <2>1. s \in Session /\ read[s] = "handled"
    BY DEF Inv, TypeOK, Vector, ToSet
  <2>2. PICK t \in Thread : on[t] = s /\ pc[t] \in {"broadcast", "over"}
    BY <2>1 DEF Inv, Listened, Handled
  <2>3. t \in threads
    BY <2>2 DEF Inv, Handlers, Handler
  <2>4. QED BY <2>2, <2>3
<1>2. QED BY <1>1, Invariance, PTL

-----------------------------------------------------------------------------
(* The sending half of a session, for any messages of any lengths: as long *)
(* as no message is sent before the write of the one before it has been    *)
(* handled, the output buffer is in one of four phases.                    *)
(*                                                                         *)
(* What the buffer looks like between any two steps.                       *)
Sound ==
  /\ failed = "none"
  /\ buffer_ \in Seq(Int) /\ readerIndex_ \in Nat /\ writerIndex_ \in Nat
  /\ readerIndex_ <= writerIndex_ /\ writerIndex_ <= Len(buffer_)
  /\ kCheapPrepend <= Len(buffer_)
  /\ wire \in Seq(Int) /\ order \in Seq(Message)
  /\ sending \in [Message -> {"idle", "prepend", "sent"}]

(* The text of m is in the buffer, its length is not.                      *)
Filling(m) ==
  /\ sending[m] = "prepend"
  /\ \A n \in Message : sending[n] = "prepend" => n = m
  /\ outstanding = <<>> /\ handlers = <<>>
  /\ readerIndex_ = kCheapPrepend
  /\ Out!Readable = Body(m)
  /\ Frames = wire \o Frame(m)

(* Nothing is under way: all has been retrieved, unless the session is     *)
(* closed.                                                                 *)
Quiet(front) ==
  /\ outstanding = <<>> /\ handlers = <<>>
  /\ wire = front
  /\ ~ closed => readerIndex_ = kCheapPrepend /\ writerIndex_ = kCheapPrepend

(* A write of all that is readable is outstanding.                         *)
Writing(front) ==
  /\ outstanding = <<[at |-> readerIndex_, len |-> writerIndex_ - readerIndex_,
                      memory |-> memory]>>
  /\ handlers = <<>>
  /\ wire = front

(* Its first n bytes have left, and its handler has yet to run.            *)
Written(front, n) ==
  /\ outstanding = <<>> /\ handlers = <<n>>
  /\ wire = front \o SubSeq(Out!Readable, 1, n)

(* In these three phases what has been retrieved is the front of what was  *)
(* sent, and the rest is in the buffer.                                    *)
Emptying(front) ==
  /\ \A m \in Message : sending[m] # "prepend"
  /\ Frames = front \o Out!Readable
  /\ \/ Quiet(front)
     \/ Writing(front)
     \/ \E n \in 1 .. writerIndex_ - readerIndex_ : Written(front, n)

Phases ==
  \/ \E m \in Message : Filling(m)
  \/ \E front \in Seq(Int) : Emptying(front)

Calm == overlap \in BOOLEAN /\ (~ overlap => Sound /\ Phases)

-----------------------------------------------------------------------------
(* A frame is its length and its text.                                     *)
LEMMA FrameParts ==
  ASSUME NEW m \in Message
  PROVE  /\ Frame(m) \in Seq(Int) /\ Length(m) \in Seq(Int)
         /\ Body(m) \in Seq(Int)
         /\ Len(Length(m)) = IntBytes /\ Len(Body(m)) = BodyLen[m]
         /\ Len(Frame(m)) = IntBytes + BodyLen[m]
         /\ Frame(m) = Length(m) \o Body(m)
<1> DEFINE f == Frame(m)
           n == IntBytes
           l == IntBytes + BodyLen[m]
<1>1. n \in Nat \ {0} /\ BodyLen[m] \in Nat \ {0} /\ Span \in Nat /\ m \in Nat
  BY ChatAssumption
<1>2. l \in Nat /\ n <= l /\ n \in 1 .. l /\ l - n = BodyLen[m]
  BY <1>1
<1>3. \A i \in 1 .. l : ByteOf(m, i) \in Int
  BY <1>1 DEF ByteOf
<1>4. f = [i \in 1 .. l |-> ByteOf(m, i)]
  BY DEF Frame
<1> HIDE DEF f, l
<1>5. f \in Seq(Int) /\ Len(f) = l
  BY <1>2, <1>3, <1>4
<1>6. /\ SubSeq(f, 1, n) \in Seq(Int) /\ Len(SubSeq(f, 1, n)) = n
      /\ SubSeq(f, n + 1, l) \in Seq(Int)
      /\ Len(SubSeq(f, n + 1, l)) = l - n
  <2>1. 0 \in Nat /\ 0 + 1 = 1 /\ n - 0 = n /\ 0 <= n /\ l <= Len(f)
    BY <1>1, <1>5, <1>2
  <2>2. n <= Len(f)
    BY <1>2, <1>5
  <2>3. /\ SubSeq(f, 0 + 1, n) \in Seq(Int)
        /\ Len(SubSeq(f, 0 + 1, n)) = n - 0
    BY <1>1, <1>5, <2>1, <2>2, Window
  <2>4. /\ SubSeq(f, n + 1, l) \in Seq(Int)
        /\ Len(SubSeq(f, n + 1, l)) = l - n
    BY <1>1, <1>2, <1>5, <2>1, Window
  <2>5. QED BY <2>1, <2>3, <2>4
<1>7. f = SubSeq(f, 1, n) \o SubSeq(f, n + 1, l)
  BY <1>1, <1>2, <1>5, InTwo
<1>8. Length(m) = SubSeq(f, 1, n) /\ Body(m) = SubSeq(f, n + 1, l)
  BY DEF Length, Body, f, l
<1>9. QED BY <1>2, <1>5, <1>6, <1>7, <1>8 DEF f, l

-----------------------------------------------------------------------------
LEMMA Copied ==
  ASSUME NEW v \in Seq(Int), NEW p \in Nat, NEW data \in Seq(Int),
         p + Len(data) <= Len(v)
  PROVE  /\ Out!CopyTo(v, p, data) \in Seq(Int)
         /\ Len(Out!CopyTo(v, p, data)) = Len(v)
         /\ \A i \in 1 .. Len(data) : Out!CopyTo(v, p, data)[p + i] = data[i]
         /\ \A i \in 1 .. Len(v) : i <= p \/ p + Len(data) < i =>
              Out!CopyTo(v, p, data)[i] = v[i]
<1> DEFINE Byte(i) == IF i \in p + 1 .. p + Len(data) THEN data[i - p] ELSE v[i]
           c == Out!CopyTo(v, p, data)
<1>1. Len(v) \in Nat /\ Len(data) \in Nat
  OBVIOUS
<1>2. \A i \in 1 .. Len(v) : Byte(i) \in Int
  OBVIOUS
<1>3. c = [i \in 1 .. Len(v) |-> Byte(i)]
  BY DEF Out!CopyTo
<1> HIDE DEF c
<1>4. c \in Seq(Int) /\ Len(c) = Len(v) /\ \A i \in 1 .. Len(v) : c[i] = Byte(i)
  <2> HIDE DEF Byte
  <2>1. QED BY <1>1, <1>2, <1>3, IsASeq
<1>5. ASSUME NEW i \in 1 .. Len(data) PROVE c[p + i] = data[i]
  <2>1. /\ p + i \in 1 .. Len(v) /\ p + i \in p + 1 .. p + Len(data)
        /\ (p + i) - p = i
    BY <1>1
  <2>2. c[p + i] = Byte(p + i)
    BY <1>4, <2>1
  <2>3. Byte(p + i) = data[(p + i) - p]
    BY <2>1
  <2>4. QED BY <2>1, <2>2, <2>3
<1>6. ASSUME NEW i \in 1 .. Len(v), i <= p \/ p + Len(data) < i
      PROVE  c[i] = v[i]
  <2>1. i \notin p + 1 .. p + Len(data)
    BY <1>1, <1>6
  <2>2. Byte(i) = v[i]
    BY <2>1
  <2>3. QED BY <1>4, <2>2
<1>7. QED BY <1>4, <1>5, <1>6 DEF c

(* The data where it was copied to, and the rest behind it.                *)
LEMMA CopiedWindows ==
  ASSUME NEW v \in Seq(Int), NEW p \in Nat, NEW data \in Seq(Int),
         p + Len(data) <= Len(v)
  PROVE  /\ SubSeq(Out!CopyTo(v, p, data), p + 1, p + Len(data)) = data
         /\ \A m, n \in Nat :
              p + Len(data) <= m /\ m <= n /\ n <= Len(v) =>
                SubSeq(Out!CopyTo(v, p, data), m + 1, n) = SubSeq(v, m + 1, n)
<1> DEFINE c == Out!CopyTo(v, p, data)
           l == p + Len(data)
<1>1. /\ c \in Seq(Int) /\ Len(c) = Len(v)
      /\ \A i \in 1 .. Len(data) : c[p + i] = data[i]
      /\ \A i \in 1 .. Len(v) : i <= p \/ l < i => c[i] = v[i]
  BY Copied
<1>2. l \in Nat /\ p <= l /\ l <= Len(v) /\ l - p = Len(data)
  OBVIOUS
<1> HIDE DEF c, l
<1>3. l <= Len(c)
  BY <1>1, <1>2
<1>4. SubSeq(c, p + 1, l) = data
  <2> DEFINE w == SubSeq(c, p + 1, l)
  <2>1. /\ w \in Seq(Int) /\ Len(w) = l - p
        /\ \A i \in 1 .. l - p : w[i] = c[p + i]
    <3>1. c \in Seq(Int) /\ l \in Nat /\ p <= l
      BY <1>1, <1>2
    <3>2. QED BY <3>1, <1>3, Window
  <2> HIDE DEF w
  <2>2. Len(w) = Len(data) /\ \A i \in 1 .. Len(w) : w[i] = data[i]
    BY <1>1, <1>2, <2>1
  <2>3. w = data
    BY <2>1, <2>2, SeqEqual
  <2>4. QED BY <2>3 DEF w
<1>5. ASSUME NEW m \in Nat, NEW n \in Nat, l <= m, m <= n, n <= Len(v)
      PROVE  SubSeq(c, m + 1, n) = SubSeq(v, m + 1, n)
  <2> DEFINE w == SubSeq(c, m + 1, n)
             u == SubSeq(v, m + 1, n)
  <2>1. /\ w \in Seq(Int) /\ Len(w) = n - m
        /\ \A i \in 1 .. n - m : w[i] = c[m + i]
    <3>1. c \in Seq(Int) /\ m <= n /\ n <= Len(c)
      BY <1>1, <1>5
    <3>2. QED BY <3>1, Window
  <2>2. /\ u \in Seq(Int) /\ Len(u) = n - m
        /\ \A i \in 1 .. n - m : u[i] = v[m + i]
    BY <1>5, Window
  <2> HIDE DEF w, u
  <2>3. ASSUME NEW i \in 1 .. n - m PROVE w[i] = u[i]
    <3>1. m + i \in 1 .. Len(v) /\ l < m + i
      BY <1>2, <1>5
    <3>2. c[m + i] = v[m + i]
      BY <1>1, <3>1
    <3>3. QED BY <2>1, <2>2, <3>2
  <2>4. w = u
    BY <2>1, <2>2, <2>3, SeqEqual
  <2>5. QED BY <2>4 DEF w, u
<1>6. QED BY <1>4, <1>5 DEF c, l

(* What the three operations of Buffer do to the output buffer, where it   *)
(* stands.  An empty buffer need not be moved: it grows or has the room.   *)
LEMMA Appends ==
  ASSUME buffer_ \in Seq(Int), kCheapPrepend <= Len(buffer_),
         readerIndex_ = kCheapPrepend, writerIndex_ = kCheapPrepend,
         NEW data \in Seq(Int), Out!append(data)
  PROVE  /\ buffer_' \in Seq(Int)
         /\ readerIndex_' = kCheapPrepend
         /\ writerIndex_' = kCheapPrepend + Len(data)
         /\ writerIndex_' <= Len(buffer_')
         /\ Out!Readable' = data
<1> DEFINE k == kCheapPrepend
           n == Len(data)
           b == Out!Roomy(n)
           v == buffer_'
<1>1. k \in Nat /\ n \in Nat /\ Len(buffer_) \in Nat
  BY ChatAssumption
<1>2. /\ b.vec \in Seq(Int) /\ k + n <= Len(b.vec)
      /\ b.r = k /\ b.w = k
  <2>1. Out!NeedsSpace(n) <=> Len(buffer_) - k < n
    BY DEF Out!NeedsSpace, Out!writableBytes
  <2>2. Out!MustResize(n) <=> Len(buffer_) - k + k < n + k
    BY DEF Out!MustResize, Out!writableBytes, Out!prependableBytes
  <2>3. CASE ~ Out!NeedsSpace(n)
    <3>1. b = [vec |-> buffer_, r |-> readerIndex_, w |-> writerIndex_]
      BY <2>3 DEF Out!Roomy
    <3> HIDE DEF b
    <3>2. QED BY <1>1, <2>1, <2>3, <3>1
  <2>4. CASE Out!NeedsSpace(n)
    <3>1. Out!MustResize(n)
      BY <1>1, <2>1, <2>2, <2>4
    <3>2. b = [vec |-> Out!Resize(buffer_, writerIndex_ + n),
               r |-> readerIndex_, w |-> writerIndex_]
      BY <2>4, <3>1 DEF Out!Roomy
    <3>3. /\ Out!Resize(buffer_, k + n) \in Seq(Int)
          /\ Len(Out!Resize(buffer_, k + n)) = k + n
      <4> DEFINE Byte(i) == IF i <= Len(buffer_) THEN buffer_[i] ELSE 0
                 h == k + n
      <4>1. h \in Nat /\ \A i \in 1 .. h : Byte(i) \in Int
        BY <1>1
      <4>2. Out!Resize(buffer_, h) = [i \in 1 .. h |-> Byte(i)]
        BY DEF Out!Resize
      <4> HIDE DEF Byte, h
      <4>3. /\ Out!Resize(buffer_, h) \in Seq(Int)
            /\ Len(Out!Resize(buffer_, h)) = h
        BY <4>1, <4>2, IsASeq
      <4>4. QED BY <4>3 DEF h
    <3> HIDE DEF b
    <3>4. QED BY <1>1, <3>2, <3>3
  <2>5. QED BY <2>3, <2>4
<1>3. /\ v = Out!CopyTo(b.vec, b.w, data)
      /\ readerIndex_' = b.r /\ writerIndex_' = b.w + n
  BY DEF Out!append
<1> HIDE DEF b, v
<1>4. /\ v \in Seq(Int) /\ Len(v) = Len(b.vec)
      /\ \A i \in 1 .. n : v[k + i] = data[i]
  <2>1. b.vec \in Seq(Int) /\ k \in Nat /\ k + Len(data) <= Len(b.vec)
    BY <1>1, <1>2
  <2>2. v = Out!CopyTo(b.vec, k, data)
    BY <1>2, <1>3
  <2>3. /\ Out!CopyTo(b.vec, k, data) \in Seq(Int)
        /\ Len(Out!CopyTo(b.vec, k, data)) = Len(b.vec)
        /\ \A i \in 1 .. Len(data) : Out!CopyTo(b.vec, k, data)[k + i] = data[i]
    BY <2>1, Copied
  <2>4. QED BY <2>2, <2>3
<1>5. k + n <= Len(v)
  BY <1>2, <1>4
<1>6. SubSeq(v, k + 1, k + n) = data
  <2>1. b.vec \in Seq(Int) /\ k \in Nat /\ k + Len(data) <= Len(b.vec)
    BY <1>1, <1>2
  <2>2. v = Out!CopyTo(b.vec, k, data)
    BY <1>2, <1>3
  <2>3. SubSeq(Out!CopyTo(b.vec, k, data), k + 1, k + Len(data)) = data
    BY <2>1, CopiedWindows
  <2>4. QED BY <2>2, <2>3
<1>7. Out!Readable' = SubSeq(v, readerIndex_' + 1, writerIndex_')
  BY DEF Out!Readable, v
<1>8. QED BY <1>2, <1>3, <1>4, <1>5, <1>6, <1>7 DEF v

LEMMA Prepends ==
  ASSUME buffer_ \in Seq(Int), readerIndex_ \in Nat, writerIndex_ \in Nat,
         readerIndex_ <= writerIndex_, writerIndex_ <= Len(buffer_),
         NEW data \in Seq(Int), Out!prepend(data)
  PROVE  /\ buffer_' \in Seq(Int) /\ Len(buffer_') = Len(buffer_)
         /\ readerIndex_' \in Nat /\ readerIndex_' <= readerIndex_
         /\ writerIndex_' = writerIndex_
         /\ Out!Readable' = data \o Out!Readable
<1> DEFINE q == readerIndex_ - Len(data)
           v == buffer_'
<1>1. /\ Len(data) <= readerIndex_ /\ readerIndex_' = q
      /\ v = Out!CopyTo(buffer_, q, data) /\ writerIndex_' = writerIndex_
  BY DEF Out!prepend, Out!prependableBytes
<1>2. /\ q \in Nat /\ q + Len(data) = readerIndex_ /\ q <= readerIndex_
      /\ q + Len(data) <= Len(buffer_)
  BY <1>1
<1> HIDE DEF q, v
<1>3. v \in Seq(Int) /\ Len(v) = Len(buffer_)
  BY <1>1, <1>2, Copied
<1>4. /\ SubSeq(v, q + 1, readerIndex_) = data
      /\ SubSeq(v, readerIndex_ + 1, writerIndex_) = Out!Readable
  <2>1. /\ SubSeq(v, q + 1, q + Len(data)) = data
        /\ \A m, n \in Nat :
              q + Len(data) <= m /\ m <= n /\ n <= Len(buffer_) =>
                SubSeq(v, m + 1, n) = SubSeq(buffer_, m + 1, n)
    <3>1. /\ SubSeq(Out!CopyTo(buffer_, q, data), q + 1, q + Len(data)) = data
          /\ \A m, n \in Nat :
               q + Len(data) <= m /\ m <= n /\ n <= Len(buffer_) =>
                 SubSeq(Out!CopyTo(buffer_, q, data), m + 1, n) =
                   SubSeq(buffer_, m + 1, n)
      BY <1>2, CopiedWindows
    <3>2. QED BY <1>1, <3>1, Zenon
  <2>2. q + Len(data) <= readerIndex_
    BY <1>2
  <2>3. /\ SubSeq(v, q + 1, readerIndex_) = data
        /\ SubSeq(v, readerIndex_ + 1, writerIndex_) =
             SubSeq(buffer_, readerIndex_ + 1, writerIndex_)
    BY <1>2, <2>1, <2>2, Zenon
  <2>4. QED BY <2>3, Zenon DEF Out!Readable
<1>5. SubSeq(v, q + 1, readerIndex_) \o SubSeq(v, readerIndex_ + 1, writerIndex_)
        = SubSeq(v, q + 1, writerIndex_)
  <2>1. writerIndex_ <= Len(v) /\ q \in Nat /\ q <= readerIndex_
    BY <1>2, <1>3
  <2>2. QED BY <1>3, <2>1, WindowsMeet
<1>6. Out!Readable' = SubSeq(v, q + 1, writerIndex_)
  <2>1. Out!Readable' = SubSeq(v, readerIndex_' + 1, writerIndex_')
    BY DEF Out!Readable, v
  <2>2. QED BY <1>1, <2>1, Zenon
<1>7. Out!Readable' = data \o Out!Readable
  BY <1>4, <1>5, <1>6, Zenon
<1>8. QED BY <1>1, <1>2, <1>3, <1>7 DEF v

LEMMA Retrieves ==
  ASSUME buffer_ \in Seq(Int), readerIndex_ \in Nat, writerIndex_ \in Nat,
         readerIndex_ <= writerIndex_, writerIndex_ <= Len(buffer_),
         NEW n \in Nat, Out!retrieve(n)
  PROVE  /\ buffer_' = buffer_
         /\ SubSeq(Out!Readable, 1, n) \in Seq(Int)
         /\ Out!Readable' \in Seq(Int)
         /\ Out!Readable = SubSeq(Out!Readable, 1, n) \o Out!Readable'
         /\ IF n < writerIndex_ - readerIndex_
            THEN readerIndex_' = readerIndex_ + n /\ writerIndex_' = writerIndex_
            ELSE readerIndex_' = kCheapPrepend /\ writerIndex_' = kCheapPrepend
<1> DEFINE r == readerIndex_
           h == Out!Readable
<1>1. /\ buffer_' = buffer_ /\ n <= writerIndex_ - r
      /\ IF n < writerIndex_ - r
         THEN readerIndex_' = r + n /\ writerIndex_' = writerIndex_
         ELSE readerIndex_' = kCheapPrepend /\ writerIndex_' = kCheapPrepend
  BY DEF Out!retrieve, Out!Retrieved, Out!readableBytes
<1>2. /\ r + n \in Nat /\ r <= r + n /\ r + n <= writerIndex_
      /\ r + n <= Len(buffer_)
  BY <1>1
<1>3. /\ h = SubSeq(buffer_, r + 1, writerIndex_)
      /\ Out!Readable' = SubSeq(buffer_', readerIndex_' + 1, writerIndex_')
  BY DEF Out!Readable
<1> DEFINE a == SubSeq(buffer_, r + 1, r + n)
           b == SubSeq(buffer_, r + n + 1, writerIndex_)
<1>4. a \in Seq(Int) /\ b \in Seq(Int)
  BY <1>2, Window
<1>5. a \o b = SubSeq(buffer_, r + 1, writerIndex_)
  <2> DEFINE m == r + n
  <2>1. m \in Nat /\ r <= m /\ m <= writerIndex_
    BY <1>2
  <2> HIDE DEF m
  <2>2. SubSeq(buffer_, r + 1, m) \o SubSeq(buffer_, m + 1, writerIndex_) =
          SubSeq(buffer_, r + 1, writerIndex_)
    BY <2>1, WindowsMeet
  <2>3. QED BY <2>2 DEF m
<1>6. SubSeq(SubSeq(buffer_, r + 1, writerIndex_), 1, n) = a
  BY <1>2, FrontOfWindow
<1>7. CASE n < writerIndex_ - r
  <2>1. Out!Readable' = SubSeq(buffer_, r + n + 1, writerIndex_)
    <3>1. readerIndex_' = r + n /\ writerIndex_' = writerIndex_
      BY <1>1, <1>7
    <3> HIDE DEF r
    <3>2. QED BY <1>1, <1>3, <3>1, Zenon
  <2>2. SubSeq(h, 1, n) = a /\ h = a \o Out!Readable'
    BY <1>3, <1>5, <1>6, <2>1, Zenon
  <2>3. QED BY <1>1, <1>4, <2>1, <2>2
<1>8. CASE ~ n < writerIndex_ - r
  <2>1. r + n = writerIndex_ /\ writerIndex_ < r + n + 1
    BY <1>1, <1>8
  <2>2. /\ readerIndex_' = kCheapPrepend /\ writerIndex_' = kCheapPrepend
        /\ kCheapPrepend \in Nat /\ kCheapPrepend < kCheapPrepend + 1
    BY <1>1, <1>8, ChatAssumption
  <2>3. Out!Readable' = <<>>
    BY <1>3, <2>2, SubSeqEmpty
  <2>4. h = a
    BY <1>3, <2>1
  <2>5. a \o <<>> = a
    BY <1>4, ConcatEmptySeq
  <2>6. SubSeq(h, 1, n) = a /\ h = a \o Out!Readable'
    BY <1>3, <1>6, <2>3, <2>4, <2>5, Zenon
  <2>7. QED BY <1>1, <1>4, <2>3, <2>6
<1>9. QED BY <1>7, <1>8

LEMMA ReadableType ==
  ASSUME Sound
  PROVE  /\ Out!Readable \in Seq(Int)
         /\ Len(Out!Readable) = writerIndex_ - readerIndex_
         /\ \A i \in 1 .. writerIndex_ - readerIndex_ :
              Out!Readable[i] = buffer_[readerIndex_ + i]
<1>1. /\ buffer_ \in Seq(Int) /\ readerIndex_ \in Nat /\ writerIndex_ \in Nat
      /\ readerIndex_ <= writerIndex_ /\ writerIndex_ <= Len(buffer_)
  BY DEF Sound
<1>2. QED BY <1>1, Window DEF Out!Readable

-----------------------------------------------------------------------------
(* What was sent grows by one frame at a time.                             *)
LEMMA FramesType ==
  ASSUME order \in Seq(Message)
  PROVE  /\ Frames \in Seq(Int)
         /\ [i \in 1 .. Len(order) |-> Frame(order[i])] \in Seq(Seq(Int))
<1> DEFINE Of(i) == Frame(order[i])
           n == Len(order)
<1>1. n \in Nat /\ \A i \in 1 .. n : order[i] \in Message
  OBVIOUS
<1>2. \A i \in 1 .. n : Of(i) \in Seq(Int)
  BY <1>1, FrameParts
<1> HIDE DEF Of, n
<1>3. [i \in 1 .. n |-> Of(i)] \in Seq(Seq(Int))
  BY <1>1, <1>2, IsASeq
<1>4. FlattenSeq([i \in 1 .. n |-> Of(i)]) \in Seq(Int)
  BY <1>3, FlattenType
<1>5. QED BY <1>3, <1>4 DEF Frames, Of, n

LEMMA FramesNext ==
  ASSUME order \in Seq(Message), NEW m \in Message, order' = Append(order, m)
  PROVE  order' \in Seq(Message) /\ Frames' = Frames \o Frame(m)
<1> DEFINE o == order'
           n == Len(order)
           s == [i \in 1 .. n |-> Frame(order[i])]
           t == [i \in 1 .. Len(o) |-> Frame(o[i])]
           f == Frame(m)
<1>1. /\ o \in Seq(Message) /\ Len(o) = n + 1 /\ n \in Nat /\ o[n + 1] = m
      /\ \A i \in 1 .. n : o[i] = order[i]
  BY AppendProperties
<1>2. s \in Seq(Seq(Int)) /\ Len(s) = n
  BY <1>1, FramesType
<1>3. f \in Seq(Int)
  BY FrameParts
<1>4. /\ \A i \in 1 .. n : t[i] = s[i]
      /\ t[n + 1] = f /\ DOMAIN t = 1 .. n + 1
  BY <1>1
<1>5. t = [i \in 1 .. n + 1 |-> t[i]]
  BY <1>1
<1>6. Frames = FlattenSeq(s) /\ Frames' = FlattenSeq(t)
  BY DEF Frames
<1> HIDE DEF s, t, f, o, n
<1>7. /\ Append(s, f) \in Seq(Seq(Int)) /\ Len(Append(s, f)) = n + 1
      /\ Append(s, f)[n + 1] = f
      /\ \A i \in 1 .. n : Append(s, f)[i] = s[i]
  BY <1>2, <1>3, AppendProperties
<1>8. ASSUME NEW i \in 1 .. n + 1 PROVE t[i] = Append(s, f)[i]
  <2>1. i = n + 1 \/ i \in 1 .. n
    BY <1>1
  <2>2. QED BY <1>4, <1>7, <2>1
<1>9. Append(s, f) = [i \in 1 .. n + 1 |-> Append(s, f)[i]]
  <2> DEFINE v == Append(s, f)
  <2>1. v \in Seq(Seq(Int)) /\ Len(v) = n + 1
    BY <1>7
  <2> HIDE DEF v
  <2>2. v = [i \in 1 .. n + 1 |-> v[i]]
    BY <2>1
  <2>3. QED BY <2>2 DEF v
<1>10. t = Append(s, f)
  BY <1>5, <1>8, <1>9
<1>11. FlattenSeq(Append(s, f)) = FlattenSeq(s) \o f
  BY <1>2, <1>3, FlattenAppend
<1>12. QED BY <1>1, <1>6, <1>10, <1>11 DEF f, o

-----------------------------------------------------------------------------
(* From here on, one lemma for each action.                                *)
LEMMA SessionInitCalm == SessionInit => Calm
<1> SUFFICES ASSUME SessionInit PROVE Calm
  OBVIOUS
<1>1. /\ readerIndex_ = kCheapPrepend /\ writerIndex_ = kCheapPrepend
      /\ buffer_ = Out!Constructed(kInitialSize)
      /\ outstanding = <<>> /\ handlers = <<>> /\ wire = <<>>
      /\ failed = "none" /\ order = <<>> /\ overlap = FALSE
      /\ sending = [m \in Message |-> "idle"]
  BY DEF SessionInit, Out!Init
<1>2. kCheapPrepend \in Nat /\ kInitialSize \in Nat
  BY ChatAssumption
<1>3. buffer_ \in Seq(Int) /\ Len(buffer_) = kCheapPrepend + kInitialSize
  <2> DEFINE l == kCheapPrepend + kInitialSize
             Byte(i) == 0
  <2>1. l \in Nat /\ \A i \in 1 .. l : Byte(i) \in Int
    BY <1>2
  <2>2. buffer_ = [i \in 1 .. l |-> Byte(i)]
    BY <1>1 DEF Out!Constructed
  <2> HIDE DEF l, Byte
  <2>3. buffer_ \in Seq(Int) /\ Len(buffer_) = l
    BY <2>1, <2>2, IsASeq
  <2>4. QED BY <2>3 DEF l
<1>4. Out!Readable = <<>>
  <2>1. kCheapPrepend < kCheapPrepend + 1
    BY <1>2
  <2>2. QED BY <1>1, <1>2, <1>3, <2>1, SubSeqEmpty DEF Out!Readable
<1>5. Frames = <<>>
  BY <1>1 DEF Frames, FlattenSeq
<1>6. <<>> \in Seq(Int) /\ <<>> \o <<>> = <<>>
  BY ConcatEmptySeq
<1>7. Sound
  BY <1>1, <1>2, <1>3 DEF Sound
<1>8. Emptying(<<>>)
  BY <1>1, <1>4, <1>5, <1>6 DEF Emptying, Quiet
<1>9. Phases
  BY <1>6, <1>8 DEF Phases
<1>10. QED BY <1>1, <1>7, <1>9 DEF Calm

LEMMA AppendBodyCalm ==
  ASSUME Sound, Phases, ~ overlap', NEW m \in Message, AppendBody(m)
  PROVE  Sound' /\ Phases'
<1>1. /\ \A n \in Message : sending[n] # "prepend"
      /\ ~ closed /\ Out!append(Body(m)) /\ order' = Append(order, m)
      /\ sending' = [sending EXCEPT ![m] = "prepend"]
      /\ outstanding = <<>> /\ handlers = <<>>
      /\ outstanding' = <<>> /\ handlers' = <<>>
      /\ wire' = wire /\ failed' = failed
  BY DEF AppendBody, Free, Pending
<1>2. PICK front \in Seq(Int) : Emptying(front)
  BY <1>1 DEF Phases, Filling
<1>3. Quiet(front)
  BY <1>1, <1>2 DEF Emptying, Writing, Written
<1>4. /\ readerIndex_ = kCheapPrepend /\ writerIndex_ = kCheapPrepend
      /\ wire = front
  BY <1>1, <1>3 DEF Quiet
<1>5. /\ buffer_ \in Seq(Int) /\ kCheapPrepend <= Len(buffer_)
      /\ order \in Seq(Message) /\ wire \in Seq(Int) /\ failed = "none"
      /\ sending \in [Message -> {"idle", "prepend", "sent"}]
  BY DEF Sound
<1>6. Body(m) \in Seq(Int) /\ Frame(m) \in Seq(Int)
  BY FrameParts
<1>7. /\ buffer_' \in Seq(Int) /\ readerIndex_' = kCheapPrepend
      /\ writerIndex_' = kCheapPrepend + Len(Body(m))
      /\ writerIndex_' <= Len(buffer_') /\ Out!Readable' = Body(m)
  BY <1>1, <1>4, <1>5, <1>6, Appends
<1>8. order' \in Seq(Message) /\ Frames' = Frames \o Frame(m)
  BY <1>1, <1>5, FramesNext
<1>9. Frames = wire
  <2>1. kCheapPrepend \in Nat /\ kCheapPrepend < kCheapPrepend + 1
    BY ChatAssumption
  <2>2. Out!Readable = <<>>
    BY <1>4, <1>5, <2>1, SubSeqEmpty DEF Out!Readable
  <2>3. Frames = wire \o <<>>
    BY <1>2, <1>4, <2>2 DEF Emptying
  <2>4. QED BY <1>5, <2>3, ConcatEmptySeq
<1>10. Sound'
  <2>1. /\ readerIndex_' \in Nat /\ writerIndex_' \in Nat
        /\ readerIndex_' <= writerIndex_' /\ kCheapPrepend <= Len(buffer_')
    <3> DEFINE l == Len(Body(m))
    <3>1. l \in Nat /\ kCheapPrepend \in Nat /\ Len(buffer_') \in Nat
      BY <1>6, <1>7, ChatAssumption
    <3> HIDE DEF l
    <3>2. QED BY <1>7, <3>1 DEF l
  <2>2. sending' \in [Message -> {"idle", "prepend", "sent"}]
    BY <1>1, <1>5
  <2>3. QED BY <1>1, <1>5, <1>7, <1>8, <2>1, <2>2 DEF Sound
<1>11. Filling(m)'
  <2>1. /\ sending'[m] = "prepend"
        /\ \A n \in Message : sending'[n] = "prepend" => n = m
    BY <1>1, <1>5
  <2>2. Frames' = wire' \o Frame(m)
    BY <1>1, <1>8, <1>9
  <2>3. QED BY <1>1, <1>7, <2>1, <2>2 DEF Filling
<1>12. QED BY <1>10, <1>11 DEF Phases

LEMMA PrependCalm ==
  ASSUME Sound, Phases, NEW m \in Message, Prepend(m)
  PROVE  Sound' /\ Phases'
<1>1. /\ sending[m] = "prepend" /\ Out!prepend(Length(m)) /\ memory' = memory
      /\ sending' = [sending EXCEPT ![m] = "sent"]
      /\ outstanding' =
           Append(outstanding, [at |-> readerIndex_',
                                len |-> writerIndex_' - readerIndex_',
                                memory |-> memory'])
      /\ handlers' = handlers /\ wire' = wire /\ failed' = failed
      /\ order' = order
  BY DEF Prepend, AsyncWriteSome
<1>2. Filling(m)
  BY <1>1 DEF Phases, Filling, Emptying
<1>3. /\ buffer_ \in Seq(Int) /\ readerIndex_ \in Nat /\ writerIndex_ \in Nat
      /\ readerIndex_ <= writerIndex_ /\ writerIndex_ <= Len(buffer_)
      /\ order \in Seq(Message) /\ wire \in Seq(Int) /\ failed = "none"
      /\ sending \in [Message -> {"idle", "prepend", "sent"}]
      /\ kCheapPrepend <= Len(buffer_)
  BY DEF Sound
<1>4. Length(m) \in Seq(Int) /\ Frame(m) = Length(m) \o Body(m)
  BY FrameParts
<1>5. /\ buffer_' \in Seq(Int) /\ Len(buffer_') = Len(buffer_)
      /\ readerIndex_' \in Nat /\ readerIndex_' <= readerIndex_
      /\ writerIndex_' = writerIndex_
      /\ Out!Readable' = Length(m) \o Out!Readable
  BY <1>1, <1>3, <1>4, Prepends
<1>6. /\ outstanding = <<>> /\ handlers = <<>> /\ Out!Readable = Body(m)
      /\ Frames = wire \o Frame(m)
  BY <1>2 DEF Filling
<1>7. Sound'
  <2>1. readerIndex_' <= writerIndex_' /\ writerIndex_' <= Len(buffer_')
    BY <1>3, <1>5
  <2>2. sending' \in [Message -> {"idle", "prepend", "sent"}]
    BY <1>1, <1>3
  <2>3. QED BY <1>1, <1>3, <1>5, <2>1, <2>2 DEF Sound
<1>8. Emptying(wire)'
  <2>1. \A n \in Message : sending'[n] # "prepend"
    BY <1>1, <1>2, <1>3 DEF Filling
  <2>2. Frames' = wire' \o Out!Readable'
    <3>1. Frames' = Frames
      BY <1>1 DEF Frames
    <3>2. QED BY <1>1, <1>4, <1>5, <1>6, <3>1, Zenon
  <2>3. Writing(wire)'
    <3>1. outstanding' = <<[at |-> readerIndex_',
                            len |-> writerIndex_' - readerIndex_',
                            memory |-> memory']>>
      BY <1>1, <1>6
    <3>2. QED BY <1>1, <1>6, <3>1 DEF Writing
  <2>4. QED BY <2>1, <2>2, <2>3 DEF Emptying
<1>9. wire' \in Seq(Int)
  BY <1>1, <1>3
<1>10. QED BY <1>7, <1>8, <1>9 DEF Phases

(* There is always headroom for the length of the one that is filling.     *)
LEMMA PrependHolds ==
  ASSUME Sound, Phases, NEW m \in Message
  PROVE  ~ PrependFails(m)
<1> SUFFICES ASSUME PrependFails(m) PROVE FALSE
  OBVIOUS
<1>1. sending[m] = "prepend" /\ Len(Length(m)) > readerIndex_
  BY DEF PrependFails, Out!prependableBytes
<1>2. Filling(m)
  BY <1>1 DEF Phases, Filling, Emptying
<1>3. /\ Len(Length(m)) = IntBytes /\ readerIndex_ = kCheapPrepend
      /\ IntBytes \in Nat /\ kCheapPrepend \in Nat /\ IntBytes <= kCheapPrepend
  BY <1>2, FrameParts, ChatAssumption DEF Filling
<1>4. QED BY <1>1, <1>3

(* What the steps that leave the buffer alone keep.                        *)
Same ==
  /\ buffer_' = buffer_ /\ readerIndex_' = readerIndex_
  /\ writerIndex_' = writerIndex_ /\ memory' = memory
  /\ sending' = sending /\ failed' = failed /\ order' = order

LEMMA SameKeeps ==
  ASSUME Same
  PROVE  /\ Out!Readable' = Out!Readable /\ Frames' = Frames
         /\ Sound /\ wire' \in Seq(Int) => Sound'
<1>1. Out!Readable' = Out!Readable
  BY DEF Same, Out!Readable
<1>2. Frames' = Frames
  BY DEF Same, Frames
<1>3. Sound /\ wire' \in Seq(Int) => Sound'
  BY DEF Same, Sound
<1>4. QED BY <1>1, <1>2, <1>3

LEMMA TransferCalm ==
  ASSUME Sound, Phases, Transfer
  PROVE  Sound' /\ Phases'
<1>1. /\ Same /\ outstanding # <<>> /\ outstanding' = Tail(outstanding)
  BY DEF Transfer, Same, output
<1>2. PICK n \in 1 .. Head(outstanding).len :
        /\ wire' = wire \o SubSeq(Memory(Head(outstanding)), 1, n)
        /\ handlers' = Append(handlers, n)
  BY DEF Transfer
<1>3. PICK front \in Seq(Int) : Emptying(front)
  BY <1>1 DEF Phases, Filling
<1> DEFINE w == [at |-> readerIndex_, len |-> writerIndex_ - readerIndex_,
                 memory |-> memory]
           h == Out!Readable
<1>4. /\ outstanding = <<w>> /\ handlers = <<>> /\ wire = front
  BY <1>1, <1>3 DEF Emptying, Quiet, Written, Writing
<1>5. /\ w.at = readerIndex_ /\ w.len = writerIndex_ - readerIndex_
      /\ w.memory = memory
  OBVIOUS
<1>6. /\ h \in Seq(Int) /\ Len(h) = writerIndex_ - readerIndex_
      /\ \A i \in 1 .. writerIndex_ - readerIndex_ :
           h[i] = buffer_[readerIndex_ + i]
  BY ReadableType
<1> HIDE DEF w, h
<1>7. Head(outstanding) = w /\ Tail(outstanding) = <<>>
  BY <1>4
<1>8. Memory(w) = h
  <2>1. Memory(w) = [i \in 1 .. w.len |-> buffer_[w.at + i]]
    BY <1>5 DEF Memory
  <2>2. Memory(w) =
          [i \in 1 .. writerIndex_ - readerIndex_ |-> buffer_[readerIndex_ + i]]
    BY <1>5, <2>1
  <2>3. h = [i \in 1 .. writerIndex_ - readerIndex_ |-> h[i]]
    BY <1>6
  <2>4. QED BY <1>6, <2>2, <2>3
<1>9. n \in 1 .. writerIndex_ - readerIndex_
  BY <1>2, <1>5, <1>7
<1>10. /\ wire' = front \o SubSeq(h, 1, n) /\ handlers' = <<n>>
       /\ outstanding' = <<>>
  BY <1>1, <1>2, <1>4, <1>7, <1>8
<1>11. SubSeq(h, 1, n) \in Seq(Int) /\ wire' \in Seq(Int)
  <2>1. /\ 0 \in Nat /\ n \in Nat /\ 0 <= n /\ n <= Len(h) /\ 0 + 1 = 1
    BY <1>6, <1>9
  <2>2. SubSeq(h, 0 + 1, n) \in Seq(Int)
    BY <1>6, <2>1, Window
  <2>3. SubSeq(h, 1, n) \in Seq(Int)
    BY <2>1, <2>2
  <2>4. QED BY <1>10, <2>3
<1>12. Out!Readable' = h /\ Frames' = Frames /\ Sound'
  BY <1>1, <1>11, SameKeeps DEF h
<1>13. Emptying(front)'
  <2>1. \A m \in Message : sending'[m] # "prepend"
    BY <1>1, <1>3 DEF Emptying, Same
  <2>2. Frames = front \o h
    BY <1>3 DEF Emptying, h
  <2>3. n \in 1 .. writerIndex_' - readerIndex_'
    BY <1>1, <1>9 DEF Same
  <2>4. Written(front, n)'
    BY <1>10, <1>12 DEF Written
  <2>5. Frames' = front \o Out!Readable'
    BY <1>12, <2>2
  <2>6. QED BY <2>1, <2>3, <2>4, <2>5 DEF Emptying
<1>14. QED BY <1>12, <1>13 DEF Phases

LEMMA BreakOffCalm ==
  ASSUME Sound, Phases, BreakOff \/ UNCHANGED sessionVars
  PROVE  Sound' /\ Phases'
<1>1. /\ Same /\ outstanding' = outstanding /\ handlers' = handlers
      /\ wire' = wire /\ closed' = closed
  BY DEF BreakOff, sessionVars, Same, output
<1>2. /\ Out!Readable' = Out!Readable /\ Frames' = Frames /\ Sound'
  BY <1>1, SameKeeps DEF Sound
<1>3. ASSUME NEW m \in Message, Filling(m) PROVE Filling(m)'
  BY <1>1, <1>2, <1>3 DEF Filling, Same
<1>4. ASSUME NEW front \in Seq(Int), Emptying(front) PROVE Emptying(front)'
  <2>1. Quiet(front) => Quiet(front)'
    BY <1>1 DEF Quiet, Same
  <2>2. Writing(front) => Writing(front)'
    BY <1>1 DEF Writing, Same
  <2>3. /\ writerIndex_' - readerIndex_' = writerIndex_ - readerIndex_
        /\ \A n : Written(front, n) => Written(front, n)'
    BY <1>1, <1>2 DEF Written, Same
  <2>4. /\ \A m \in Message : sending'[m] # "prepend"
        /\ Frames' = front \o Out!Readable'
    BY <1>1, <1>2, <1>4 DEF Emptying, Same
  <2>5. QED BY <1>4, <2>1, <2>2, <2>3, <2>4 DEF Emptying
<1>5. QED BY <1>2, <1>3, <1>4 DEF Phases

(* The write that fails leaves what it did not send where it is; the       *)
(* session is closed, so that nothing is appended behind it.               *)
LEMMA OnWriteErrorCalm ==
  ASSUME Sound, Phases, on_write_error
  PROVE  Sound' /\ Phases'
<1>1. /\ Same /\ outstanding # <<>> /\ outstanding' = Tail(outstanding)
      /\ handlers = <<>> /\ handlers' = handlers /\ wire' = wire
      /\ closed' = TRUE
  BY DEF on_write_error, Same, output
<1>2. PICK front \in Seq(Int) : Emptying(front)
  BY <1>1 DEF Phases, Filling
<1>3. Writing(front)
  BY <1>1, <1>2 DEF Emptying, Quiet, Written
<1>4. Out!Readable' = Out!Readable /\ Frames' = Frames /\ Sound'
  BY <1>1, SameKeeps DEF Sound
<1>5. Quiet(front)'
  <2>1. outstanding' = <<>>
    BY <1>1, <1>3 DEF Writing
  <2>2. QED BY <1>1, <1>3, <2>1 DEF Quiet, Writing
<1>6. /\ \A m \in Message : sending'[m] # "prepend"
      /\ Frames' = front \o Out!Readable'
  BY <1>1, <1>2, <1>4 DEF Emptying, Same
<1>7. Emptying(front)'
  BY <1>5, <1>6 DEF Emptying
<1>8. QED BY <1>4, <1>7 DEF Phases

LEMMA OnWriteCalm ==
  ASSUME Sound, Phases, on_write
  PROVE  Sound' /\ Phases'
<1>1. /\ handlers # <<>> /\ Out!retrieve(Head(handlers)) /\ memory' = memory
      /\ handlers' = Tail(handlers) /\ sending' = sending /\ wire' = wire
      /\ failed' = failed /\ order' = order
      /\ IF writerIndex_' > readerIndex_'
         THEN outstanding' =
                Append(outstanding, [at |-> readerIndex_',
                                     len |-> writerIndex_' - readerIndex_',
                                     memory |-> memory'])
         ELSE outstanding' = outstanding
  BY DEF on_write, AsyncWriteSome
<1>2. PICK front \in Seq(Int) : Emptying(front)
  BY <1>1 DEF Phases, Filling
<1>3. PICK n \in 1 .. writerIndex_ - readerIndex_ : Written(front, n)
  BY <1>1, <1>2 DEF Emptying, Quiet, Writing
<1> DEFINE h == Out!Readable
           a == SubSeq(h, 1, n)
           g == Out!Readable'
<1>4. /\ outstanding = <<>> /\ handlers = <<n>> /\ wire = front \o a
  BY <1>3 DEF Written
<1>5. /\ buffer_ \in Seq(Int) /\ readerIndex_ \in Nat /\ writerIndex_ \in Nat
      /\ readerIndex_ <= writerIndex_ /\ writerIndex_ <= Len(buffer_)
      /\ kCheapPrepend <= Len(buffer_) /\ order \in Seq(Message)
      /\ wire \in Seq(Int) /\ failed = "none"
      /\ sending \in [Message -> {"idle", "prepend", "sent"}]
  BY DEF Sound
<1>6. n \in Nat /\ Out!retrieve(n) /\ handlers' = <<>>
  BY <1>1, <1>3, <1>4, <1>5
<1>7. /\ buffer_' = buffer_ /\ a \in Seq(Int) /\ g \in Seq(Int) /\ h = a \o g
      /\ IF n < writerIndex_ - readerIndex_
         THEN readerIndex_' = readerIndex_ + n /\ writerIndex_' = writerIndex_
         ELSE readerIndex_' = kCheapPrepend /\ writerIndex_' = kCheapPrepend
  BY <1>5, <1>6, Retrieves
<1>8. Frames = front \o h
  BY <1>2 DEF Emptying
<1>9. Frames' = Frames
  BY <1>1 DEF Frames
<1>10. Sound'
  <2>1. /\ readerIndex_' \in Nat /\ writerIndex_' \in Nat
        /\ readerIndex_' <= writerIndex_' /\ writerIndex_' <= Len(buffer_')
    <3>1. kCheapPrepend \in Nat
      BY ChatAssumption
    <3>2. CASE n < writerIndex_ - readerIndex_
      <4>1. /\ readerIndex_' = readerIndex_ + n
            /\ writerIndex_' = writerIndex_ /\ buffer_' = buffer_
        BY <1>7, <3>2
      <4>2. QED BY <1>5, <1>6, <3>2, <4>1
    <3>3. CASE ~ n < writerIndex_ - readerIndex_
      <4>1. /\ readerIndex_' = kCheapPrepend
            /\ writerIndex_' = kCheapPrepend /\ buffer_' = buffer_
        BY <1>7, <3>3
      <4>2. QED BY <1>5, <3>1, <4>1
    <3>4. QED BY <3>2, <3>3
  <2>2. QED BY <1>1, <1>5, <1>7, <2>1 DEF Sound
<1> HIDE DEF h, a, g
<1>11. Frames = wire \o g
  <2>1. Associates(front, a, g)
    BY <1>7, Associative
  <2>2. QED BY <1>4, <1>7, <1>8, <2>1, Zenon DEF Associates
<1>12. Quiet(wire)' \/ Writing(wire)'
  <2>1. CASE n < writerIndex_ - readerIndex_
    <3>1. writerIndex_' > readerIndex_'
      BY <1>5, <1>6, <1>7, <2>1
    <3>2. outstanding' = <<[at |-> readerIndex_',
                            len |-> writerIndex_' - readerIndex_',
                            memory |-> memory']>>
      BY <1>1, <1>4, <3>1
    <3>3. Writing(wire)'
      BY <1>6, <3>2 DEF Writing
    <3>4. QED BY <3>3
  <2>2. CASE ~ n < writerIndex_ - readerIndex_
    <3>1. /\ readerIndex_' = kCheapPrepend /\ writerIndex_' = kCheapPrepend
          /\ ~ kCheapPrepend > kCheapPrepend
      BY <1>7, <2>2, ChatAssumption
    <3>2. outstanding' = <<>>
      BY <1>1, <1>4, <3>1
    <3>3. Quiet(wire)'
      BY <1>6, <3>1, <3>2 DEF Quiet
    <3>4. QED BY <3>3
  <2>3. QED BY <2>1, <2>2
<1>13. Emptying(wire)'
  <2>1. \A m \in Message : sending'[m] # "prepend"
    BY <1>1, <1>2 DEF Emptying
  <2>2. Frames' = wire' \o Out!Readable'
    BY <1>1, <1>9, <1>11, Zenon DEF g
  <2>3. QED BY <1>12, <2>1, <2>2 DEF Emptying
<1>14. wire' \in Seq(Int)
  BY <1>1, <1>5
<1>15. QED BY <1>10, <1>13, <1>14 DEF Phases

(* The handler is never told of more bytes than are readable, and there is *)
(* none for a message that is being sent to meet.                          *)
LEMMA OnWriteHolds ==
  ASSUME Sound, Phases
  PROVE  ~ RetrieveFails /\ ~ Race
<1>1. ASSUME RetrieveFails PROVE FALSE
  <2>1. handlers # <<>> /\ Head(handlers) > writerIndex_ - readerIndex_
    BY <1>1 DEF RetrieveFails, Out!readableBytes
  <2>2. PICK front \in Seq(Int) : Emptying(front)
    BY <2>1 DEF Phases, Filling
  <2>3. PICK n \in 1 .. writerIndex_ - readerIndex_ : Written(front, n)
    BY <2>1, <2>2 DEF Emptying, Quiet, Writing
  <2>4. handlers = <<n>> /\ readerIndex_ \in Nat /\ writerIndex_ \in Nat
    BY <2>3 DEF Written, Sound
  <2>5. Head(handlers) = n /\ n <= writerIndex_ - readerIndex_
    BY <2>4
  <2>6. QED BY <2>1, <2>4, <2>5
<1>2. ASSUME Race PROVE FALSE
  <2>1. handlers # <<>> /\ \E m \in Message : sending[m] = "prepend"
    BY <1>2 DEF Race
  <2>2. QED BY <2>1 DEF Phases, Filling, Emptying
<1>3. QED BY <1>1, <1>2

-----------------------------------------------------------------------------
LEMMA SessionNextCalm == Calm /\ [SessionNext]_sessionVars => Calm'
<1> SUFFICES ASSUME Calm, [SessionNext]_sessionVars PROVE Calm'
  OBVIOUS
<1>1. overlap' \in BOOLEAN /\ (~ overlap' => ~ overlap)
  BY DEF Calm, SessionNext, sessionVars, AppendBody, Prepend, PrependFails,
         Transfer, BreakOff, on_write_error, on_write, RetrieveFails, Race
<1>2. ASSUME ~ overlap' PROVE Sound' /\ Phases'
  <2>1. Sound /\ Phases
    BY <1>1, <1>2 DEF Calm
  <2>2. ASSUME NEW m \in Message, AppendBody(m) PROVE Sound' /\ Phases'
    BY <1>2, <2>1, <2>2, AppendBodyCalm
  <2>3. ASSUME NEW m \in Message, Prepend(m) PROVE Sound' /\ Phases'
    BY <2>1, <2>3, PrependCalm
  <2>4. ASSUME NEW m \in Message, PrependFails(m) PROVE FALSE
    BY <2>1, <2>4, PrependHolds
  <2>5. CASE Transfer
    BY <2>1, <2>5, TransferCalm
  <2>6. CASE BreakOff \/ UNCHANGED sessionVars
    BY <2>1, <2>6, BreakOffCalm
  <2>7. CASE on_write_error
    BY <2>1, <2>7, OnWriteErrorCalm
  <2>8. CASE on_write
    BY <2>1, <2>8, OnWriteCalm
  <2>9. CASE RetrieveFails \/ Race
    BY <2>1, <2>9, OnWriteHolds
  <2>10. QED
    BY <2>2, <2>3, <2>4, <2>5, <2>6, <2>7, <2>8, <2>9 DEF SessionNext
<1>3. QED BY <1>1, <1>2 DEF Calm

(* What has left is a beginning of what was sent.                          *)
LEMMA Rest ==
  ASSUME Sound, Phases
  PROVE  \E rest \in Seq(Int) : Frames = wire \o rest
<1> DEFINE h == Out!Readable
<1>1. h \in Seq(Int) /\ Len(h) = writerIndex_ - readerIndex_
  BY ReadableType
<1>2. ASSUME NEW m \in Message, Filling(m)
      PROVE  \E rest \in Seq(Int) : Frames = wire \o rest
  <2>1. Frames = wire \o Frame(m) /\ Frame(m) \in Seq(Int)
    BY <1>2, FrameParts DEF Filling
  <2>2. QED BY <2>1
<1>3. ASSUME NEW front \in Seq(Int), Emptying(front)
      PROVE  \E rest \in Seq(Int) : Frames = wire \o rest
  <2>1. Frames = front \o h
    BY <1>3 DEF Emptying
  <2>2. CASE wire = front
    BY <1>1, <2>1, <2>2
  <2>3. CASE wire # front
    <3>1. PICK n \in 1 .. writerIndex_ - readerIndex_ : Written(front, n)
      BY <1>3, <2>3 DEF Emptying, Quiet, Writing
    <3> DEFINE a == SubSeq(h, 1, n)
               b == SubSeq(h, n + 1, Len(h))
    <3>2. wire = front \o a
      BY <3>1 DEF Written
    <3> HIDE DEF h
    <3>3. n \in Nat /\ n <= Len(h)
      BY <1>1, <3>1
    <3>4. a \in Seq(Int) /\ b \in Seq(Int)
      <4>1. 0 \in Nat /\ 0 <= n /\ 0 + 1 = 1 /\ Len(h) \in Nat
        BY <1>1, <3>3
      <4>2. SubSeq(h, 0 + 1, n) \in Seq(Int)
        BY <1>1, <3>3, <4>1, Window
      <4>3. Len(h) <= Len(h)
        BY <4>1
      <4>4. b \in Seq(Int)
        BY <1>1, <3>3, <4>1, <4>3, Window
      <4>5. QED BY <4>1, <4>2, <4>4
    <3>5. h = a \o b
      BY <1>1, <3>3, InTwo
    <3> HIDE DEF a, b
    <3>6. Associates(front, a, b)
      BY <3>4, Associative
    <3>7. Frames = wire \o b
      BY <2>1, <3>2, <3>5, <3>6, Zenon DEF Associates
    <3>8. QED BY <3>4, <3>7
  <2>4. QED BY <2>2, <2>3
<1>4. QED BY <1>2, <1>3 DEF Phases

(* From the first message on, in every step in which no message is sent    *)
(* before the write of the one before it has been handled, the output      *)
(* buffer of a session is in one of the four phases.                       *)
THEOREM AlwaysCalm == SessionSpec => []Calm
<1>1. QED BY SessionInitCalm, SessionNextCalm, PTL DEF SessionSpec

(* Any messages, of any lengths, written in any parts: as long as they do  *)
(* not overlap, what session::sendMessage and on_write put on the wire is  *)
(* a beginning of the frames in the order they were sent, no assert of the *)
(* output buffer fails, and no two threads are in it at once.              *)
THEOREM FramesWhole == SessionSpec => []WholeFrames
<1>1. Calm => WholeFrames
  <2> SUFFICES ASSUME Calm, ~ overlap
               PROVE  IsPrefix(wire, Frames) /\ failed = "none"
    BY DEF WholeFrames
  <2>1. Sound /\ Phases
    BY DEF Calm
  <2>2. \E rest \in Seq(Int) : Frames = wire \o rest
    BY <2>1, Rest
  <2>3. IsPrefix(wire, Frames)
    BY <2>1, <2>2, Beginning DEF Sound
  <2>4. QED BY <2>1, <2>3 DEF Sound
<1>2. QED BY <1>1, AlwaysCalm, PTL

(* And then wire and output buffer together hold everything that was sent, *)
(* once what has left but not been retrieved is counted once.              *)
THEOREM NoByteLost == SessionSpec => []NothingLost
<1>1. Calm => NothingLost
  <2> SUFFICES ASSUME Calm, ~ overlap, Free
               PROVE  Frames = SubSeq(wire, 1, Len(wire) -
                                        IF handlers = <<>> THEN 0
                                        ELSE Head(handlers))
                               \o Out!Readable
    BY DEF NothingLost
  <2>1. Sound /\ Phases
    BY DEF Calm
  <2>2. PICK front \in Seq(Int) : Emptying(front)
    BY <2>1 DEF Phases, Filling, Free
  <2>3. Frames = front \o Out!Readable
    BY <2>2 DEF Emptying
  <2>4. CASE handlers = <<>>
    <3>1. wire = front
      BY <2>2, <2>4 DEF Emptying, Quiet, Writing, Written
    <3>2. SubSeq(wire, 1, Len(wire)) = wire /\ Len(wire) - 0 = Len(wire)
      BY <3>1, SubSeqFull
    <3>3. QED BY <2>3, <2>4, <3>1, <3>2
  <2>5. CASE handlers # <<>>
    <3>1. PICK n \in 1 .. writerIndex_ - readerIndex_ : Written(front, n)
      BY <2>2, <2>5 DEF Emptying, Quiet, Writing
    <3> DEFINE a == SubSeq(Out!Readable, 1, n)
    <3>2. a \in Seq(Int) /\ Len(a) = n
      <4>1. /\ 0 \in Nat /\ n \in Nat /\ 0 <= n /\ 0 + 1 = 1 /\ n - 0 = n
            /\ Out!Readable \in Seq(Int) /\ n <= Len(Out!Readable)
        <5>1. /\ Out!Readable \in Seq(Int)
              /\ Len(Out!Readable) = writerIndex_ - readerIndex_
              /\ readerIndex_ \in Nat /\ writerIndex_ \in Nat
          BY <2>1, ReadableType DEF Sound
        <5> HIDE DEF a
        <5>2. QED BY <5>1
      <4>2. /\ SubSeq(Out!Readable, 0 + 1, n) \in Seq(Int)
            /\ Len(SubSeq(Out!Readable, 0 + 1, n)) = n - 0
        BY <4>1, Window
      <4>3. QED BY <4>1, <4>2
    <3>3. wire = front \o a /\ Head(handlers) = n
      BY <3>1 DEF Written
    <3> HIDE DEF a
    <3>4. Len(wire) - Head(handlers) = Len(front)
      BY <3>2, <3>3
    <3>5. SubSeq(wire, 1, Len(front)) = front
      BY <3>2, <3>3, FrontOf
    <3>6. QED BY <2>3, <2>5, <3>4, <3>5
  <2>6. QED BY <2>4, <2>5
<1>2. QED BY <1>1, AlwaysCalm, PTL
=============================================================================
