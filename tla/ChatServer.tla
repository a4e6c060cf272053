----------------------------- MODULE ChatServer ------------------------------
(***************************************************************************)
(* The chat server: class boost_server, the vector sessions_, and the life *)
(* of a session in it. A message that one session reads is broadcast: the  *)
(* thread walks over the vector, without mutex_, and calls sendMessage of  *)
(* every other session. A session whose read or write fails is erased.     *)
(*                                                                         *)
(* An outstanding write holds its session by shared_from_this(), a read by *)
(* a raw pointer: the handler of a read that outlives its session runs on  *)
(* freed memory. Undefined behaviour ends the program of the model, and so *)
(* does an exception, which nobody catches: ended says which it was. The   *)
(* handlers of a session run on its strand, one at a time. What a message  *)
(* consists of is ChatSession's matter. Push and erase are one step each:  *)
(* they are done under mutex_.                                             *)
(***************************************************************************)
EXTENDS Integers, SequencesExt

CONSTANTS
  Thread,          \* threads for ioc.run()
  Main,            \* the one of main()
  Session,         \* the connections that clients make
  MaxMessages,     \* the messages of all clients together: a bound
  NoOne            \* no session

ASSUME ChatServerAssumption ==
  /\ Main \in Thread
  /\ MaxMessages \in Nat
  /\ NoOne \notin Session

VARIABLES
  threads,         \* the threads that are in ioc.run()
  pc,              \* what each thread does: poll, or a place in a handler
  on,              \* the session its handler is about
  at,              \* its iterator in the vector, in a broadcast
  accepting,       \* an async_accept is outstanding: yes, no, failed
  sessions_,       \* the vector
  read,            \* the read of each session: new, pending, handled
  writes,          \* the number of its outstanding writes
  broken,          \* sessions whose connection is lost
  ended,           \* none; undefined behaviour: iterator, buffer, freed; or
                   \* thrown, by an exception
  sent,            \* history: the number of messages read
  got,             \* history: the sessions a thread's broadcast has reached
  writeFailed      \* history: sessions with a write that has failed

vars == <<threads, pc, on, at, accepting, sessions_, read, writes, broken,
          ended, sent, got, writeFailed>>

Init ==
  /\ threads \in {T \in SUBSET Thread : Main \in T}
  /\ pc = [t \in Thread |-> "poll"]
  /\ on = [t \in Thread |-> NoOne]
  /\ at = [t \in Thread |-> 1]
  /\ accepting = "yes"
  /\ sessions_ = <<>>
  /\ read = [s \in Session |-> "new"]
  /\ writes = [s \in Session |-> 0]
  /\ broken = {}
  /\ ended = "none"
  /\ sent = 0
  /\ got = [t \in Thread |-> {}]
  /\ writeFailed = {}

-----------------------------------------------------------------------------
(* What holds a session: the vector, its writes, on_accept and on_write    *)
(* while they run.  Neither its read nor the handler of that.              *)
Alive(s) ==
  \/ s \in ToSet(sessions_)
  \/ writes[s] > 0
  \/ \E t \in threads :
       on[t] = s /\ pc[t] \in {"accepted", "written", "failed"}

At(t, place) == ended = "none" /\ pc[t] = place

(* Thread t may start a handler of s: no other is under way on its strand. *)
Strand(t, s) ==
  /\ At(t, "poll")
  /\ \A u \in threads : on[u] = s => pc[u] = "accepted"

Begin(t, s, place) ==
  /\ pc' = [pc EXCEPT ![t] = place]
  /\ on' = [on EXCEPT ![t] = s]

Finish(t) ==
  /\ pc' = [pc EXCEPT ![t] = "poll"]
  /\ on' = [on EXCEPT ![t] = NoOne]

MayBreak(kind, condition) ==
  ended' \in {"none"} \cup IF condition THEN {kind} ELSE {}

(* To change the vector while another thread walks over it may break it.   *)
Change(t) ==
  MayBreak("iterator", \E u \in threads \ {t} : pc[u] = "broadcast")

-----------------------------------------------------------------------------
(* on_accept: the session is made and run ...                              *)
OnAccept(t, s) ==
  /\ At(t, "poll") /\ accepting = "yes"
  /\ read[s] = "new"
  /\ accepting' = "no"
  /\ read' = [read EXCEPT ![s] = "pending"]
  /\ Begin(t, s, "accepted")
  /\ UNCHANGED <<threads, at, sessions_, writes, broken, ended, sent, got,
                 writeFailed>>

(* ... or its peer has gone before its address is logged: remote_endpoint  *)
(* throws, and nothing catches that ...                                    *)
OnAcceptThrows(t, s) ==
  /\ At(t, "poll") /\ accepting = "yes"
  /\ read[s] = "new"
  /\ ended' = "thrown"
  /\ UNCHANGED <<threads, pc, on, at, accepting, sessions_, read, writes,
                 broken, sent, got, writeFailed>>

(* ... and pushed; the next is accepted.                                   *)
Push(t) ==
  /\ At(t, "accepted")
  /\ sessions_' = Append(sessions_, on[t])
  /\ Change(t)
  /\ accepting' = "yes"
  /\ Finish(t)
  /\ UNCHANGED <<threads, at, read, writes, broken, sent, got, writeFailed>>

(* on_accept with an error: nothing is accepted any more.                  *)
OnAcceptError(t) ==
  /\ At(t, "poll") /\ accepting = "yes"
  /\ accepting' = "failed"
  /\ UNCHANGED <<threads, pc, on, at, sessions_, read, writes, broken, ended,
                 sent, got, writeFailed>>

-----------------------------------------------------------------------------
(* on_read: a message, which is broadcast ...                              *)
OnRead(t, s) ==
  /\ Strand(t, s)
  /\ read[s] = "pending" /\ s \notin broken /\ Alive(s)
  /\ sent < MaxMessages
  /\ sent' = sent + 1
  /\ read' = [read EXCEPT ![s] = "handled"]
  /\ Begin(t, s, "broadcast")
  /\ UNCHANGED <<threads, at, accepting, sessions_, writes, broken, ended,
                 got, writeFailed>>

Target(t) == sessions_[at[t]]

(* The output buffer of s is in use by another thread.                     *)
Busy(t, s) ==
  \E u \in threads \ {t} :
    \/ pc[u] = "written" /\ on[u] = s
    \/ pc[u] = "broadcast" /\ at[u] <= Len(sessions_) /\ Target(u) = s

(* Mutant: the sender gets its own message.                                *)
SendMessage_Echo(t) ==
  /\ At(t, "broadcast") /\ at[t] <= Len(sessions_)
  /\ at' = [at EXCEPT ![t] = @ + 1]
  /\ writes' = [writes EXCEPT ![Target(t)] = @ + 1]
  /\ got' = [got EXCEPT ![t] = @ \cup {Target(t)}]
  /\ MayBreak("buffer", Busy(t, Target(t)))
  /\ UNCHANGED <<threads, pc, on, accepting, sessions_, read, broken, sent,
                 writeFailed>>

(* on_session_message, one session of the vector: sendMessage of every     *)
(* session but the sender.                                                 *)
SendMessage(t) ==
  /\ At(t, "broadcast") /\ at[t] <= Len(sessions_)
  /\ at' = [at EXCEPT ![t] = @ + 1]
  /\ IF Target(t) = on[t] THEN UNCHANGED <<writes, got, ended>>
     ELSE /\ writes' = [writes EXCEPT ![Target(t)] = @ + 1]
          /\ got' = [got EXCEPT ![t] = @ \cup {Target(t)}]
          /\ MayBreak("buffer", Busy(t, Target(t)))
  /\ UNCHANGED <<threads, pc, on, accepting, sessions_, read, broken, sent,
                 writeFailed>>

(* ... and the next read is started.                                       *)
EndBroadcast(t) ==
  /\ At(t, "broadcast") /\ at[t] > Len(sessions_)
  /\ read' = [read EXCEPT ![on[t]] = "pending"]
  /\ at' = [at EXCEPT ![t] = 1]
  /\ got' = [got EXCEPT ![t] = {}]
  /\ Finish(t)
  /\ UNCHANGED <<threads, accepting, sessions_, writes, broken, ended, sent,
                 writeFailed>>

-----------------------------------------------------------------------------
Break(s) ==
  /\ ended = "none"
  /\ read[s] # "new" /\ s \notin broken
  /\ broken' = broken \cup {s}
  /\ UNCHANGED <<threads, pc, on, at, accepting, sessions_, read, writes,
                 ended, sent, got, writeFailed>>

(* Mutants: after the error another read is started; the error is only     *)
(* logged.                                                                 *)
OnReadError_ReadsOn(t, s) ==
  /\ Strand(t, s)
  /\ read[s] = "pending" /\ s \in broken /\ Alive(s)
  /\ Begin(t, s, "over")
  /\ UNCHANGED <<threads, at, accepting, sessions_, read, writes, broken,
                 ended, sent, got, writeFailed>>

OnReadError_Logs(t, s) ==
  /\ Strand(t, s)
  /\ read[s] = "pending" /\ s \in broken /\ Alive(s)
  /\ read' = [read EXCEPT ![s] = "handled"]
  /\ UNCHANGED <<threads, pc, on, at, accepting, sessions_, writes, broken,
                 ended, sent, got, writeFailed>>

(* on_read with an error: on_session_disconnect.                           *)
OnReadError(t, s) ==
  /\ Strand(t, s)
  /\ read[s] = "pending" /\ s \in broken /\ Alive(s)
  /\ read' = [read EXCEPT ![s] = "handled"]
  /\ Begin(t, s, "over")
  /\ UNCHANGED <<threads, at, accepting, sessions_, writes, broken, ended,
                 sent, got, writeFailed>>

(* When a session is destroyed its socket cancels its read: on_read with   *)
(* an error, on freed memory.                                              *)
OnReadFreed(t, s) ==
  /\ Strand(t, s)
  /\ read[s] = "pending" /\ ~ Alive(s)
  /\ ended' = "freed"
  /\ UNCHANGED <<threads, pc, on, at, accepting, sessions_, read, writes,
                 broken, sent, got, writeFailed>>

(* on_write: what was sent is retrieved ...                                *)
OnWrite(t, s) ==
  /\ Strand(t, s)
  /\ writes[s] > 0 /\ s \notin broken
  /\ writes' = [writes EXCEPT ![s] = @ - 1]
  /\ Begin(t, s, "written")
  /\ UNCHANGED <<threads, at, accepting, sessions_, read, broken, ended, sent,
                 got, writeFailed>>

(* ... and the rest, if there is one, written.                             *)
WriteRest(t) ==
  /\ At(t, "written")
  /\ \E more \in {0, 1} : writes' = [writes EXCEPT ![on[t]] = @ + more]
  /\ Finish(t)
  /\ UNCHANGED <<threads, at, accepting, sessions_, read, broken, ended, sent,
                 got, writeFailed>>

(* on_write with an error: on_session_disconnect, while the handler holds  *)
(* the session.                                                            *)
OnWriteError(t, s) ==
  /\ Strand(t, s)
  /\ writes[s] > 0 /\ s \in broken
  /\ writes' = [writes EXCEPT ![s] = @ - 1]
  /\ writeFailed' = writeFailed \cup {s}
  /\ Begin(t, s, "failed")
  /\ UNCHANGED <<threads, at, accepting, sessions_, read, broken, ended, sent,
                 got>>

(* on_session_disconnect: the session is erased, if it is there.           *)
Erase(t) ==
  /\ At(t, "over") \/ At(t, "failed")
  /\ sessions_' = RemoveFirst(sessions_, on[t])
  /\ IF on[t] \in ToSet(sessions_) THEN Change(t) ELSE UNCHANGED ended
  /\ Finish(t)
  /\ UNCHANGED <<threads, at, accepting, read, writes, broken, sent, got,
                 writeFailed>>

-----------------------------------------------------------------------------
(* A thread goes on in its handler.                                        *)
Step(t) ==
  \/ Push(t) \/ SendMessage(t) \/ EndBroadcast(t) \/ WriteRest(t) \/ Erase(t)

Next ==
  \/ \E t \in threads :
       \/ Step(t)
       \/ OnAcceptError(t)
       \/ \E s \in Session :
            \/ OnAccept(t, s) \/ OnAcceptThrows(t, s)
            \/ OnRead(t, s) \/ OnReadError(t, s)
            \/ OnReadFreed(t, s) \/ OnWrite(t, s) \/ OnWriteError(t, s)
  \/ \E s \in Session : Break(s)

Spec == Init /\ [][Next]_vars

-----------------------------------------------------------------------------
Alone == threads = {Main}

(* A read outlives its session, so that its handler will run on freed      *)
(* memory, only when a write of the session has failed before the read.    *)
ReadOutlives ==
  \A s \in Session :
    read[s] = "pending" /\ ~ Alive(s) => s \in writeFailed

(* With one thread a message reaches the sessions of the vector up to the  *)
(* iterator, all but its sender, and the vector has no session twice.      *)
EveryoneElse ==
  /\ IsInjective(sessions_)
  /\ Alone => \A t \in threads :
       pc[t] = "broadcast" =>
         got[t] = {sessions_[k] : k \in 1 .. at[t] - 1} \ {on[t]}

(* With one thread every session of the vector is read, or in a handler    *)
(* that will read it or erase it.  (With two, a session that is over before*)
(* it is pushed stays, until a message is sent to it.)                     *)
Listening ==
  Alone => \A s \in ToSet(sessions_) :
    read[s] = "pending" \/ \E t \in threads : on[t] = s

=============================================================================
