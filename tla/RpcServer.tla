------------------------------ MODULE RpcServer ------------------------------
(***************************************************************************)
(* Class rpc_server: the threads that run its io_context, and the vector   *)
(* sessions_ that keeps the sessions.  on_accept pushes a session on it    *)
(* (under mutex_) after it has run it; on_session_over searches the vector *)
(* for a session that is over and erases it (without mutex_).  The process *)
(* of this module is a thread, with the handler that it runs.              *)
(*                                                                         *)
(* Each vector operation is one step.  To change the vector while another  *)
(* thread searches it, or to use an iterator after another thread has      *)
(* changed it, is undefined behaviour: corrupt, and nothing more happens.  *)
(* asio_rpc_practice keeps its sessions in the same way, with the mutex    *)
(* also held from the search to the erase (lockedErase); it accepts no more*)
(* after an error, has no stop() and no SSL.                               *)
(*                                                                         *)
(* With USE_SSL a session starts with a handshake.  A server's session has *)
(* no handler for one that fails: it calls nobody, and stays in sessions_. *)
(***************************************************************************)
EXTENDS Integers, SequencesExt

CONSTANTS
  Thread,          \* threads for ioc_.run(): threads_ and the main thread
  Main,            \* the one that calls run()
  Session,         \* the connections that clients make
  NoOne            \* no thread, no session

ASSUME ServerAssumption ==
  /\ Main \in Thread
  /\ NoOne \notin Thread \cup Session

VARIABLES
  threads_,        \* the threads that are in run(), as threadNum_ says
  lockedErase,     \* asio_rpc_practice: on_session_over holds mutex_
  ssl,             \* USE_SSL
  pc,              \* what each thread does: poll, or a place in a handler
  on,              \* the session its handler is about
  accepting,       \* an async_accept is outstanding
  state,           \* each session: new, handshake, running, refused, over
  sessions_,       \* the vector
  mutex_,          \* the thread that holds it
  it,              \* what std::find returned to each thread
  stopping,        \* stop(): "no", then "join" its threads, then "returned";
                   \* or the program has been "terminated"
  stale,           \* threads whose iterator another thread has invalidated
  corrupt,         \* a stale iterator was used
  missed           \* history: sessions over before they were in the vector

fixed == <<threads_, lockedErase, ssl>>
vars == <<fixed, pc, on, accepting, state, sessions_, mutex_, it, stopping,
          stale, corrupt, missed>>

Places == {"poll", "accepted", "push", "over", "search", "erase", "exited"}

Init ==
  /\ threads_ \in {T \in SUBSET Thread : Main \in T}
  /\ lockedErase \in BOOLEAN
  /\ ssl \in IF lockedErase THEN {FALSE} ELSE BOOLEAN
  /\ pc = [t \in Thread |-> "poll"]
  /\ on = [t \in Thread |-> NoOne]
  /\ accepting = TRUE
  /\ state = [s \in Session |-> "new"]
  /\ sessions_ = <<>>
  /\ mutex_ = NoOne
  /\ it = [t \in Thread |-> 0]
  /\ stopping = "no"
  /\ stale = {}
  /\ corrupt = FALSE
  /\ missed = {}

(* Thread t is at a place in a handler, or free to start one: after stop() *)
(* no handler starts.                                                      *)
At(t, place) == ~ corrupt /\ stopping # "terminated" /\ pc[t] = place
Polling(t) == At(t, "poll") /\ stopping = "no"

Goto(t, place) == pc' = [pc EXCEPT ![t] = place]

(* Thread t changes the vector: whoever is between its search and its      *)
(* erase has a stale iterator now; whoever is in its search may be racing. *)
Invalidate(t) ==
  /\ stale' = (stale \cup {u \in Thread : pc[u] = "erase"}) \ {t}
  /\ corrupt' \in IF \E u \in Thread \ {t} : pc[u] = "search" THEN BOOLEAN
                  ELSE {FALSE}

-----------------------------------------------------------------------------
(* on_accept: a session is made and run ...  (After an error on_accept of  *)
(* rpc_server only accepts again: a step that changes nothing.)            *)
OnAccept(t, s) ==
  /\ Polling(t) /\ accepting
  /\ state[s] = "new"
  /\ accepting' = FALSE
  /\ state' = [state EXCEPT ![s] = IF ssl THEN "handshake" ELSE "running"]
  /\ on' = [on EXCEPT ![t] = s]
  /\ Goto(t, "accepted")
  /\ UNCHANGED <<fixed, sessions_, mutex_, it, stopping, stale, corrupt,
                 missed>>

(* ... or its peer has gone before its address is logged: remote_endpoint  *)
(* throws, and nothing catches that.                                       *)
OnAcceptThrows(t, s) ==
  /\ Polling(t) /\ accepting
  /\ state[s] = "new"
  /\ stopping' = "terminated"
  /\ UNCHANGED <<fixed, pc, on, accepting, state, sessions_, mutex_, it, stale,
                 corrupt, missed>>

(* on_accept of asio_rpc_practice with an error: nothing is accepted any   *)
(* more, and shutdown throws if the socket has not been connected.         *)
OnAcceptError(t) ==
  /\ lockedErase
  /\ Polling(t) /\ accepting
  /\ accepting' = FALSE
  /\ stopping' \in {"no", "terminated"}
  /\ UNCHANGED <<fixed, pc, on, state, sessions_, mutex_, it, stale, corrupt,
                 missed>>

(* Mutant: the mutex is not waited for.                                    *)
Lock_NoWait(t, from, to) ==
  /\ At(t, from)
  /\ mutex_' = t
  /\ Goto(t, to)
  /\ UNCHANGED <<fixed, on, accepting, state, sessions_, it, stopping, stale,
                 corrupt, missed>>

(* The lock_guard of a handler.                                            *)
Lock(t, from, to) ==
  /\ At(t, from)
  /\ mutex_ = NoOne
  /\ mutex_' = t
  /\ Goto(t, to)
  /\ UNCHANGED <<fixed, on, accepting, state, sessions_, it, stopping, stale,
                 corrupt, missed>>

(* Mutant: the session has been moved away before it is pushed.            *)
Push_Moved(t) ==
  /\ At(t, "push")
  /\ sessions_' = Append(sessions_, NoOne)
  /\ Invalidate(t)
  /\ mutex_' = NoOne
  /\ accepting' = TRUE
  /\ on' = [on EXCEPT ![t] = NoOne]
  /\ Goto(t, "poll")
  /\ UNCHANGED <<fixed, state, it, stopping, missed>>

(* ... and pushed on the vector under the mutex; then the next is accepted.*)
Push(t) ==
  /\ At(t, "push")
  /\ sessions_' = Append(sessions_, on[t])
  /\ Invalidate(t)
  /\ mutex_' = NoOne
  /\ accepting' = TRUE
  /\ on' = [on EXCEPT ![t] = NoOne]
  /\ Goto(t, "poll")
  /\ UNCHANGED <<fixed, state, it, stopping, missed>>

-----------------------------------------------------------------------------
(* The handler of async_handshake: the first read, or nothing at all.      *)
OnHandshake(t, s) ==
  /\ Polling(t)
  /\ state[s] = "handshake"
  /\ \E next \in {"running", "refused"} : state' = [state EXCEPT ![s] = next]
  /\ UNCHANGED <<fixed, pc, on, accepting, sessions_, mutex_, it, stopping,
                 stale, corrupt, missed>>

(* The read of a session fails: sessionOverFunc_, that is on_session_over. *)
SessionOver(t, s) ==
  /\ Polling(t)
  /\ state[s] = "running"
  /\ state' = [state EXCEPT ![s] = "over"]
  /\ on' = [on EXCEPT ![t] = s]
  /\ Goto(t, IF lockedErase THEN "over" ELSE "search")
  /\ UNCHANGED <<fixed, accepting, sessions_, mutex_, it, stopping, stale,
                 corrupt, missed>>

(* Mutant: the mutex is not released.                                      *)
LeaveHandler_KeepsMutex(t) ==
  /\ on' = [on EXCEPT ![t] = NoOne]
  /\ Goto(t, "poll")
  /\ UNCHANGED mutex_

LeaveHandler(t) ==
  /\ on' = [on EXCEPT ![t] = NoOne]
  /\ Goto(t, "poll")
  /\ mutex_' = IF mutex_ = t THEN NoOne ELSE mutex_

(* std::find: the place of the session, if it is there.                    *)
Find(t) ==
  /\ At(t, "search")
  /\ \E k \in DOMAIN sessions_ :
       /\ sessions_[k] = on[t]
       /\ it' = [it EXCEPT ![t] = k]
  /\ Goto(t, "erase")
  /\ UNCHANGED <<fixed, on, accepting, state, sessions_, mutex_, stopping,
                 stale, corrupt, missed>>

FindNothing(t) ==
  /\ At(t, "search")
  /\ on[t] \notin ToSet(sessions_)
  /\ missed' = missed \cup {on[t]}
  /\ LeaveHandler(t)
  /\ UNCHANGED <<fixed, accepting, state, sessions_, it, stopping, stale,
                 corrupt>>

(* Mutant: the newest session is erased.                                   *)
Erase_Last(t) ==
  /\ At(t, "erase")
  /\ t \notin stale
  /\ sessions_' = RemoveAt(sessions_, Len(sessions_))
  /\ Invalidate(t)
  /\ LeaveHandler(t)
  /\ UNCHANGED <<fixed, accepting, state, it, stopping, missed>>

Erase(t) ==
  /\ At(t, "erase")
  /\ t \notin stale
  /\ sessions_' = RemoveAt(sessions_, it[t])
  /\ Invalidate(t)
  /\ LeaveHandler(t)
  /\ UNCHANGED <<fixed, accepting, state, it, stopping, missed>>

EraseStale(t) ==
  /\ At(t, "erase")
  /\ t \in stale
  /\ corrupt' = TRUE
  /\ UNCHANGED <<fixed, pc, on, accepting, state, sessions_, mutex_, it,
                 stopping, stale, missed>>

-----------------------------------------------------------------------------
(* stop(), from outside of the threads: the io_context starts no more      *)
(* handlers, each thread leaves run() when its handler is done, and all    *)
(* but the main thread are joined.                                         *)
Stop ==
  /\ ~ lockedErase
  /\ stopping = "no" /\ ~ corrupt
  /\ stopping' = "join"
  /\ UNCHANGED <<fixed, pc, on, accepting, state, sessions_, mutex_, it, stale,
                 corrupt, missed>>

(* Mutant: the io_context is not stopped, its threads leave when no        *)
(* session is left.                                                        *)
Exit_WhenDone(t) ==
  /\ At(t, "poll") /\ stopping # "no"
  /\ sessions_ = <<>>
  /\ Goto(t, "exited")
  /\ UNCHANGED <<fixed, on, accepting, state, sessions_, mutex_, it, stopping,
                 stale, corrupt, missed>>

Exit(t) ==
  /\ At(t, "poll") /\ stopping # "no"
  /\ Goto(t, "exited")
  /\ UNCHANGED <<fixed, on, accepting, state, sessions_, mutex_, it, stopping,
                 stale, corrupt, missed>>

Joined == \A t \in threads_ \ {Main} : pc[t] = "exited"

StopReturns ==
  /\ stopping = "join" /\ ~ corrupt
  /\ Joined
  /\ stopping' = "returned"
  /\ UNCHANGED <<fixed, pc, on, accepting, state, sessions_, mutex_, it, stale,
                 corrupt, missed>>

(* A thread goes on in its handler, or leaves run().                       *)
Step(t) ==
  \/ Lock(t, "accepted", "push") \/ Push(t)
  \/ Lock(t, "over", "search")
  \/ Find(t) \/ FindNothing(t) \/ Erase(t) \/ EraseStale(t) \/ Exit(t)

Next ==
  \/ \E t \in threads_ :
       \/ Step(t)
       \/ OnAcceptError(t)
       \/ \E s \in Session :
            \/ OnAccept(t, s) \/ OnAcceptThrows(t, s)
            \/ OnHandshake(t, s) \/ SessionOver(t, s)
  \/ Stop \/ StopReturns

Spec == Init /\ [][Next]_vars

(* A thread goes on in its handler; stop() goes on.                        *)
FairSpec ==
  /\ Spec
  /\ \A t \in Thread : WF_vars(t \in threads_ /\ Step(t))
  /\ WF_vars(StopReturns)

-----------------------------------------------------------------------------
TypeOK ==
  /\ threads_ \subseteq Thread /\ Main \in threads_
  /\ lockedErase \in BOOLEAN
  /\ ssl \in BOOLEAN
  /\ pc \in [Thread -> Places]
  /\ on \in [Thread -> Session \cup {NoOne}]
  /\ accepting \in BOOLEAN
  /\ state \in [Session -> {"new", "handshake", "running", "refused", "over"}]
  /\ sessions_ \in Seq(Session)
  /\ mutex_ \in Thread \cup {NoOne}
  /\ it \in [Thread -> Nat]
  /\ stopping \in {"no", "join", "returned", "terminated"}
  /\ stale \subseteq Thread
  /\ corrupt \in BOOLEAN
  /\ missed \subseteq Session

(* Sessions that a handler still has to push, or to erase.                 *)
Arriving == {on[t] : t \in {u \in Thread : pc[u] \in {"accepted", "push"}}}
Leaving  ==
  {on[t] : t \in {u \in Thread : pc[u] \in {"over", "search", "erase"}}}

(* The vector has each session that runs, once, from its push to its       *)
(* erase, those whose handshake failed, for ever, and no session that is   *)
(* over but those that were over before they were pushed: nobody will ever *)
(* erase them.  With one thread there are none of these.                   *)
Registry ==
  /\ IsInjective(sessions_)
  /\ \A s \in Session :
       /\ state[s] \notin {"new", "over"} /\ s \notin Arriving =>
            s \in ToSet(sessions_)
       /\ s \in ToSet(sessions_) /\ state[s] = "over" =>
            s \in Leaving \cup missed
  /\ threads_ = {Main} => missed = {}

(* std::find and erase agree: at its erase a handler's iterator is still   *)
(* at its own session, unless it is known to be stale; and with one thread,*)
(* or with the mutex held from the search to the erase, no iterator is ever*)
(* stale and no search races with a change.                                *)
NotCorrupt ==
  /\ \A t \in Thread : pc[t] = "erase" /\ t \notin stale =>
       it[t] \in DOMAIN sessions_ /\ sessions_[it[t]] = on[t]
  /\ threads_ = {Main} \/ lockedErase => stale = {} /\ ~ corrupt

(* A session that is over leaves the vector, unless it was over before it  *)
(* was pushed, or the vector is broken, or the program has ended.          *)
Erased ==
  \A s \in Session :
    state[s] = "over" ~>
      \/ s \notin ToSet(sessions_) \/ s \in missed
      \/ corrupt \/ stopping = "terminated"

(* stop() returns, whatever its threads were doing when it was called.     *)
StopEnds == stopping = "join" ~> stopping = "returned" \/ corrupt
=============================================================================
