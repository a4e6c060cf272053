--------------------------- MODULE RpcServerProofs ---------------------------
(***************************************************************************)
(* What rpc_server guarantees of its vector of sessions for any number of  *)
(* threads and connections.                                                *)
(***************************************************************************)
EXTENDS RpcServer, SequenceLemmas

In == ToSet(sessions_)

(* Places of a thread whose session arrives, or leaves.                    *)
ArrivingAt == {"accepted", "push"}
LeavingAt  == {"over", "search", "erase"}

(* Only threads in run() are in handlers; only with lockedErase one waits  *)
(* for the mutex to erase; only an iterator can be stale.                  *)
Handlers ==
  \A t \in Thread :
    /\ pc[t] # "poll" => t \in threads_
    /\ pc[t] \in ArrivingAt \cup LeavingAt => on[t] \in Session
    /\ pc[t] = "over" => lockedErase
    /\ t \in stale => pc[t] = "erase"

(* Who holds the mutex.                                                    *)
Locked ==
  \A t \in Thread :
    mutex_ = t <=>
      pc[t] = "push" \/ (lockedErase /\ pc[t] \in {"search", "erase"})

(* One session arrives at a time; it is not in the vector before its push. *)
OneArrives ==
  /\ \A t \in Thread :
       pc[t] \in ArrivingAt =>
         ~ accepting /\ state[on[t]] # "new" /\ on[t] \notin In
  /\ \A t, u \in Thread :
       pc[t] \in ArrivingAt /\ pc[u] \in ArrivingAt => t = u
  /\ \A s \in Session : state[s] = "new" => s \notin In

(* A session is over once, so that one thread at most erases it.           *)
OnceOver ==
  /\ \A t \in Thread : pc[t] \in LeavingAt => state[on[t]] = "over"
  /\ \A t, u \in Thread :
       pc[t] \in LeavingAt /\ pc[u] \in LeavingAt /\ on[t] = on[u] => t = u

Arrives(s) == \E t \in Thread : pc[t] \in ArrivingAt /\ on[t] = s
Leaves(s)  == \E t \in Thread : pc[t] \in LeavingAt /\ on[t] = s

(* The vector, before and after a session's push.                          *)
Vector ==
  /\ IsInjective(sessions_)
  /\ \A s \in Session :
       /\ state[s] \notin {"new", "over"} /\ ~ Arrives(s) => s \in In
       /\ state[s] = "over" /\ (s \in In \/ Arrives(s)) =>
            Leaves(s) \/ s \in missed

Iterators ==
  \A t \in Thread : pc[t] = "erase" /\ t \notin stale =>
    it[t] \in DOMAIN sessions_ /\ sessions_[it[t]] = on[t]

(* With one thread a session that leaves is still in the vector.           *)
Single ==
  threads_ = {Main} =>
    /\ missed = {} /\ stale = {} /\ ~ corrupt
    /\ pc[Main] \in LeavingAt => on[Main] \in In

Mutexed == lockedErase => stale = {} /\ ~ corrupt

Threads == Handlers /\ Locked /\ OneArrives /\ OnceOver

Inv == TypeOK /\ Threads /\ Vector /\ Iterators /\ Single /\ Mutexed

-----------------------------------------------------------------------------
(* The invariant holds at first, and every step of a thread keeps it.       *)
LEMMA Begins == Init => Inv
<1> SUFFICES ASSUME Init PROVE Inv
  OBVIOUS
<1> USE ServerAssumption DEF Init
<1>1. TypeOK
  <2>1. /\ sessions_ \in Seq(Session)
        /\ threads_ \subseteq Thread /\ Main \in threads_
    OBVIOUS
  <2>2. QED BY <2>1 DEF TypeOK, Places
<1>2. Threads
  BY DEF Threads, Handlers, Locked, OneArrives, OnceOver, In, ToSet,
         ArrivingAt,
         LeavingAt
<1>3. Vector
  BY DEF Vector, IsInjective, In, ToSet, Arrives, Leaves, ArrivingAt
<1>4. Iterators /\ Single /\ Mutexed
  BY DEF Iterators, Single, Mutexed, LeavingAt
<1>5. QED BY <1>1, <1>2, <1>3, <1>4 DEF Inv

LEMMA StepAccept ==
  ASSUME Inv, NEW t \in threads_, NEW s \in Session, OnAccept(t, s)
  PROVE  Inv'
<1> USE ServerAssumption DEF Inv, OnAccept, At, Polling, Goto, Invalidate,
                             fixed
<1>0. t \in Thread
  BY DEF TypeOK
<1>1. TypeOK'
  BY <1>0 DEF TypeOK, Places
<1>2. Handlers'
  BY <1>0 DEF Handlers, TypeOK, Threads, ArrivingAt, LeavingAt
<1>3. Locked'
  BY <1>0 DEF Locked, TypeOK, Threads, Handlers
<1>4. OneArrives'
  BY <1>0 DEF OneArrives, Handlers, TypeOK, Threads, In, ArrivingAt
<1>5. OnceOver'
  BY <1>0 DEF OnceOver, Handlers, TypeOK, Threads, LeavingAt
<1>6. Vector'
  BY <1>0 DEF Vector, Arrives, Leaves, Handlers, OneArrives, OnceOver, Threads,
              TypeOK, In, ArrivingAt, LeavingAt
<1>7. Iterators'
  BY <1>0 DEF Iterators, Handlers, Threads, TypeOK
<1>8. Single'
  BY <1>0 DEF Single, Handlers, Vector, Arrives, Threads, TypeOK, In,
              ArrivingAt, LeavingAt
<1>9. Mutexed'
  BY <1>0 DEF Mutexed, Locked, Threads, TypeOK
<1>10. QED BY <1>1, <1>2, <1>3, <1>4, <1>5, <1>6, <1>7, <1>8, <1>9 DEF Threads

LEMMA StepLockPush ==
  ASSUME Inv, NEW t \in threads_, Lock(t, "accepted", "push")
  PROVE  Inv'
<1> USE ServerAssumption DEF Inv, Lock, At, Polling, Goto, Invalidate, fixed
<1>0. t \in Thread
  BY DEF TypeOK
<1>1. TypeOK'
  BY <1>0 DEF TypeOK, Places
<1>2. Handlers'
  BY <1>0 DEF Handlers, TypeOK, Threads, ArrivingAt, LeavingAt
<1>3. Locked'
  BY <1>0 DEF Locked, TypeOK, Threads, Handlers
<1>4. OneArrives'
  BY <1>0, SMTT(30) DEF OneArrives, Handlers, TypeOK, Threads, In, ArrivingAt
<1>5. OnceOver'
  BY <1>0 DEF OnceOver, Handlers, TypeOK, Threads, LeavingAt
<1>6. Vector'
  BY <1>0, SMTT(30) DEF Vector, Arrives, Leaves, Handlers, OneArrives, OnceOver, Threads,
              TypeOK, In, ArrivingAt, LeavingAt
<1>7. Iterators'
  BY <1>0 DEF Iterators, Handlers, Threads, TypeOK
<1>8. Single'
  BY <1>0 DEF Single, Handlers, Vector, Arrives, Threads, TypeOK, In,
              ArrivingAt, LeavingAt
<1>9. Mutexed'
  BY <1>0 DEF Mutexed, Locked, Threads, TypeOK
<1>10. QED BY <1>1, <1>2, <1>3, <1>4, <1>5, <1>6, <1>7, <1>8, <1>9 DEF Threads

LEMMA StepPush ==
  ASSUME Inv, NEW t \in threads_, Push(t)
  PROVE  Inv'
<1> USE ServerAssumption DEF Inv, Push, At, Polling, Goto, Invalidate, fixed
<1>0. t \in Thread
  BY DEF TypeOK
<1>a. on[t] \in Session /\ on[t] \notin In
  BY <1>0 DEF Threads, Handlers, OneArrives, ArrivingAt
<1>b. /\ sessions_' \in Seq(Session) /\ In' = In \cup {on[t]}
      /\ IsInjective(sessions_)'
  BY <1>a, AppendOnce DEF TypeOK, In, Vector
<1>c. corrupt' \in BOOLEAN /\ stale' \subseteq Thread
  BY DEF TypeOK
<1>1. TypeOK'
  BY <1>0, <1>b, <1>c DEF TypeOK, Places
<1>2. Handlers'
  BY <1>0 DEF Handlers, TypeOK, Threads, ArrivingAt, LeavingAt
<1>3. Locked'
  BY <1>0 DEF Locked, TypeOK, Threads, Handlers
<1>4. OneArrives'
  <2>1. \A u \in Thread : pc'[u] \notin ArrivingAt
    BY <1>0 DEF Threads, OneArrives, TypeOK, ArrivingAt
  <2>2. \A x \in Session : state[x] = "new" => x \notin In'
    BY <1>0, <1>b DEF Threads, OneArrives, ArrivingAt
  <2>3. QED BY <2>1, <2>2 DEF OneArrives
<1>5. OnceOver'
  BY <1>0 DEF OnceOver, Handlers, TypeOK, Threads, LeavingAt
<1>6. Vector'
  <2>1. \A x \in Session : Leaves(x) => Leaves(x)'
    BY <1>0 DEF Leaves, TypeOK, LeavingAt
  <2>2. \A x \in Session : Arrives(x) => x = on[t]
    BY <1>0 DEF Arrives, Threads, OneArrives, ArrivingAt
  <2>3. Arrives(on[t]) /\ \A x \in Session : ~ Arrives(x)'
    BY <1>0 DEF Arrives, Threads, OneArrives, TypeOK, ArrivingAt
  <2>4. QED BY <1>a, <1>b, <2>1, <2>2, <2>3 DEF Vector
<1>7. Iterators'
  BY <1>0 DEF Iterators, Handlers, Threads, TypeOK
<1>8. Single'
  <2> SUFFICES ASSUME threads_ = {Main} PROVE Single'
    BY DEF Single
  <2>1. t = Main /\ \A u \in Thread : pc[u] \notin {"search", "erase"}
    BY <1>0 DEF Threads, Handlers
  <2>2. stale' = {} /\ ~ corrupt' /\ missed' = {} /\ pc'[Main] = "poll"
    BY <1>0, <2>1 DEF Single, TypeOK
  <2>3. QED BY <2>2 DEF Single, LeavingAt
<1>9. Mutexed'
  BY <1>0 DEF Mutexed, Locked, Threads, TypeOK
<1>10. QED BY <1>1, <1>2, <1>3, <1>4, <1>5, <1>6, <1>7, <1>8, <1>9 DEF Threads

LEMMA StepShake ==
  ASSUME Inv, NEW t \in threads_, NEW s \in Session, OnHandshake(t, s)
  PROVE  Inv'
<1> USE ServerAssumption DEF Inv, OnHandshake, At, Polling, Goto, Invalidate,
                             fixed
<1>0. t \in Thread
  BY DEF TypeOK
<1>1. TypeOK'
  BY <1>0 DEF TypeOK, Places
<1>2. Handlers'
  BY <1>0 DEF Handlers, TypeOK, Threads, ArrivingAt, LeavingAt
<1>3. Locked'
  BY <1>0 DEF Locked, TypeOK, Threads, Handlers
<1>4. OneArrives'
  BY <1>0 DEF OneArrives, Handlers, TypeOK, Threads, In, ArrivingAt
<1>5. OnceOver'
  BY <1>0 DEF OnceOver, Handlers, TypeOK, Threads, LeavingAt
<1>6. Vector'
  <2>1. \A x \in Session : Arrives(x)' <=> Arrives(x)
    BY <1>0 DEF Arrives, Handlers, Threads, TypeOK, ArrivingAt
  <2>2. \A x \in Session : Leaves(x) => Leaves(x)'
    BY <1>0 DEF Leaves, Handlers, Threads, TypeOK, LeavingAt
  <2>3. QED BY <2>1, <2>2 DEF Vector, TypeOK, In
<1>7. Iterators'
  BY <1>0 DEF Iterators, Handlers, Threads, TypeOK
<1>8. Single'
  BY <1>0 DEF Single, Handlers, Vector, Arrives, Threads, TypeOK, In,
              ArrivingAt, LeavingAt
<1>9. Mutexed'
  BY <1>0 DEF Mutexed, Locked, Threads, TypeOK
<1>10. QED BY <1>1, <1>2, <1>3, <1>4, <1>5, <1>6, <1>7, <1>8, <1>9 DEF Threads

LEMMA StepOver ==
  ASSUME Inv, NEW t \in threads_, NEW s \in Session, SessionOver(t, s)
  PROVE  Inv'
<1> USE ServerAssumption DEF Inv, SessionOver, At, Polling, Goto, Invalidate,
                             fixed
<1>0. t \in Thread
  BY DEF TypeOK
<1>1. TypeOK'
  BY <1>0 DEF TypeOK, Places
<1>2. Handlers'
  BY <1>0 DEF Handlers, TypeOK, Threads, ArrivingAt, LeavingAt
<1>3. Locked'
  BY <1>0 DEF Locked, TypeOK, Threads, Handlers
<1>4. OneArrives'
  BY <1>0 DEF OneArrives, Handlers, TypeOK, Threads, In, ArrivingAt
<1>5. OnceOver'
  BY <1>0 DEF OnceOver, Handlers, TypeOK, Threads, LeavingAt
<1>6. Vector'
  <2>1. \A x \in Session : Arrives(x)' <=> Arrives(x)
    BY <1>0 DEF Arrives, Handlers, Threads, TypeOK, ArrivingAt
  <2>2. \A x \in Session : Leaves(x) => Leaves(x)'
    BY <1>0 DEF Leaves, Handlers, Threads, TypeOK, LeavingAt
  <2>3. Leaves(s)'
    BY <1>0 DEF Leaves, TypeOK, LeavingAt
  <2>4. QED BY <2>1, <2>2, <2>3 DEF Vector, TypeOK, In
<1>7. Iterators'
  BY <1>0 DEF Iterators, Handlers, Threads, TypeOK
<1>8. Single'
  BY <1>0 DEF Single, Handlers, Vector, Arrives, Threads, TypeOK, In,
              ArrivingAt, LeavingAt
<1>9. Mutexed'
  BY <1>0 DEF Mutexed, Locked, Threads, TypeOK
<1>10. QED BY <1>1, <1>2, <1>3, <1>4, <1>5, <1>6, <1>7, <1>8, <1>9 DEF Threads

LEMMA StepLockErase ==
  ASSUME Inv, NEW t \in threads_, Lock(t, "over", "search")
  PROVE  Inv'
<1> USE ServerAssumption DEF Inv, Lock, At, Polling, Goto, Invalidate, fixed
<1>0. t \in Thread
  BY DEF TypeOK
<1>1. TypeOK'
  BY <1>0 DEF TypeOK, Places
<1>2. Handlers'
  BY <1>0 DEF Handlers, TypeOK, Threads, ArrivingAt, LeavingAt
<1>3. Locked'
  BY <1>0 DEF Locked, TypeOK, Threads, Handlers
<1>4. OneArrives'
  BY <1>0 DEF OneArrives, Handlers, TypeOK, Threads, In, ArrivingAt
<1>5. OnceOver'
  BY <1>0 DEF OnceOver, Handlers, TypeOK, Threads, LeavingAt
<1>6. Vector'
  <2>1. \A x \in Session : Arrives(x)' <=> Arrives(x)
    BY <1>0 DEF Arrives, Handlers, Threads, TypeOK, ArrivingAt
  <2>2. \A x \in Session : Leaves(x) => Leaves(x)'
    BY <1>0 DEF Leaves, Handlers, Threads, TypeOK, LeavingAt
  <2>3. QED BY <2>1, <2>2 DEF Vector, TypeOK, In
<1>7. Iterators'
  BY <1>0 DEF Iterators, Handlers, Threads, TypeOK
<1>8. Single'
  BY <1>0 DEF Single, Handlers, Vector, Arrives, Threads, TypeOK, In,
              ArrivingAt, LeavingAt
<1>9. Mutexed'
  BY <1>0 DEF Mutexed, Locked, Threads, TypeOK
<1>10. QED BY <1>1, <1>2, <1>3, <1>4, <1>5, <1>6, <1>7, <1>8, <1>9 DEF Threads

LEMMA StepFind ==
  ASSUME Inv, NEW t \in threads_, Find(t)
  PROVE  Inv'
<1> USE ServerAssumption DEF Inv, Find, At, Polling, Goto, Invalidate, fixed
<1>0. t \in Thread
  BY DEF TypeOK
<1>1. TypeOK'
  BY <1>0 DEF TypeOK, Places
<1>2. Handlers'
  BY <1>0 DEF Handlers, TypeOK, Threads, ArrivingAt, LeavingAt
<1>3. Locked'
  BY <1>0 DEF Locked, TypeOK, Threads, Handlers
<1>4. OneArrives'
  BY <1>0 DEF OneArrives, Handlers, TypeOK, Threads, In, ArrivingAt
<1>5. OnceOver'
  BY <1>0 DEF OnceOver, Handlers, TypeOK, Threads, LeavingAt
<1>6. Vector'
  BY <1>0 DEF Vector, Arrives, Leaves, Handlers, OneArrives, OnceOver, Threads,
              TypeOK, In, ArrivingAt, LeavingAt
<1>7. Iterators'
  BY <1>0 DEF Iterators, Handlers, Threads, TypeOK
<1>8. Single'
  BY <1>0 DEF Single, Handlers, Vector, Arrives, Threads, TypeOK, In,
              ArrivingAt, LeavingAt
<1>9. Mutexed'
  BY <1>0 DEF Mutexed, Locked, Threads, TypeOK
<1>10. QED BY <1>1, <1>2, <1>3, <1>4, <1>5, <1>6, <1>7, <1>8, <1>9 DEF Threads

LEMMA StepFindNothing ==
  ASSUME Inv, NEW t \in threads_, FindNothing(t)
  PROVE  Inv'
<1> USE ServerAssumption DEF Inv, FindNothing, LeaveHandler, At, Polling, Goto,
                             Invalidate, fixed
<1>0. t \in Thread
  BY DEF TypeOK
<1>1. TypeOK'
  <2>1. on[t] \in Session
    BY <1>0 DEF Threads, Handlers, LeavingAt
  <2>2. QED BY <1>0, <2>1 DEF TypeOK, Places
<1>2. Handlers'
  BY <1>0 DEF Handlers, TypeOK, Threads, ArrivingAt, LeavingAt
<1>3. Locked'
  BY <1>0 DEF Locked, TypeOK, Threads, Handlers
<1>4. OneArrives'
  BY <1>0 DEF OneArrives, Handlers, TypeOK, Threads, In, ArrivingAt
<1>5. OnceOver'
  BY <1>0 DEF OnceOver, Handlers, TypeOK, Threads, LeavingAt
<1>6. Vector'
  BY <1>0 DEF Vector, Arrives, Leaves, Handlers, OneArrives, OnceOver, Threads,
              TypeOK, In, ArrivingAt, LeavingAt
<1>7. Iterators'
  BY <1>0 DEF Iterators, Handlers, Threads, TypeOK
<1>8. Single'
  BY <1>0 DEF Single, Handlers, Vector, Arrives, Threads, TypeOK, In,
              ArrivingAt, LeavingAt
<1>9. Mutexed'
  BY <1>0 DEF Mutexed, Locked, Threads, TypeOK
<1>10. QED BY <1>1, <1>2, <1>3, <1>4, <1>5, <1>6, <1>7, <1>8, <1>9 DEF Threads

LEMMA StepErase ==
  ASSUME Inv, NEW t \in threads_, Erase(t)
  PROVE  Inv'
<1> USE ServerAssumption DEF Inv, Erase, LeaveHandler, At, Polling, Goto,
                             Invalidate, fixed
<1>0. t \in Thread
  BY DEF TypeOK
<1>a. on[t] \in Session /\ on[t] \notin In' /\ In' = In \ {on[t]}
  BY <1>0, RemoveOnce DEF TypeOK, In, Vector, Iterators, Threads, Handlers,
                         LeavingAt
<1>b. sessions_' \in Seq(Session) /\ IsInjective(sessions_)'
  BY <1>0, RemoveOnce DEF TypeOK, In, Vector, Iterators
<1>c. corrupt' \in BOOLEAN /\ stale' \subseteq Thread
  BY DEF TypeOK
<1>1. TypeOK'
  BY <1>0, <1>b, <1>c DEF TypeOK, Places
<1>2. Handlers'
  BY <1>0 DEF Handlers, TypeOK, Threads, ArrivingAt, LeavingAt
<1>3. Locked'
  BY <1>0 DEF Locked, TypeOK, Threads, Handlers
<1>4. OneArrives'
  BY <1>0, <1>a DEF OneArrives, Handlers, TypeOK, Threads, ArrivingAt
<1>5. OnceOver'
  BY <1>0 DEF OnceOver, Handlers, TypeOK, Threads, LeavingAt
<1>6. Vector'
  <2>1. \A x \in Session : Leaves(x) /\ x # on[t] => Leaves(x)'
    BY <1>0 DEF Leaves, TypeOK, LeavingAt
  <2>2. \A x \in Session : Arrives(x)' <=> Arrives(x)
    BY <1>0 DEF Arrives, TypeOK, ArrivingAt
  <2>3. state[on[t]] = "over" /\ on[t] \in In
    BY <1>0 DEF Threads, OnceOver, LeavingAt, Iterators, In, ToSet
  <2>4. ~ Arrives(on[t])
    BY <1>0, <2>3 DEF Arrives, Threads, OneArrives
  <2>5. QED BY <1>a, <1>b, <2>1, <2>2, <2>3, <2>4 DEF Vector
<1>7. Iterators'
  BY <1>0 DEF Iterators, Handlers, Threads, TypeOK
<1>8. Single'
  <2> SUFFICES ASSUME threads_ = {Main} PROVE Single'
    BY DEF Single
  <2>1. t = Main /\ \A u \in Thread \ {t} : pc[u] = "poll"
    BY <1>0 DEF Threads, Handlers
  <2>2. stale' = {} /\ ~ corrupt' /\ missed' = {} /\ pc'[Main] = "poll"
    BY <1>0, <2>1 DEF Single, TypeOK
  <2>3. QED BY <2>2 DEF Single, LeavingAt
<1>9. Mutexed'
  BY <1>0 DEF Mutexed, Locked, Threads, TypeOK
<1>10. QED BY <1>1, <1>2, <1>3, <1>4, <1>5, <1>6, <1>7, <1>8, <1>9 DEF Threads

LEMMA StepStale ==
  ASSUME Inv, NEW t \in threads_, EraseStale(t)
  PROVE  Inv'
<1> USE ServerAssumption DEF Inv, EraseStale, At, Polling, Goto, Invalidate,
                             fixed
<1>0. t \in Thread
  BY DEF TypeOK
<1>1. TypeOK'
  BY <1>0 DEF TypeOK, Places
<1>2. Handlers'
  BY <1>0 DEF Handlers, TypeOK, Threads, ArrivingAt, LeavingAt
<1>3. Locked'
  BY <1>0 DEF Locked, TypeOK, Threads, Handlers
<1>4. OneArrives'
  BY <1>0 DEF OneArrives, Handlers, TypeOK, Threads, In, ArrivingAt
<1>5. OnceOver'
  BY <1>0 DEF OnceOver, Handlers, TypeOK, Threads, LeavingAt
<1>6. Vector'
  BY <1>0 DEF Vector, Arrives, Leaves, Handlers, OneArrives, OnceOver, Threads,
              TypeOK, In, ArrivingAt, LeavingAt
<1>7. Iterators'
  BY <1>0 DEF Iterators, Handlers, Threads, TypeOK
<1>8. Single'
  BY <1>0 DEF Single, Handlers, Vector, Arrives, Threads, TypeOK, In,
              ArrivingAt, LeavingAt
<1>9. Mutexed'
  BY <1>0 DEF Mutexed, Locked, Threads, TypeOK
<1>10. QED BY <1>1, <1>2, <1>3, <1>4, <1>5, <1>6, <1>7, <1>8, <1>9 DEF Threads

LEMMA StepExit ==
  ASSUME Inv, NEW t \in threads_, Exit(t)
  PROVE  Inv'
<1> USE ServerAssumption DEF Inv, Exit, At, Polling, Goto, Invalidate, fixed
<1>0. t \in Thread
  BY DEF TypeOK
<1>1. TypeOK'
  BY <1>0 DEF TypeOK, Places
<1>2. Handlers'
  BY <1>0 DEF Handlers, TypeOK, Threads, ArrivingAt, LeavingAt
<1>3. Locked'
  BY <1>0 DEF Locked, TypeOK, Threads, Handlers
<1>4. OneArrives'
  BY <1>0 DEF OneArrives, Handlers, TypeOK, Threads, In, ArrivingAt
<1>5. OnceOver'
  BY <1>0 DEF OnceOver, Handlers, TypeOK, Threads, LeavingAt
<1>6. Vector'
  BY <1>0, SMTT(30) DEF Vector, Arrives, Leaves, Handlers, OneArrives, OnceOver, Threads,
              TypeOK, In, ArrivingAt, LeavingAt
<1>7. Iterators'
  BY <1>0 DEF Iterators, Handlers, Threads, TypeOK
<1>8. Single'
  BY <1>0 DEF Single, Handlers, Vector, Arrives, Threads, TypeOK, In,
              ArrivingAt, LeavingAt
<1>9. Mutexed'
  BY <1>0 DEF Mutexed, Locked, Threads, TypeOK
<1>10. QED BY <1>1, <1>2, <1>3, <1>4, <1>5, <1>6, <1>7, <1>8, <1>9 DEF Threads

(* So do steps that say no more than how far the program is from its end,  *)
(* or that it accepts no more.                                             *)
LEMMA StepStopping ==
  ASSUME Inv, stopping' \in {"no", "join", "returned", "terminated"},
         accepting' \in {accepting, FALSE},
         UNCHANGED <<threads_, lockedErase, ssl, pc, on, state, sessions_,
                     mutex_, it, stale, corrupt, missed>>
  PROVE  Inv'
<1> USE DEF Inv
<1>1. TypeOK'
  BY DEF TypeOK
<1>2. Threads'
  <2>1. accepting' => accepting
    BY Zenon DEF TypeOK
  <2>2. Handlers' /\ Locked' /\ OnceOver'
    BY DEF Threads, Handlers, Locked, OnceOver
  <2>3. OneArrives'
    BY <2>1 DEF Threads, OneArrives, In
  <2>4. QED BY <2>2, <2>3 DEF Threads
<1>3. Vector' /\ Iterators'
  BY DEF Vector, Arrives, Leaves, In, Iterators
<1>4. Single' /\ Mutexed'
  BY DEF Single, Mutexed, In
<1>5. QED BY <1>1, <1>2, <1>3, <1>4

LEMMA Preserves == Inv /\ [Next]_vars => Inv'
<1> SUFFICES ASSUME Inv, [Next]_vars PROVE Inv'
  OBVIOUS
<1>1. ASSUME NEW t \in threads_, Step(t) PROVE Inv'
  BY <1>1, StepLockPush, StepPush, StepLockErase, StepFind, StepFindNothing,
     StepErase, StepStale, StepExit DEF Step
<1>2. ASSUME NEW t \in threads_, NEW s \in Session,
             OnAccept(t, s) \/ OnHandshake(t, s) \/ SessionOver(t, s)
      PROVE  Inv'
  BY <1>2, StepAccept, StepShake, StepOver
<1>3. ASSUME \/ \E t \in threads_, s \in Session : OnAcceptThrows(t, s)
             \/ \E t \in threads_ : OnAcceptError(t)
             \/ Stop \/ StopReturns \/ UNCHANGED vars
      PROVE  Inv'
  BY <1>3, StepStopping
  DEF OnAcceptThrows, OnAcceptError, Stop, StopReturns, vars, fixed, Inv,
      TypeOK
<1>4. QED BY <1>1, <1>2, <1>3 DEF Next

LEMMA Invariance == Spec => []Inv
BY Begins, Preserves, PTL DEF Spec

-----------------------------------------------------------------------------
(* The state of rpc_server, on_accept and on_session_over has its types:   *)
(* only sessions that exist are pushed and erased.                         *)
THEOREM TypeCorrect == Spec => []TypeOK
<1>1. Inv => TypeOK
  BY DEF Inv
<1>2. QED BY Invariance, <1>1, PTL

(* sessions_ keeps, once each, just the sessions that run or were refused  *)
(* by the handshake, those that a handler is about to erase, and those that*)
(* were over before on_accept had pushed them; with one thread there are   *)
(* none of the last.                                                       *)
THEOREM RegistryKept == Spec => []Registry
<1>1. Inv => Registry
  <2> SUFFICES ASSUME Inv PROVE Registry
    OBVIOUS
  <2>1. \A s \in Session : s \in Arriving <=> Arrives(s)
    BY DEF Arriving, Arrives, ArrivingAt
  <2>2. \A s \in Session : s \in Leaving <=> Leaves(s)
    BY DEF Leaving, Leaves, LeavingAt
  <2>3. QED BY <2>1, <2>2 DEF Inv, Vector, Single, Registry, In
<1>2. QED BY Invariance, <1>1, PTL

(* The iterator of on_session_over is never used when another thread has   *)
(* changed sessions_, if there is one thread or if the mutex is held from  *)
(* the search to the erase, as in asio_rpc_practice.                       *)
THEOREM EraseSafe == Spec => []NotCorrupt
<1>1. Inv => NotCorrupt
  BY DEF Inv, Iterators, Single, Mutexed, NotCorrupt
<1>2. QED BY Invariance, <1>1, PTL
=============================================================================
