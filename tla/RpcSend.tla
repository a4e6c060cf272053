------------------------------- MODULE RpcSend -------------------------------
(***************************************************************************)
(* The sending half of class rpc_codec: send_rpc_msg, called by any number *)
(* of threads on one session, the pool of output buffers outputBuffers_,   *)
(* the socket's queue of asynchronous writes, and the completion handler   *)
(* on_write, which any thread of the io_context runs.                      *)
(*                                                                         *)
(* The process of this module is a message: the call of send_rpc_msg that  *)
(* sends it and the chain of on_write handlers that call starts.  A byte   *)
(* is named by the message it belongs to and its place in that message's   *)
(* frame, so that the wire shows where every byte came from.  An output    *)
(* buffer is the queue of bytes of ByteQueue.tla.                          *)
(***************************************************************************)
EXTENDS Integers, SequencesExt

CONSTANTS
  Message,         \* the messages that are sent, each by a call of its own
  BodyLen,         \* ByteSize() of each message
  IntBytes,        \* sizeof(int32_t): bytes of the length and of the checksum
  kCheapPrepend,   \* headroom of an empty buffer
  NoMessage        \* nobody: the value of an unlocked mutex

ASSUME SendAssumption ==
  /\ BodyLen \in [Message -> Nat]
  /\ IntBytes \in Nat \ {0}
  /\ kCheapPrepend \in Nat
  /\ IntBytes <= kCheapPrepend
  /\ NoMessage \notin Message

VARIABLES
  lock,            \* mutexBuffers_: the message whose call holds it
  outputBuffers_,  \* the pool: a sequence of [valid, headroom, bytes]
  pc,              \* where the call or the handler of each message is
  it,              \* its position in the scan of the pool
  bufferValue,     \* the entry of the pool that it has taken
  region,          \* the bytes of its outstanding async_write_some
  moved,           \* the bytes_transferred its next handler is given
  queue,           \* outstanding writes of the socket, oldest first
  wire,            \* every byte that has left, in order
  up,              \* the connection still takes bytes
  order,           \* history: the messages in the order of their first write
  overlap          \* history: a write was outstanding, or begun, while the
                   \* rest of another message's frame waited for its handler

vars == <<lock, outputBuffers_, pc, it, bufferValue, region, moved, queue,
          wire, up, order, overlap>>

-----------------------------------------------------------------------------
FrameLen(m) == IntBytes + BodyLen[m] + IntBytes

(* Length, message, checksum: the bytes of m that go on the wire, and the  *)
(* two parts they are written to the buffer in.                            *)
Frame(m) == [i \in 1 .. FrameLen(m) |-> <<m, i>>]
Length(m) == SubSeq(Frame(m), 1, IntBytes)
BodyAndChecksum(m) == SubSeq(Frame(m), IntBytes + 1, FrameLen(m))

(* BufferValue(): a valid, empty buffer.                                   *)
BufferValue == [valid |-> TRUE, headroom |-> kCheapPrepend, bytes |-> <<>>]

Buf(m) == outputBuffers_[bufferValue[m]]

(* From the moment a call has a buffer to the moment on_write gives it     *)
(* back; a call whose write failed never does.                             *)
Working == {"serialize", "prepend", "submit", "queued", "written", "retrieved"}
Holding == Working \cup {"lost"}

(* What has not left of the bytes in its buffer.                           *)
Kept(m) ==
  IF pc[m] = "written"
  THEN SubSeq(Buf(m).bytes, moved[m] + 1, Len(Buf(m).bytes))
  ELSE Buf(m).bytes

(* The rest of m waits for its handler, while the socket is free to write  *)
(* for others.                                                             *)
HalfSent(m) == pc[m] \in {"written", "retrieved"} /\ Kept(m) # <<>>

-----------------------------------------------------------------------------
Init ==
  /\ lock = NoMessage
  /\ outputBuffers_ = <<BufferValue>>
  /\ pc = [m \in Message |-> "idle"]
  /\ it = [m \in Message |-> 1]
  /\ bufferValue = [m \in Message |-> 0]
  /\ region = [m \in Message |-> <<>>]
  /\ moved = [m \in Message |-> 0]
  /\ queue = <<>>
  /\ wire = <<>>
  /\ up = TRUE
  /\ order = <<>>
  /\ overlap = FALSE

Goto(m, label) == pc' = [pc EXCEPT ![m] = label]

socketVars == <<region, moved, queue, wire, up, order, overlap>>

(* Some thread calls send_rpc_msg(m).                                      *)
Call(m) ==
  /\ pc[m] = "idle"
  /\ Goto(m, "lock")
  /\ UNCHANGED <<lock, outputBuffers_, it, bufferValue, socketVars>>

(* Mutant: without the mutex.                                              *)
Lock_Unguarded(m) ==
  /\ pc[m] = "lock"
  /\ lock' = m
  /\ it' = [it EXCEPT ![m] = 1]
  /\ Goto(m, "scan")
  /\ UNCHANGED <<outputBuffers_, bufferValue, socketVars>>

Lock(m) ==
  /\ pc[m] = "lock"
  /\ lock = NoMessage
  /\ lock' = m
  /\ it' = [it EXCEPT ![m] = 1]
  /\ Goto(m, "scan")
  /\ UNCHANGED <<outputBuffers_, bufferValue, socketVars>>

(* One turn of the loop over the pool.  on_write does not take the mutex,  *)
(* so that a buffer may become valid behind the scan.                      *)
Scan(m) ==
  /\ pc[m] = "scan"
  /\ it[m] <= Len(outputBuffers_)
  /\ IF outputBuffers_[it[m]].valid
     THEN Goto(m, "take") /\ UNCHANGED it
     ELSE it' = [it EXCEPT ![m] = @ + 1] /\ UNCHANGED pc
  /\ UNCHANGED <<lock, outputBuffers_, bufferValue, socketVars>>

(* Mutant: the mutex is not given back.                                    *)
Take_KeepsMutex(m) ==
  /\ pc[m] = "take"
  /\ outputBuffers_' = [outputBuffers_ EXCEPT ![it[m]].valid = FALSE]
  /\ bufferValue' = [bufferValue EXCEPT ![m] = it[m]]
  /\ UNCHANGED lock
  /\ Goto(m, "serialize")
  /\ UNCHANGED <<it, socketVars>>

Take(m) ==
  /\ pc[m] = "take"
  /\ outputBuffers_' = [outputBuffers_ EXCEPT ![it[m]].valid = FALSE]
  /\ bufferValue' = [bufferValue EXCEPT ![m] = it[m]]
  /\ lock' = NoMessage
  /\ Goto(m, "serialize")
  /\ UNCHANGED <<it, socketVars>>

Emplace(m) ==
  /\ pc[m] = "scan"
  /\ it[m] > Len(outputBuffers_)
  /\ outputBuffers_' =
       Append(outputBuffers_, [BufferValue EXCEPT !.valid = FALSE])
  /\ bufferValue' = [bufferValue EXCEPT ![m] = Len(outputBuffers_) + 1]
  /\ lock' = NoMessage
  /\ Goto(m, "serialize")
  /\ UNCHANGED <<it, socketVars>>

(* Mutant: the checksum, too, is prepended.                                *)
Serialize_PrependsChecksum(m) ==
  /\ pc[m] = "serialize"
  /\ outputBuffers_' = [outputBuffers_ EXCEPT
       ![bufferValue[m]].bytes = @ \o BodyAndChecksum(m),
       ![bufferValue[m]].headroom = @ - IntBytes]
  /\ Goto(m, "prepend")
  /\ UNCHANGED <<lock, it, bufferValue, socketVars>>

(* ensureWritableBytes, hasWritten and appendInt32: making room may bring  *)
(* the headroom back to its nominal size.                                  *)
Serialize(m) ==
  /\ pc[m] = "serialize"
  /\ \E headroom \in {Buf(m).headroom, kCheapPrepend} :
       outputBuffers_' = [outputBuffers_ EXCEPT
         ![bufferValue[m]].bytes = @ \o BodyAndChecksum(m),
         ![bufferValue[m]].headroom = headroom]
  /\ Goto(m, "prepend")
  /\ UNCHANGED <<lock, it, bufferValue, socketVars>>

(* prependInt32; its assert is the invariant PrependFits.                  *)
Prepend(m) ==
  /\ pc[m] = "prepend"
  /\ outputBuffers_' = [outputBuffers_ EXCEPT
       ![bufferValue[m]].bytes = Length(m) \o @,
       ![bufferValue[m]].headroom = @ - IntBytes]
  /\ Goto(m, "submit")
  /\ UNCHANGED <<lock, it, bufferValue, socketVars>>

(* async_write_some of everything that the buffer holds.                   *)
AsyncWriteSome(m) ==
  /\ region' = [region EXCEPT ![m] = Buf(m).bytes]
  /\ queue' = Append(queue, m)
  /\ Goto(m, "queued")

Submit(m) ==
  /\ pc[m] = "submit"
  /\ AsyncWriteSome(m)
  /\ order' = Append(order, m)
  /\ overlap' = (overlap \/ \E n \in Message : HalfSent(n))
  /\ UNCHANGED <<lock, outputBuffers_, it, bufferValue, moved, wire, up>>

-----------------------------------------------------------------------------
(* The socket performs its oldest write, which may move fewer bytes than   *)
(* it was given.  The next one may follow before any handler has run.      *)
Transfer(m, n) ==
  /\ pc[m] = "queued"
  /\ queue # <<>> /\ Head(queue) = m
  /\ up
  /\ wire' = wire \o SubSeq(region[m], 1, n)
  /\ moved' = [moved EXCEPT ![m] = n]
  /\ queue' = Tail(queue)
  /\ overlap' = (overlap \/ (n < Len(region[m]) /\ Len(queue) > 1))
  /\ Goto(m, "written")
  /\ UNCHANGED <<lock, outputBuffers_, it, bufferValue, region, up, order>>

(* The connection breaks: the peer is gone.                                *)
Break ==
  /\ up
  /\ up' = FALSE
  /\ UNCHANGED <<lock, outputBuffers_, pc, it, bufferValue, region, moved,
                 queue, wire, order, overlap>>

(* on_write with an error: the handler shuts the socket down and returns;  *)
(* neither the rest of the frame nor the buffer is looked at again.        *)
OnWriteError(m) ==
  /\ pc[m] = "queued"
  /\ queue # <<>> /\ Head(queue) = m
  /\ ~ up
  /\ queue' = Tail(queue)
  /\ Goto(m, "lost")
  /\ UNCHANGED <<lock, outputBuffers_, it, bufferValue, region, moved, wire,
                 up, order, overlap>>

(* The write that on_write is the handler of is over.                      *)
Handled(m) ==
  /\ region' = [region EXCEPT ![m] = <<>>]
  /\ moved' = [moved EXCEPT ![m] = 0]
  /\ UNCHANGED <<queue, wire, up, order, overlap>>

(* Mutants: the bytes are given back to the headroom in the wrong          *)
(* direction; an emptied buffer does not get its headroom back; the rest   *)
(* of a partial write is forgotten.                                        *)
OnWrite_Backwards(m) ==
  /\ pc[m] = "written"
  /\ LET rest == SubSeq(Buf(m).bytes, moved[m] + 1, Len(Buf(m).bytes)) IN
       outputBuffers_' = [outputBuffers_ EXCEPT
         ![bufferValue[m]].bytes = rest,
         ![bufferValue[m]].headroom =
            IF rest = <<>> THEN kCheapPrepend ELSE @ - moved[m]]
  /\ Goto(m, "retrieved")
  /\ Handled(m)
  /\ UNCHANGED <<lock, it, bufferValue>>

OnWrite_NoReset(m) ==
  /\ pc[m] = "written"
  /\ LET rest == SubSeq(Buf(m).bytes, moved[m] + 1, Len(Buf(m).bytes)) IN
       outputBuffers_' = [outputBuffers_ EXCEPT
         ![bufferValue[m]].bytes = rest,
         ![bufferValue[m]].headroom = @ + moved[m]]
  /\ Goto(m, "retrieved")
  /\ Handled(m)
  /\ UNCHANGED <<lock, it, bufferValue>>

OnWrite_DropsRest(m) ==
  /\ pc[m] = "written"
  /\ outputBuffers_' = [outputBuffers_ EXCEPT
       ![bufferValue[m]].bytes = <<>>,
       ![bufferValue[m]].headroom = kCheapPrepend]
  /\ Goto(m, "retrieved")
  /\ Handled(m)
  /\ UNCHANGED <<lock, it, bufferValue>>

(* on_write without one: retrieve(bytes_transferred) ...                   *)
OnWrite(m) ==
  /\ pc[m] = "written"
  /\ LET rest == SubSeq(Buf(m).bytes, moved[m] + 1, Len(Buf(m).bytes)) IN
       outputBuffers_' = [outputBuffers_ EXCEPT
         ![bufferValue[m]].bytes = rest,
         ![bufferValue[m]].headroom =
            IF rest = <<>> THEN kCheapPrepend ELSE @ + moved[m]]
  /\ Goto(m, "retrieved")
  /\ Handled(m)
  /\ UNCHANGED <<lock, it, bufferValue>>

(* Mutant: everything is written again.                                    *)
Resubmit_Whole(m) ==
  /\ pc[m] = "retrieved"
  /\ Buf(m).bytes # <<>>
  /\ queue' = Append(queue, m)
  /\ Goto(m, "queued")
  /\ UNCHANGED <<lock, outputBuffers_, it, bufferValue, region, moved, wire,
                 up, order, overlap>>

(* ... and either another write for the rest ...                           *)
Resubmit(m) ==
  /\ pc[m] = "retrieved"
  /\ Buf(m).bytes # <<>>
  /\ AsyncWriteSome(m)
  /\ UNCHANGED <<lock, outputBuffers_, it, bufferValue, moved, wire, up,
                 order, overlap>>

(* ... or the buffer goes back to the pool, without the mutex.             *)
Release(m) ==
  /\ pc[m] = "retrieved"
  /\ Buf(m).bytes = <<>>
  /\ outputBuffers_' = [outputBuffers_ EXCEPT ![bufferValue[m]].valid = TRUE]
  /\ Goto(m, "done")
  /\ UNCHANGED <<lock, it, bufferValue, socketVars>>

SendStep(m) ==
  \/ Lock(m) \/ Scan(m) \/ Take(m) \/ Emplace(m)
  \/ Serialize(m) \/ Prepend(m) \/ Submit(m)

WriteStep(m) ==
  \/ \E n \in 1 .. Len(region[m]) : Transfer(m, n)
  \/ OnWriteError(m) \/ OnWrite(m) \/ Resubmit(m) \/ Release(m)

Next ==
  \/ \E m \in Message : Call(m) \/ SendStep(m) \/ WriteStep(m)
  \/ Break

(* While a thread that runs, the socket or a queued handler can go on, one *)
(* of them does.  Every such step brings its message on, so that no more   *)
(* is needed: which one it is does not matter.                             *)
Fairness == WF_vars(\E m \in Message : SendStep(m) \/ WriteStep(m))

Spec == Init /\ [][Next]_vars

FairSpec == Spec /\ Fairness

-----------------------------------------------------------------------------
(* Every variable has its type; the headroom of a buffer, a size_t in the  *)
(* code, never goes below zero.                                            *)
TypeOK ==
  /\ lock \in Message \cup {NoMessage}
  /\ outputBuffers_ \in
       Seq([valid : BOOLEAN, headroom : Nat, bytes : Seq(Message \X Nat)])
  /\ pc \in [Message -> Holding \cup {"idle", "lock", "scan", "take", "done"}]
  /\ it \in [Message -> Nat \ {0}]
  /\ bufferValue \in [Message -> Nat]
  /\ region \in [Message -> Seq(Message \X Nat)]
  /\ moved \in [Message -> Nat]
  /\ queue \in Seq(Message)
  /\ wire \in Seq(Message \X Nat)
  /\ up \in BOOLEAN
  /\ order \in Seq(Message)
  /\ overlap \in BOOLEAN

(* A buffer is never in two hands: two calls between taking a buffer and   *)
(* giving it back, or one call and a handler, never share one, although    *)
(* on_write gives buffers back without the mutex.                          *)
Exclusive ==
  \A m, n \in Message :
    m # n /\ pc[m] \in Holding /\ pc[n] \in Holding =>
      bufferValue[m] # bufferValue[n]

(* The pool is accounted for: a valid buffer is empty, has its headroom    *)
(* back and is in nobody's hands; a buffer that is not valid is in the     *)
(* hands of a call that is under way or whose write failed.                *)
PoolAccounted ==
  \A b \in DOMAIN outputBuffers_ :
    LET users == {m \in Message : pc[m] \in Holding /\ bufferValue[m] = b}
    IN  IF outputBuffers_[b].valid
        THEN /\ users = {}
             /\ outputBuffers_[b].bytes = <<>>
             /\ outputBuffers_[b].headroom = kCheapPrepend
        ELSE users # {}

(* The asserts of Buffer that the codec relies on: there is headroom for   *)
(* the length, and on_write retrieves no more than there is.               *)
AssertsHold ==
  \A m \in Message :
    /\ pc[m] = "prepend" => IntBytes <= Buf(m).headroom
    /\ pc[m] = "written" => moved[m] <= Len(Buf(m).bytes)

(* The memory an outstanding write points to is not touched: it is still   *)
(* all that the buffer holds when the socket reads it and afterwards.      *)
RegionStable ==
  \A m \in Message :
    pc[m] \in {"queued", "written"} => region[m] = Buf(m).bytes

(* The first n bytes of the frame of m have left, each once and in order,  *)
(* and no others of it.                                                    *)
HasLeft(m, n) ==
  LET left == {k \in DOMAIN wire : wire[k][1] = m}
  IN  /\ {wire[k][2] : k \in left} = 1 .. n
      /\ \A j, k \in left : j < k => wire[j][2] < wire[k][2]

(* However the socket splits the writes and the threads interleave, what   *)
(* has left of a message and what still waits in its buffer make up its    *)
(* frame, each byte once and in order; when the buffer is given back all   *)
(* of it has left.                                                         *)
FramesIntact ==
  \A m \in Message :
    \E n \in 0 .. FrameLen(m) :
      /\ HasLeft(m, n)
      /\ pc[m] \in {"submit", "queued", "written", "retrieved", "lost"} =>
           Kept(m) = SubSeq(Frame(m), n + 1, FrameLen(m))
      /\ pc[m] = "done" => n = FrameLen(m)

(* The wire is a prefix of the frames in the order of their first write,   *)
(* unless a write of another message was outstanding, or begun, while the  *)
(* rest of a half-sent frame had not been submitted again.                 *)
Contiguous ==
  ~ overlap =>
    IsPrefix(wire, FlattenSeq([i \in 1 .. Len(order) |-> Frame(order[i])]))

(* Every message that is handed to the codec leaves completely, or its     *)
(* write fails because the connection is gone: however calls overlap,      *)
(* there comes a moment when none of them is under way.                    *)
Settles ==
  []<>(\A m \in Message :
         pc[m] \in {"idle", "done"} \/ (pc[m] = "lost" /\ ~ up))
=============================================================================
