----------------------------- MODULE ChatSession -----------------------------
(***************************************************************************)
(* The sending half of class session of the chat server: sendMessage and   *)
(* on_write around one outputBuffer_, which is the buffer of Buffer.tla.   *)
(* The chat client and both ends of asio_rpc_practice send the same way.   *)
(*                                                                         *)
(* In the server, with one thread (its default), sendMessage and the       *)
(* handlers do not interleave, but several messages may be sent before the *)
(* handler of the first one runs: one read delivers several messages, each *)
(* of which is broadcast.  In the chat client the main thread sends while  *)
(* another one runs the handlers, and nothing keeps sendMessage and        *)
(* on_write from using outputBuffer_ at the same time.  The socket reads   *)
(* the memory of a write at any time after it was started.                 *)
(***************************************************************************)
EXTENDS Integers, SequencesExt

CONSTANTS
  Message,         \* the messages that are sent, by number
  BodyLen,         \* length of each, at least 1
  Span,            \* more than the length of any frame
  IntBytes,        \* sizeof(int32_t)
  Base, kCheapPrepend, kInitialSize, IntWidths, MaxChunk, MaxContent

ASSUME ChatAssumption ==
  /\ Message \subseteq Nat \ {0}
  /\ BodyLen \in [Message -> Nat \ {0}]
  /\ IntBytes \in Nat \ {0}
  /\ kCheapPrepend \in Nat /\ IntBytes <= kCheapPrepend
  /\ kInitialSize \in Nat
  /\ Span \in Nat
  /\ \A m \in Message : IntBytes + BodyLen[m] < Span

VARIABLES
  ownThread,       \* sendMessage has another thread than the handlers
  buffer_, readerIndex_, writerIndex_, result,     \* outputBuffer_
  memory,          \* counts the reallocations of its vector
  sending,         \* where the call of sendMessage for each message is
  outstanding,     \* outstanding writes, oldest first: what they point to
  handlers,        \* bytes of the writes whose on_write has not run
  wire,            \* every byte that has left, in order
  up,              \* the connection still takes bytes
  closed,          \* disCb_ was called: the server has erased the session
  failed,          \* the assert that has stopped the program, or a race
  order,           \* history: the messages in the order they were sent
  overlap          \* history: a message was sent while a write was pending

output == <<buffer_, readerIndex_, writerIndex_, result>>
sessionVars == <<ownThread, output, memory, sending, outstanding, handlers,
                 wire, up, closed, failed, order, overlap>>

Out == INSTANCE Buffer

-----------------------------------------------------------------------------
(* The i-th byte of the frame of m, told apart from every other.           *)
ByteOf(m, i) == Span * m + i

Frame(m) == [i \in 1 .. IntBytes + BodyLen[m] |-> ByteOf(m, i)]
Length(m) == SubSeq(Frame(m), 1, IntBytes)
Body(m) == SubSeq(Frame(m), IntBytes + 1, IntBytes + BodyLen[m])

(* The thread of the io_context is free for another handler or call.       *)
Free == failed = "none" /\ \A m \in Message : sending[m] # "prepend"

Pending == outstanding # <<>> \/ handlers # <<>>

(* async_write_some of all that is readable once the step is taken.        *)
AsyncWriteSome ==
  outstanding' = Append(outstanding, [at |-> readerIndex_',
                                      len |-> writerIndex_' - readerIndex_',
                                      memory |-> memory'])

(* What a write reads from memory that was given back.                     *)
Stale == -1

(* The bytes a write reads, when the socket performs it.                   *)
Memory(w) ==
  [i \in 1 .. w.len |-> IF w.memory = memory THEN buffer_[w.at + i] ELSE Stale]

SessionInit ==
  /\ ownThread \in BOOLEAN
  /\ Out!Init
  /\ memory = 0
  /\ sending = [m \in Message |-> "idle"]
  /\ outstanding = <<>>
  /\ handlers = <<>>
  /\ wire = <<>>
  /\ up = TRUE
  /\ closed = FALSE
  /\ failed = "none"
  /\ order = <<>>
  /\ overlap = FALSE

-----------------------------------------------------------------------------
(* sendMessage: append the text, which may have to grow the vector ...     *)
AppendBody(m) ==
  /\ Free
  /\ sending[m] = "idle"
  /\ ~ closed
  /\ Out!append(Body(m))
  /\ memory' \in IF Len(buffer_') = Len(buffer_) THEN {memory}
                 ELSE {memory, memory + 1}
  /\ sending' = [sending EXCEPT ![m] = "prepend"]
  /\ order' = Append(order, m)
  /\ overlap' = (overlap \/ Pending)
  /\ UNCHANGED <<ownThread, outstanding, handlers, wire, up, closed, failed>>

(* Mutant: the write is started before the length is in front.             *)
Prepend_TooLate(m) ==
  /\ failed = "none"
  /\ sending[m] = "prepend"
  /\ Out!prepend(Length(m))
  /\ outstanding' = Append(outstanding, [at |-> readerIndex_,
                                         len |-> Out!readableBytes,
                                         memory |-> memory])
  /\ sending' = [sending EXCEPT ![m] = "sent"]
  /\ UNCHANGED <<ownThread, memory, handlers, wire, up, closed, failed, order,
                 overlap>>

(* ... put its length in front and start a write of all there is ...       *)
Prepend(m) ==
  /\ failed = "none"
  /\ sending[m] = "prepend"
  /\ Out!prepend(Length(m))
  /\ UNCHANGED memory
  /\ AsyncWriteSome
  /\ sending' = [sending EXCEPT ![m] = "sent"]
  /\ UNCHANGED <<ownThread, handlers, wire, up, closed, failed, order,
                 overlap>>

(* ... unless the assert of Buffer::prepend fails.                         *)
PrependFails(m) ==
  /\ failed = "none"
  /\ sending[m] = "prepend"
  /\ Len(Length(m)) > Out!prependableBytes
  /\ failed' = "prepend"
  /\ UNCHANGED <<ownThread, output, memory, sending, outstanding, handlers,
                 wire, up, closed, order, overlap>>

-----------------------------------------------------------------------------
(* The socket performs its oldest write, or a part of it.                  *)
Transfer ==
  /\ up /\ failed = "none"
  /\ outstanding # <<>>
  /\ \E n \in 1 .. Head(outstanding).len :
       /\ wire' = wire \o SubSeq(Memory(Head(outstanding)), 1, n)
       /\ handlers' = Append(handlers, n)
  /\ outstanding' = Tail(outstanding)
  /\ UNCHANGED <<ownThread, output, memory, sending, up, closed, failed,
                 order, overlap>>

BreakOff ==
  /\ up /\ failed = "none"
  /\ up' = FALSE
  /\ UNCHANGED <<ownThread, output, memory, sending, outstanding, handlers,
                 wire, closed, failed, order, overlap>>

(* on_write with an error: disCb_.  The other programs shut their socket   *)
(* down instead, which throws if it has lost its connection and ends them; *)
(* nothing they send after that leaves, and it is not modelled.            *)
on_write_error ==
  /\ Free
  /\ ~ up
  /\ handlers = <<>> /\ outstanding # <<>>
  /\ outstanding' = Tail(outstanding)
  /\ closed' = TRUE
  /\ UNCHANGED <<ownThread, output, memory, sending, handlers, wire, up,
                 failed, order, overlap>>

(* Mutants: everything is retrieved; the rest of a partial write is not    *)
(* written.                                                                *)
on_write_RetrievesAll ==
  /\ Free
  /\ handlers # <<>>
  /\ Out!retrieveAll
  /\ handlers' = Tail(handlers)
  /\ UNCHANGED <<ownThread, memory, outstanding, sending, wire, up, closed,
                 failed, order, overlap>>

on_write_DropsRest ==
  /\ Free
  /\ handlers # <<>>
  /\ Out!retrieve(Head(handlers))
  /\ handlers' = Tail(handlers)
  /\ UNCHANGED <<ownThread, memory, outstanding, sending, wire, up, closed,
                 failed, order, overlap>>

(* on_write: what was sent is retrieved; a write of the rest is started ...*)
on_write ==
  /\ Free
  /\ handlers # <<>>
  /\ Out!retrieve(Head(handlers))
  /\ UNCHANGED memory
  /\ handlers' = Tail(handlers)
  /\ IF writerIndex_' > readerIndex_' THEN AsyncWriteSome
     ELSE UNCHANGED outstanding
  /\ UNCHANGED <<ownThread, sending, wire, up, closed, failed, order,
                 overlap>>

(* ... unless the assert of Buffer::retrieve fails.                        *)
RetrieveFails ==
  /\ Free
  /\ handlers # <<>>
  /\ Head(handlers) > Out!readableBytes
  /\ failed' = "retrieve"
  /\ UNCHANGED <<ownThread, output, memory, sending, outstanding, handlers,
                 wire, up, closed, order, overlap>>

(* sendMessage and on_write are in the buffer at once: a data race, after  *)
(* which nothing is said.                                                  *)
Race ==
  /\ ownThread /\ failed = "none"
  /\ handlers # <<>>
  /\ \E m \in Message : sending[m] = "prepend"
  /\ failed' = "race"
  /\ UNCHANGED <<ownThread, output, memory, sending, outstanding, handlers,
                 wire, up, closed, order, overlap>>

SessionNext ==
  \/ \E m \in Message : AppendBody(m) \/ Prepend(m) \/ PrependFails(m)
  \/ Transfer \/ BreakOff \/ on_write_error \/ on_write \/ RetrieveFails \/ Race

SessionSpec == SessionInit /\ [][SessionNext]_sessionVars

(* The thread runs what is ready, and the socket performs its writes.      *)
SessionFairSpec ==
  /\ SessionSpec
  /\ WF_sessionVars(\E m \in Message : Prepend(m) \/ PrependFails(m))
  /\ WF_sessionVars(Transfer)
  /\ WF_sessionVars(on_write_error \/ on_write \/ RetrieveFails)

-----------------------------------------------------------------------------
Frames == FlattenSeq([i \in 1 .. Len(order) |-> Frame(order[i])])

(* As long as no message is sent before the write of the one before it has *)
(* been handled, the wire is the frames in the order they were sent, no    *)
(* write reads memory that was given back, no assert of the buffer fails,  *)
(* and no two threads use it at once.                                      *)
WholeFrames ==
  ~ overlap => IsPrefix(wire, Frames) /\ failed = "none"

(* Then, too, the wire and the buffer together hold everything that was    *)
(* sent: between a write and its handler the bytes are in both.            *)
NothingLost ==
  ~ overlap /\ Free =>
    LET handled == Len(wire) - IF handlers = <<>> THEN 0 ELSE Head(handlers)
    IN  Frames = SubSeq(wire, 1, handled) \o Out!Readable

(* A message leaves completely, unless the connection is lost, an assert   *)
(* fails or messages overlap.                                              *)
Leaves ==
  \A m \in Message :
    sending[m] = "prepend" ~>
      \/ overlap \/ ~ up
      \/ sending[m] = "sent" /\ Len(wire) = Len(Frames)

(* The assert of Buffer::prepend, assert( len <= prependableBytes() ):     *)
(* there is always headroom for the length.  (There is for two messages.)  *)
PrependFits ==
  \A m \in Message : sending[m] = "prepend" => IntBytes <= Out!prependableBytes
=============================================================================
