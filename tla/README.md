# boost_practice in TLA+

The repository holds four small network programs on Boost.Asio. The centre is
`proto_rpc`, an RPC library that sends protobuf messages over TCP; the others
are a chat (`asio_practice_1`), an earlier RPC without a library
(`asio_rpc_practice`) and an HTTP file server on Boost.Beast
(`beast_practice-1`). The first three share one class, `Buffer`.

This directory models what these programs do with bytes, threads and handlers:
TLA+ modules, TLC runs over small instances, and theorems checked by TLAPS for
every value of the constants. Paths below are relative to `src/`.

## 1. Inventory

| component | source | state | operations |
|---|---|---|---|
| Buffer | `*/common/Buffer.h` (three equal copies) | vector, reader index, writer index | append, prepend, retrieve, peek/read/append/prepend of integers, unwrite, shrink, makeSpace |
| codec, sending | `proto_rpc/lib/rpc_codec.cpp` 55-118 | pool of output buffers with a `valid` flag, its mutex | `send_rpc_msg` (any thread), `on_write` |
| codec, receiving | `rpc_codec.cpp` 15-53 | input buffer | `on_read`, checksum |
| rpc_session | `proto_rpc/lib/rpc_session.cpp` | table of waiting calls, its mutex, next id, services, socket, timer | `CallMethod`, `on_rpc_callback`, `done_callback`, `do_read`/`on_read`, `disconnect`, `time_out` |
| rpc_server | `proto_rpc/lib/rpc_server.cpp` | list of sessions, services, threads | `run`, `stop`, `on_accept`, `on_session_over`, `registerService` |
| rpc_client | `proto_rpc/lib/rpc_client.hpp` | session, stub, timer | `connect`, `on_connect`, `disconnect`, `on_session_over` |
| chat session, client | `asio_practice_1/tcp_server_1/session.cpp`, `tcp_client_1/boost_client_async.cpp` | one input and one output buffer | `sendMessage`, `on_write`, `on_read` |
| chat server | `tcp_server_1/boost_server_async.cpp` | vector of sessions, mutex | accept, broadcast, disconnect |
| asio_rpc | `asio_rpc_practice/*` | as the chat, and a map of waiting calls | `CallMethod`, `on_send`, `on_read`, `doneCallback` |
| HTTP server | `beast_practice-1/beast_practice/*` | parser, buffer | accept; read, handle, write, close or read again |

How they interact. A thread that calls a stub enters its callback in the table
of its `rpc_session` and hands a message to the codec, which takes an output
buffer from the pool, frames the message in it and starts an asynchronous write
that points into the buffer; `on_write` runs on some thread of the `io_context`
and either starts a write of the rest or gives the buffer back. On the other
side `on_read` collects bytes, cuts frames, and calls `on_rpc_callback`, which
runs a service or finds the waiting call. Server and client hold the sessions
and are told when one is over.

What is hard here, and what would make each part right:

* *Buffer*: a long mix of legal calls, with data moved to the front or the
  vector grown; indices stay in order, no byte is lost, the vector is bounded.
* *Sending*: any number of threads, buffers given back without the mutex,
  writes that move a part of what they were given, a connection that breaks; a
  buffer is in one hand, the memory of a write does not change, every frame
  leaves once and whole.
* *Receiving*: frames cut at any byte; each is delivered once, in order, as soon
  as it is complete, and a damaged one costs no other.
* *Sessions*: requests and responses of both directions on one connection,
  answered in any order, by any thread, with ids that wrap around, and ended by
  either end or by the network; a response finds its call, a closure runs at
  most once and with its own result, and no call waits for ever.
* *HTTP*: requests that arrive together or behind one that ends the session, and
  clients that leave at any moment; a client stays in step with the responses.
* *Server, client*: accept against the end of a session, connect against its
  timeout, several threads in one `io_context`.
* *Chat, asio_rpc*: one output buffer, written to while a write is outstanding.

`PROJECT.json` lists these hazards at their lines, with the properties that
cover each, or why none does yet.

## 2. Modules

    NetInt ── ByteQueue               RpcSend ────┬── RpcCodecProofs
       └───── Buffer ── BufferProofs  RpcReceive ─┘
                 └── ChatSession ─┬── ChatProofs
                     ChatServer ──┘   RpcServer ── RpcServerProofs
    Rpc ──┬── RpcSession ── RpcClient ── RpcSessionProofs
          └── AsioRpc ── AsioRpcProofs
                                      HttpServer ── HttpServerProofs

Every `*Proofs` module builds on `SequenceLemmas`. Where two modules are extended by one `*Proofs` module, those of one are named for it
(`ReadSpec` of `RpcReceive`, `SessionSpec` of `ChatSession`).

| module | models | run through |
|---|---|---|
| `NetInt` | the integers in network byte order: digits of base `Base`, two's complement | `MCBuffer` |
| `ByteQueue` | what a Buffer promises: a queue of bytes with headroom | `MCBuffer` |
| `Buffer` | class Buffer; implements `ByteQueue` | `MCBuffer` |
| `RpcSend` | `send_rpc_msg`, `on_write`, the pool, the socket's queue of writes | `MCRpcSend` |
| `RpcReceive` | `on_read` and `validate_checksum`; the same loop in the chat and in `asio_rpc_practice` | `MCRpcReceive` |
| `Rpc` | what a remote call promises, abstractly | `MCRpcClient`, `MCAsioRpc` |
| `RpcSession` | two sessions that call each other; implements `Rpc` | `MCRpcClient`, `MCRpcSession` |
| `RpcClient` | `rpc_client`: connect, timeout, handshake and `run()`, composed with `RpcSession` | `MCRpcClient` |
| `RpcServer` | the threads of `rpc_server`, its vector of sessions, `stop` | `MCRpcServer` |
| `ChatSession` | `sendMessage` and `on_write` of the chat, with a Buffer inside | `MCChatSession` |
| `ChatServer` | `boost_server`: accept, broadcast, disconnect, and the lifetime of its sessions | `MCChatServer` |
| `AsioRpc` | client and session of `asio_rpc_practice`; implements `Rpc` | `MCAsioRpc` |
| `HttpServer` | listener and `http_session` of `beast_practice-1`, and their clients | `MCHttpServer` |
| `BufferProofs`, `RpcServerProofs`, `AsioRpcProofs`, `HttpServerProofs` | theorems about the module of that name | TLAPS |
| `ChatProofs` | theorems about `ChatServer` and `ChatSession` | TLAPS |
| `RpcCodecProofs` | theorems about `RpcSend` and `RpcReceive` | TLAPS |
| `RpcSessionProofs` | theorems about `RpcSession` and, by way of its steps, about `RpcClient` | TLAPS |
| `SequenceLemmas` | sequences without repetitions, sequences joined in a row, windows, induction | TLAPS |

### Buffer

`buffer_`, `readerIndex_` and `writerIndex_` are the fields; `result` is what
the last reading operation returned, so that the refinement can speak of it.
There is an action for each public operation that changes the buffer; the four
widths of each integer operation are one action with a parameter. An assert
about an argument is the guard of the action (the caller's duty); an assert
about the buffer's own state is part of an invariant. `Roomy` is
`ensureWritableBytes` with `makeSpace`; every operation that needs room contains
it, and `MakeSpaceSafe` is what it must leave behind in every reachable state:
the room, the same bytes, and indices that its asserts ask for. `MaxContent` is the only cap: no caller keeps more than that in the buffer.
Vector capacity and reallocation are not state here.

`QueueSpec` is the refinement: `content` is what lies between the indices,
`headroom` is the reader index. Making room may bring the headroom back to
nominal, which is all a caller can notice of a move.

### RpcSend

A process is a message: the call of `send_rpc_msg` that sends it and the
handlers that follow. Its `pc` goes through lock, scan (one entry of the pool at
a time), take, serialize, prepend, submit, then queued (a write is outstanding),
written (the socket has moved some bytes, the handler has not run), retrieved,
and back to queued or to done; lost after an error. `Release` is `valid = true`
without the mutex, and may fall between any two steps of a scan. A buffer is its
abstract value, content and headroom, as proved of `Buffer`. The socket
(`queue`, `Transfer`, `Break`) is external: writes are performed in the order
they were started, each moves one byte or more, and the next may be performed
before the handler of the last one runs.

C++ calls the unlocked store of `valid` a data race. The model performs stores
in program order, as an x86-64 build does.

### RpcReceive

A byte is named by its frame and its place in it. `on_read` takes a chunk of any
length up to `ReadSize` and runs the whole loop; `Turn` is one turn of it. A
damaged frame differs in its body or checksum, not in its length field: the code
has no way to find the next frame after a wrong length. `InOrder` is about the
codec: it goes on behind a damaged frame, but the session it reports to does not
(see 5).

The variable `framing` chooses among the three programs that have this loop:
`rpc` has a checksum and asks for a whole shortest frame, `chat`
(`session.cpp`, `boost_client_async.cpp`) asks for more bytes than a length, so
that an empty message waits for the next byte to arrive, and `asio`
(`asio_rpc_practice`) has no checksum either. `Prompt` states that one
exception and no other.

The specification is `ReadSpec` and the size of an int32_t `SizeofInt32`, names
that `RpcSend` does not have, so that `RpcCodecProofs` extends both halves.

### RpcSession

Both ends run the same code: each end calls the other and serves it. The codec
and the connection are a FIFO of messages in each direction. A call is a process
with the three steps of `CallMethod` that other threads can come between: take
an id, enter the callback, send. `OnRequest`, `OnResponse` and `OnDamaged` are
the three branches of `on_rpc_callback`; `ServiceDone` is `done_callback`, run
by the service at any later time (the example runs it inside the handler, which
is the case where nothing comes between). What a request finds (a service, no
service, no method, no parse) is fixed by the constant `Resolve`. A call's
message carries the call as its payload, so that the histories `answer`, `runs`
and `serves` can tell whose result reached whose closure and how often a service
ran; the program itself goes by the id. `shared` records calls whose id was
given to another while they waited, after `id_` wrapped around.

A damaged message makes the receiver dereference a null pointer
(`rpc_session.cpp:265`); the model takes the outcome to be that the program of
that end stops (`gone`) and its end of the connection closes.

`timeOut_` is not a variable: `do_read` sets it and `on_read` cancels it, but
nothing waits on it, so that it changes nothing else.

`RpcSpec` is the refinement of `Rpc`: the stage of a call is worked out from its
`pc`, its entry in the table and the histories. A service that runs twice, a
closure with another call's result and a closure after an error are no stage of
`Rpc`, so that the refinement rules them out; a call that is not heard of again
stays at its stage.

### RpcClient

`rpc_client` is one end of `RpcSession`. `phase` is how far it is (connecting,
in the handshake, up, returned from `run()`), `socket` what has become of
`async_connect`, `timeOut_` whether the two-second timer waits or its handler is
queued. `cancel()` takes back a wait, not a handler that is queued: `on_connect`
may come when the two seconds are over, and then the handler stops the
`io_context` under a session that has just been set up. `late` remembers that.
The session's steps are taken only while the client is up, and the end of the
session stops the `io_context` (`StopWhenOver`). The handshake has no timeout of
its own: the model lets it be outstanding for ever, and no property says that
it ends.

### RpcServer

A process is a thread in `ioc_.run()`. `pc` is its place in the handler it runs:
on_accept goes from `accepted` through the mutex to `push`, on_session_over
through `search` (`std::find`) to `erase`. Each vector operation is one step.
Undefined behaviour is a history: a thread between its search and its erase is
`stale` once another thread has changed the vector, and using the iterator, or
changing the vector while it is searched, makes it `corrupt`, after which
nothing is said. `missed` has the sessions that were over before they were
pushed. `threads_` is fixed by the first state, as `threadNum_` is. `lockedErase`
chooses the server in `asio_rpc_practice/server/boost_async.cpp`: it holds the
mutex from search to erase, has neither SSL nor `stop()`, and accepts no more
after an `on_accept` with an error, if its `shutdown` does not throw
(`OnAcceptError`); `rpc_server` then just accepts again. A session here is in its handshake (with `ssl`), running, refused or
over; `RpcSession` is its inside. A session whose handshake fails is told to
nobody and stays in the vector. `remote_endpoint()` in `on_accept` throws when
the peer is gone already; nothing catches that (`OnAcceptThrows`).
`stop()` is called from outside of the threads; from a handler it would join
its own thread.

### ChatSession

One output buffer, an INSTANCE of `Buffer`. A write holds the place and length
it points to, and reads memory when the socket performs it; memory given back by
a reallocation reads as `Stale`. `ownThread` tells the two programs apart. In the
server one thread (the default) runs the sends and the handlers; in the client
the main thread sends and another runs the handlers, so that both may be in
the buffer at once (`Race`), after which nothing is said. The asserts of
`prepend` and `retrieve` stop the program.

### ChatServer

Sessions as the server sees them: a read, some outstanding writes, a place in
the vector. `Alive` says what holds a session: the vector, each outstanding
write and its handler (`shared_from_this()`, `session.cpp:80`), `on_accept`
while it runs. A read does not (`this`, line 62). When nothing holds a session
any more its socket cancels the read, whose handler then runs on freed memory
(`OnReadFreed`). `remote_endpoint()` in `on_accept` throws when the peer has gone
already, and ends the program (`OnAcceptThrows`). A broadcast is one step per
session; `ended` becomes `iterator` or
`buffer` when the other thread changes the vector, or uses the same output
buffer, meanwhile. Push and erase are single steps because both hold `mutex_`.

### AsioRpc

A process is a call: `SetId` and `FetchAdd` are the two halves of lines 123-124
of `rpc_client.cpp`; `CallMethod`, `on_send` and a turn of `on_read` hold
`mutex_` and are one step each. `together` says whether several threads call;
the program has one. The output buffers of both ends are `ChatSession`'s: a
message sent during a write garbles the connection, after which nothing is said.
The client starts before its connection is made (`OnConnect`); the main thread
may call already. Each of the four handlers with an error has an action,
`ClientError` (on_read), `OnSendError`, `ServerError` (on_read) and
`OnWriteError`, and each has two outcomes, because `shutdown` throws on a socket
that is no longer connected and nothing catches the exception. A client that
reads no more is `over` while a write is outstanding and then `ended`:
`ioc.run()` has returned, and what is called later is never handled.
The list of sessions of this server is `RpcServer` with `lockedErase`.
`RpcSpec` is the refinement of `Rpc`; calls that have the same id are `shared`.

### HttpServer

A session is where its one outstanding operation is: a read, a write, or the
handler behind it. What a client sends waits in the kernel (`unread`) until a read
takes it; one read may take several requests (`buffer_`), and the next read is
then served from there. A request is a record of what the code branches on:
the method, what becomes of its target, and whether it keeps the connection.
A response is a header and, if it has one, a body, so that a client can get out
of step. When a handler starts no operation the session is destroyed; TCP
answers what it has not read, or is sent later, with a reset, which may
overtake responses on their way (`ResetByServer`, external as the client is).
`unread` and `buffer_` hold requests by their numbers, and `req` is the one that
`on_read` has taken from `buffer_`: a response is computed from that request and
labelled with it, so that a session which lost or repeated one would answer out
of step.

Facts of the code that the model keeps: a HEAD request is answered with the body
of the file; a file that cannot be opened for another reason than its absence
is answered with an empty body; `shutdown` in the handler of end_of_stream is
the throwing one, so that a lost connection may end the program; after SIGINT
`main` returns without joining its threads, which terminates the program if it
has any. `body_limit(1000)` in `do_read` is not modelled because it has no
effect: `async_read` is given the parser's message, not the parser.

## 3. Runs

| run | instance | checks | shows |
|---|---|---|---|
| `buffer` | bytes of two values, widths 1 and 2, headroom 2, first size 1, up to 3 bytes kept | `TypeOK`, `IndexOrder`, `MakeSpaceSafe`, `Bounded`, `IntRoundTrip`, `QueueSpec` | every operation, growth, moves and shrinks, in any order |
| `rpc_send` | 3 messages, one longer | `TypeOK`, `Exclusive`, `PoolAccounted`, `AssertsHold`, `RegionStable`, `FramesIntact`, `Contiguous`, `Settles` | three threads at once, a pool that grows to three, partial writes, a break at any point; every message leaves or fails |
| `rpc_receive` | up to 3 frames with 0, 1 or 3 bytes, damaged or not, reads of 1 to 6 bytes, three framings | `InOrder`, `Prompt` | reads shorter and longer than a frame, several frames in one read |
| `rpc_session` | a client a: 3 calls (one names no method, one may be damaged, one has an empty result); a server b: 1 call; 2 ids; with SSL | `ClientTypeOK`, `OneCopy`, `EntryFound`, `RpcSpec`, `Settles`, `NotCutOff`, `ConnectEnds` | connect against its timer; ids reused while calls wait, both directions, disconnects, loss; no call is forgotten |
| `rpc_session_checksum` | two sessions, 4 calls | `ChecksumAnswered` | violated, see 5 |
| `rpc_session_silence` | 3 calls | `SilenceEnds` | violated, see 5 |
| `rpc_server` | 1 or 2 threads, with and without `lockedErase` and SSL, 3 connections | `TypeOK`, `Registry`, `NotCorrupt`, `Erased`, `StopEnds` | accept, handshake, push, search and erase in any order, stop at any time |
| `chat_server` | 1 or 2 threads, 3 connections, 2 messages | `ReadOutlives`, `EveryoneElse`, `Listening` | accept, broadcast, broken connections and erase in any order |
| `asio_rpc` | 3 calls of one thread or several | `OwnEntry`, `RpcSpec`, `Answered` | calls and answers in any order, lost connections |
| `chat_session` | 3 messages, headroom for two lengths as in the code, one thread or two | `WholeFrames`, `NothingLost`, `Leaves` | sends at any time, partial writes, reallocation, break, a race |
| `chat_session_prepend` | 3 messages | `PrependFits` | violated, see 5 |
| `http_server` | 1 client, 3 requests of eight kinds, 2 threads | `InStep`, `NotOvertaken`, `Served` | pipelined requests, a client that leaves or is lost, resets, the end of the program |

Why the bounds are enough. For the buffer, every branch of `makeSpace` and
`retrieve` depends on comparisons between room, headroom and request; a headroom
of 2 and requests of 0 to 2 reach each on both sides and at equality, and the
proofs cover all other values. For the codec, three processes are the least
that show a buffer given back during a scan while a third holds another;
`Exclusive` and the rest are proved for any number. For receiving, three frames
include one that is first, last and between others. For sessions, three calls
with two ids are the least with a wrap-around onto a waiting call and a third
bystander. For the server, two threads and three sessions let one handler push or
erase between the search and the erase of another, before and behind its place;
three connections are the only cap there. The chat server is the same
with two messages, so that two broadcasts can meet. Three calls of `asio_rpc` let
two share an id while a third is answered. For the chat, the fault needs three
messages. One HTTP client is enough because sessions share nothing but the
program that ends under them, and three requests let one be answered while the
next waits in `buffer_` and another in the kernel; the eight kinds reach every
branch of `handle_request`.

The runs other than `buffer` do not check for deadlock: there are finitely
many messages, frames and calls, and the system stops when they are done.

Properties that need a word:

* `Registry` allows a session that is over to stay in the vector when it is in
  `missed`, and `Erased` excuses it: with two threads the peer of a new
  connection can close it before `on_accept` has pushed the session
  (`rpc_server.cpp:118` runs it first). `Registry` shows that this takes two
  threads. It also says that a session whose handshake has failed stays.
  `NotCorrupt` says that one thread, or the mutex of `lockedErase`, is
  enough to keep iterators good; two threads without it are not.
* `ReadOutlives` is the exact condition of a fault that needs no second thread:
  when a write fails before the read, `on_session_disconnect` drops the last
  holder of a session whose read is still outstanding.
* `EveryoneElse` and `Listening` are for one thread, the default; with several a
  broadcast may meet an erase.
* `OwnEntry` (asio_rpc) excepts shared ids, and shows that sharing takes several
  calling threads.
* `Contiguous` holds only while no write of another message was outstanding
  or begun at the time the rest of a half-written frame was not yet submitted
  again. Nothing in the codec prevents that: it uses `async_write_some` and does
  not keep writes of one session apart. When it happens, frames interleave on
  the wire. The property says exactly when the wire is whole.
* `EntryFound` and `RpcSpec` except calls that share an id with one that waited.
  With 2^32 ids that takes a call that waits during 2^32 others.
* `RpcSpec` includes that no closure runs for an error and for an empty
  result: the caller of such a call is never told.
* `Settles` (sessions) counts a session that is over as an end; the calls in
  its table are then never answered, which is what the code does.
* `NotCutOff` gives the only reasons for which `run()` may return under a session:
  the session is over, a damaged message has ended the program, or `on_connect`
  came when the two seconds were already over.
* `InStep` and `NotOvertaken` name the two ways in which a client of the HTTP
  server gets something else than its responses: the body after a HEAD, and a
  reset when it has sent something behind the last request of its session.
* `WholeFrames` is for messages that do not overlap; it then also says that the
  two threads of the client do not meet in the buffer. The client does not wait
  for that.

Fairness. `rpc_send`, `rpc_session` and `http_server` each assume weak fairness
of the disjunction of the steps a program takes by itself, the least that a
scheduler and `io_context::run` give: while something can go on, something does.
It is enough because each such step brings a message, a call or a request nearer
to its end and there are finitely many of them. Not assumed: that a caller calls,
that a client sends, that `async_connect` or a handshake comes to an end, that
anything is lost, damaged, or closed. `rpc_session` includes that a service runs
its done closure in the end, which protobuf demands of services, and that time
passes (`Expire`); `http_server` that a client reads what has arrived.
`rpc_server` assumes that each thread goes on in its handler; there
are finitely many pushes, so that weak fairness also suffices for the mutex.
`asio_rpc` assumes that both programs run what is ready. `chat_session` assumes
the socket performs writes and the threads run what is ready.

## 4. Theorems

`BufferProofs`, for every headroom, initial size, set of widths, base and caps:

* `TypeCorrect`, `IndicesOrdered`, `SizeBounded`: the invariant
  `Inv == TypeOK /\ IndexOrder /\ Bounded` is inductive. The lower half of
  `Bounded` is needed: `retrieveAll` sends the indices back to `kCheapPrepend`,
  which is only inside the vector because it never shrinks below its first size.
  `MustResize` being false gives that a move goes towards the front and fits.
* `MakeSpaceAsserts` (`MakeSpaceSafe`): from `Inv`, what `makeSpace` leaves behind
  for every request: room, the same bytes, and, where it moves them, a place
  further to the front in a vector that has not grown.
* `ImplementsByteQueue`: `Spec => QueueSpec`, action by action; one lemma says
  that `Roomy` keeps the readable bytes where the caller finds them.
* `IntegersRoundTrip`: for bytes of any even number of values (256 in the code) and
  integers of any width, what is written is what is read, and the other way
  round. `Spells(f, ...)` names the numbers that the first digits, the first two
  and so on spell. `WrittenAsRead`: the k lower digits are the remainder by the
  k-th power (`UpperDigits`), so that each digit comes back by a quotient and a
  remainder. `ReadAsWritten`: the quotients of a number by falling powers are such
  numbers themselves, behind a front digit that is 0 or -1, its sign
  (`FrontDigit`). A power is a number that is spelt, 1 and zeros: nothing is
  known to the provers of `^`.

Assumed: `BufferAssumption` (headroom, initial size and caps are natural numbers,
widths at least one byte) and `BaseAssumption`.

`RpcCodecProofs`, first part, for any set of messages, body lengths, and a
headroom with room for one length:

* `TypeCorrect`, `BuffersExclusive`, `PoolIsAccounted`, `BufferAsserts`,
  `RegionsStable`. The inductive invariant is `Inv == TypeOK /\ Hands /\ Stages`.
  `Exclusive` alone is not inductive: `Hands` adds that the scanning call holds
  the mutex, that between seeing `valid` and clearing it nobody else can take
  the entry (only `Release`, by its owner, touches `valid` without the mutex,
  and it only sets it), and that a buffer that is not valid has an owner.
  `Stages` says what a buffer holds at each stage, which gives the asserts
  and the stability of the memory under a write.
* `FramesStayIntact`: the bytes of a frame reach the wire once each and in their
  order, whatever comes between them. `Whole` is the invariant behind it: what
  has left of a frame, and what its buffer (or the memory of its write) still
  holds, are its front and the rest of it. The property speaks of what is on the
  wire only, and would not survive a step without the other half.
* `WireContiguous`: as long as no write was begun behind a half-written frame,
  the frames are on the wire one behind the other, in the order of their first
  writes. The property says nothing of the queue of the socket, which decides
  what comes next; `Flow` does. While nothing overlaps, there are p and n so that
  (`InTurn`) the first p messages have left and n bytes of the next, each of the
  others waits in the queue in its turn with its whole frame in its buffer, and a
  message that is half sent is the last, with nobody behind it. After a break the
  wire is a beginning of the frames (`Follows`). One lemma per way in which p and n
  move: a write is begun, a part moves, a whole rest moves, the rest is begun
  again.

`RpcCodecProofs`, second part (`ReadSpec`), for any frames, sizes of messages and
of the read buffer, and all three framings:

* `FramesInOrder`, `FramesPrompt`. `InTime` describes the loop of `on_read` after
  any number of turns: what it has cut off are the next frames, each with the
  right error, and what is left, with what has still to arrive, is the stream
  from the next frame on. A turn keeps it (`TurnInTime`), since the first byte of
  the input names the frame whose length field it reads; the loop ends because a
  turn takes at least one byte (`DeframeInTime`, an induction over the turns). The
  same predicate with nothing delivered before it is the invariant of the
  specification, and `StopsInTime` says what the stopped loop leaves behind.

`RpcServerProofs`, for any set of threads and of connections:

* `TypeCorrect`, `RegistryKept`, `EraseSafe`. `Registry` is not inductive: a push
  is right only if the session is not in the vector yet, and an erase only if its
  iterator names the session of its thread. The invariant adds, in parts: which
  threads can be where (`Handlers`), who holds the mutex (`Locked`), that one
  session at a time is on its way into the vector (`OneArrives`) and that
  at most one thread takes a session out (`OnceOver`). `Vector` is the registry
  in terms of these; `Iterators` says what an iterator that is not stale
  names; `Single` that one thread misses nothing, and `Mutexed` that nothing is
  stale under `lockedErase`. `RemoveOnce` says what removing one place from a
  sequence without repetitions leaves.

`AsioRpcProofs`, for any set of calls, made by one thread or by several:

* `ImplementsRpc`: `Spec => RpcSpec`. The invariant says that ids that have been
  passed are below `id_` (so that only a call between its `SetId` and `FetchAdd`
  can share one), that a call is on the wire once, that each entry of the table
  is that of a call that waits under its id, and that a closure that has run
  had its own result unless its id is shared. Then `SetId` is a `Share` of `Rpc`,
  `CallMethod` a `Make`, the server's turn a `Serve`, the client's an `Answer` or
  an `AnswerShared`, or each a stutter.
* `TableRight`: with the same invariant and the one that calls of a single thread
  are made one by one.

`RpcSessionProofs`, for any set of calls, ends and of ids, two as well as 2^32:

* `NeverTwice` (`OneCopy`), `FindsEntry` (`EntryFound`). `Inv` is `TypeOK` and five
  parts. `Wire` and `Services`: a call is in one place, a request in the direction
  of its end before it is served, a response in the other one after. `Table`: an
  entry belongs to a call that has been entered, at its own end and under its own
  id, and has not run. `Kept`: a call that waits and shares no id has its entry,
  and who is in the table has nobody who shares beside it. `Ran`: a closure runs at most once.
  `Kept` needs both halves: the second lets a call that enters its callback find
  in the table the one call, or among those that share the ones, whose id it has.
* `SessionsAreRpc`: `Spec => RpcSpec`. Each step of a session is the step of `Rpc`
  for the one call that it moves, with a lemma per handler, or a stutter: sending,
  disconnecting and the loss of the connection move no call.
* `ClientIsRpc`, `ClientTypes`, `ClientNotCutOff`: the same of the composition
  with `rpc_client`, whose steps are steps of the sessions or leave them alone.
  `Alive` adds what each phase of the client says of its own end and of its timer:
  in the handshake and later, a handler of the timer that is queued was late; and
  `Unended`, which `ClientTypes` states too: until `run()` has returned, the
  client's session is not over and its program has not ended.

`ChatProofs`, first part, for any threads, connections and number of messages:

* `ReadsOutlive`, `ReachesEveryoneElse`, `AlwaysListening`. `Handlers` ties the
  place of a thread to the session it is about, `OneAtATime` keeps two handlers
  off one session (the strand) and two accepts apart, `Vector` has every session
  once. `Held` is what makes the first one inductive: not only a session whose read
  is outstanding must be held, but one whose broadcast will start the next read.
  `Reached` and `Listened` say, for one thread, how far a broadcast has come
  and why a session that is not read is not listened to.

`ChatProofs`, second part (`SessionSpec`), for any set of messages, body lengths, and
a headroom with room for one length, with one thread or two:

* `FramesWhole` (`WholeFrames`), `NoByteLost` (`NothingLost`). Neither is inductive:
  they do not say what the outstanding write points to, nor why there is room
  for a length. `Calm` does: as long as no message was sent while a write was
  pending, the buffer is in one of four phases. `Filling`: the text of one message is
  in the buffer at `kCheapPrepend`, everything before it has left. `Writing`: one
  write of just what is readable is outstanding, into memory that is still the
  vector's. `Written`: a part of it has left, and is still in the buffer. `Quiet`:
  nothing is under way, and the indices are back at `kCheapPrepend`, or the session is
  closed and keeps what it could not send. In the last three what has been
  retrieved and what is readable make up what was sent. `Appends`, `Prepends` and
  `Retrieves` are what the three operations of `Buffer` do where they are used here,
  with the lemmas on windows of a sequence below them; one lemma for each action
  says which phase follows, or that an assert or a race would need one that is
  not there.

`HttpServerProofs`, for any clients, requests and number of threads:

* `StaysInStep`, `NeverOvertaken`. `Connection(c)` is the invariant of one client,
  in parts: `Requests` (`req`, the numbers in `buffer_` and those in the kernel
  are one row up to what was sent), `Parted` (what is on the way back
  is headers and bodies in their order), `Ahead` (what the client has read and
  what is on the way make up what has been answered), `Ending` (a session is over
  because its client has gone or a request has ended it), `Stepping` and `Overtaking` (the only
  reasons for being out of step, or overtaken by a reset).

`SequenceLemmas` has what these proofs need of sequences: entries that occur
once, taken, appended, replaced and removed; windows of a sequence, side by side
and one in another; and `FlattenSeq`, which the models
use for what is written one behind the other. It is a recursive function, so
that what it computes takes an induction: `ByInduction` does it without an
operator as a parameter, from the least element of the set of counterexamples
(`LeastNumber`).

The assumptions are those of the modules on their constants: that sets and sizes
are what their names say, that `NoCall`, `NoOne` and the like are outside of the
sets they stand beside, that the peer of an end is the other end
(`SessionAssumption`), and that the client is an end (`ClientAssumption`).

Every safety property of the passing runs, invariant, action property or refinement, is
stated by one of these theorems. Only model-checked are the liveness
properties, because fairness and ENABLED are outside the prover:
`Settles`, `Served`, `Answered`, `Erased`, `StopEnds`, `ConnectEnds`, `Leaves`.

## 5. Where the code and its own words differ

* `rpc_session_checksum`: `rpc.proto` has `INVALID_CHECKSUM = 4;` and
  `on_rpc_callback` sets it (`rpc_session.cpp:179`), but then reads the id of the
  null message it was given to build the reply (265). TLC's trace: a request
  is damaged on its way, and its receiver stops instead of answering.
* `rpc_session_silence`: `time_out` ("// time out", `rpc_session.cpp:81`) is to
  end a session that has read nothing for two seconds; no `async_wait`
  installs it, and a silent session lasts for ever.
* `chat_session_prepend`: `Buffer.h:316` asserts `len <= prependableBytes()`;
  three messages that are sent before the handler of the first has run use up
  the eight bytes of headroom. (From the second on the frames are already out
  of order: the second length is put in front of the first message.)

## 6. Plan

Done: the modules and theorems above. What is left: the chat client as a program,
its connect, its loop over lines and the end of its `io_context` thread, around
`ChatSession`.

## 7. Not modelled

SSL (OpenSSL's handshake and asio's stream; when the code starts them and what its
handlers do then is in `RpcClient` and `RpcServer`), protobuf itself, header
fields, `mime_type`, `path_cat` and the text of replies, a directory as the target
of a request, logging, the build files and keys.

The set-up of acceptors and listeners, and `registerService`, which runs before
any session; the start of threads in `asio_rpc_practice/server/main.cpp`, whose
loop runs to the size of the vector that it appends to; the chat client's
connect and its loop over lines; the programs under `proto_rpc/example`, which
only call what is modelled.

Inside modelled parts: the exception that the throwing `shutdown` in `on_write`
may raise (`rpc_codec.cpp:104`), and a service that runs its closure after its
session is gone (`rpc_session.cpp:206` keeps a raw pointer): both end or
corrupt the program, and no property could say more. The parts that are left
are marked `not_modelled` or `partly` in `PROJECT.json` with their reason.
