------------------------------- MODULE Buffer --------------------------------
(***************************************************************************)
(* Class Buffer (common/Buffer.h): a byte vector with a reader and a       *)
(* writer index,                                                           *)
(*                                                                         *)
(*     | prependable bytes | readable bytes | writable bytes |             *)
(*     0        <=     readerIndex  <=  writerIndex    <=   size           *)
(*                                                                         *)
(* One buffer, and one action for each public operation that changes it.   *)
(* An assert on an argument is the operation's guard: keeping it is up to  *)
(* the caller.  An assert on the buffer's own state is an invariant below. *)
(***************************************************************************)
EXTENDS NetInt

CONSTANTS
  kCheapPrepend,   \* nominal headroom, 8 in the code
  kInitialSize,    \* initial room for writing, 1024 in the code
  IntWidths,       \* widths of the integers, {1, 2, 4, 8} in the code
  MaxChunk,        \* bound: bytes given or asked for in one call
  MaxContent       \* bound: bytes a caller keeps in the buffer

ASSUME BufferAssumption ==
  /\ kCheapPrepend \in Nat
  /\ kInitialSize \in Nat
  /\ IntWidths \subseteq 1 .. MaxChunk
  /\ MaxChunk \in Nat
  /\ MaxContent \in Nat

VARIABLES
  buffer_,         \* the vector: byte i of the code is buffer_[i + 1]
  readerIndex_,
  writerIndex_,
  result           \* what the last operation that returns something returned

vars == <<buffer_, readerIndex_, writerIndex_, result>>

readableBytes == writerIndex_ - readerIndex_
writableBytes == Len(buffer_) - writerIndex_
prependableBytes == readerIndex_

(* The bytes from peek() up to beginWrite().                               *)
Readable == SubSeq(buffer_, readerIndex_ + 1, writerIndex_)
First(n) == SubSeq(buffer_, readerIndex_ + 1, readerIndex_ + n)

Data == UNION {[1 .. n -> Byte] : n \in 0 .. MaxChunk}

-----------------------------------------------------------------------------
(* std::vector<char>::resize to a larger size: new bytes are zero.         *)
Resize(v, size) == [i \in 1 .. size |-> IF i <= Len(v) THEN v[i] ELSE 0]

(* Mutant: the last byte is not copied.                                    *)
CopyTo_Short(v, at, data) ==
  [i \in 1 .. Len(v) |->
     IF i \in at + 1 .. at + Len(data) - 1 THEN data[i - at] ELSE v[i]]

(* std::copy of data over the bytes that start at index at.                *)
CopyTo(v, at, data) ==
  [i \in 1 .. Len(v) |->
     IF i \in at + 1 .. at + Len(data) THEN data[i - at] ELSE v[i]]

(* A whole new buffer, as the constructor builds it.                       *)
Constructed(initialSize) == [i \in 1 .. kCheapPrepend + initialSize |-> 0]

(***************************************************************************)
(* makeSpace and ensureWritableBytes, as the buffer and the two indices    *)
(* they leave behind.                                                      *)
(***************************************************************************)
NeedsSpace(len) == writableBytes < len

(* Mutant: space in front of the data is never reused.                     *)
MustResize_Always(len) == TRUE

MustResize(len) == writableBytes + prependableBytes < len + kCheapPrepend

(* Mutant: the number of readable bytes is taken after the reader index    *)
(* has moved.                                                              *)
Roomy_SizeTakenLate(len) ==
  IF ~ NeedsSpace(len)
  THEN [vec |-> buffer_, r |-> readerIndex_, w |-> writerIndex_]
  ELSE IF MustResize(len)
  THEN [vec |-> Resize(buffer_, writerIndex_ + len),
        r |-> readerIndex_, w |-> writerIndex_]
  ELSE [vec |-> CopyTo(buffer_, kCheapPrepend, Readable),
        r |-> kCheapPrepend, w |-> writerIndex_]

Roomy(len) ==
  IF ~ NeedsSpace(len)
  THEN [vec |-> buffer_, r |-> readerIndex_, w |-> writerIndex_]
  ELSE IF MustResize(len)
  THEN [vec |-> Resize(buffer_, writerIndex_ + len),
        r |-> readerIndex_, w |-> writerIndex_]
  ELSE [vec |-> CopyTo(buffer_, kCheapPrepend, Readable),
        r |-> kCheapPrepend, w |-> kCheapPrepend + readableBytes]

-----------------------------------------------------------------------------
Init ==
  /\ buffer_ = Constructed(kInitialSize)
  /\ readerIndex_ = kCheapPrepend
  /\ writerIndex_ = kCheapPrepend
  /\ result = <<>>

ensureWritableBytes(len) ==
  /\ readableBytes + len <= MaxContent
  /\ LET b == Roomy(len) IN
       /\ buffer_' = b.vec
       /\ readerIndex_' = b.r
       /\ writerIndex_' = b.w
  /\ UNCHANGED result

append(data) ==
  /\ readableBytes + Len(data) <= MaxContent
  /\ LET b == Roomy(Len(data)) IN
       /\ buffer_' = CopyTo(b.vec, b.w, data)
       /\ readerIndex_' = b.r
       /\ writerIndex_' = b.w + Len(data)
  /\ UNCHANGED result

appendInt(x, w) == \E bytes \in NetworkOrder(x, w) : append(bytes)

(* The caller has written data at beginWrite() and says so.                *)
hasWritten(data) ==
  /\ Len(data) <= writableBytes
  /\ readableBytes + Len(data) <= MaxContent
  /\ buffer_' = CopyTo(buffer_, writerIndex_, data)
  /\ writerIndex_' = writerIndex_ + Len(data)
  /\ UNCHANGED <<readerIndex_, result>>

(* Mutant: without the assert.                                             *)
unwrite_Unchecked(len) ==
  /\ writerIndex_' = writerIndex_ - len
  /\ UNCHANGED <<buffer_, readerIndex_, result>>

unwrite(len) ==
  /\ len <= readableBytes
  /\ writerIndex_' = writerIndex_ - len
  /\ UNCHANGED <<buffer_, readerIndex_, result>>

(* Mutant: without the assert.                                             *)
prepend_Unchecked(data) ==
  /\ readableBytes + Len(data) <= MaxContent
  /\ readerIndex_' = readerIndex_ - Len(data)
  /\ buffer_' = CopyTo(buffer_, readerIndex_ - Len(data), data)
  /\ UNCHANGED <<writerIndex_, result>>

prepend(data) ==
  /\ Len(data) <= prependableBytes
  /\ readableBytes + Len(data) <= MaxContent
  /\ readerIndex_' = readerIndex_ - Len(data)
  /\ buffer_' = CopyTo(buffer_, readerIndex_ - Len(data), data)
  /\ UNCHANGED <<writerIndex_, result>>

prependInt(x, w) == \E bytes \in NetworkOrder(x, w) : prepend(bytes)

(* Where the indices go when len bytes are retrieved.                      *)
Retrieved(len) ==
  /\ len <= readableBytes
  /\ IF len < readableBytes
     THEN readerIndex_' = readerIndex_ + len /\ UNCHANGED writerIndex_
     ELSE readerIndex_' = kCheapPrepend /\ writerIndex_' = kCheapPrepend
  /\ UNCHANGED buffer_

retrieve(len) == Retrieved(len) /\ UNCHANGED result

retrieveAll ==
  /\ readerIndex_' = kCheapPrepend
  /\ writerIndex_' = kCheapPrepend
  /\ UNCHANGED <<buffer_, result>>

retrieveAsString(len) == Retrieved(len) /\ result' = First(len)

peekInt(w) ==
  /\ w <= readableBytes
  /\ result' = <<Decode(First(w))>>
  /\ UNCHANGED <<buffer_, readerIndex_, writerIndex_>>

readInt(w) == Retrieved(w) /\ result' = <<Decode(First(w))>>

(* shrink builds another buffer of the default size, makes room in it for  *)
(* the readable bytes and reserve more, appends them and swaps.            *)
shrink(reserve) ==
  /\ readableBytes + reserve <= MaxContent
  /\ LET need  == readableBytes + reserve
         fresh == Constructed(kInitialSize)
         other == IF kInitialSize < need
                  THEN Resize(fresh, kCheapPrepend + need) ELSE fresh
     IN  buffer_' = CopyTo(other, kCheapPrepend, Readable)
  /\ readerIndex_' = kCheapPrepend
  /\ writerIndex_' = kCheapPrepend + readableBytes
  /\ UNCHANGED result

Next ==
  \/ \E data \in Data : append(data) \/ hasWritten(data) \/ prepend(data)
  \/ \E w \in IntWidths : \E x \in IntRange(w) :
       appendInt(x, w) \/ prependInt(x, w)
  \/ \E w \in IntWidths : peekInt(w) \/ readInt(w)
  \/ \E len \in 0 .. MaxChunk :
       \/ ensureWritableBytes(len)
       \/ shrink(len)
       \/ unwrite(len)
  \/ \E len \in 0 .. readableBytes : retrieve(len) \/ retrieveAsString(len)
  \/ retrieveAll

Spec == Init /\ [][Next]_vars

-----------------------------------------------------------------------------
(* The vector holds bytes and the indices are counts (size_t).             *)
TypeOK ==
  /\ buffer_ \in Seq(Byte)
  /\ readerIndex_ \in Nat
  /\ writerIndex_ \in Nat

(* The picture in the class comment: 0 <= readerIndex <= writerIndex <=    *)
(* size, after any sequence of legal calls.                                *)
IndexOrder ==
  /\ 0 <= readerIndex_
  /\ readerIndex_ <= writerIndex_
  /\ writerIndex_ <= Len(buffer_)

(* What ensureWritableBytes leaves behind for every request a caller could *)
(* make next, in whatever state the calls so far have brought the buffer:  *)
(* the indices in order and room for the request (its assert), as many     *)
(* readable bytes as before (the assert that ends makeSpace) with the same *)
(* values, and the data where it was or moved towards the front, to the    *)
(* full headroom (the assert before the move), the vector then not grown.  *)
MakeSpaceSafe ==
  \A len \in 0 .. MaxChunk :
    LET b == Roomy(len) IN
      /\ b.r <= b.w /\ len <= Len(b.vec) - b.w
      /\ b.w - b.r = readableBytes
      /\ SubSeq(b.vec, b.r + 1, b.w) = Readable
      /\ \/ b.r = readerIndex_
         \/ /\ b.r = kCheapPrepend /\ b.r < readerIndex_
            /\ Len(b.vec) = Len(buffer_)

(* Space in front of consumed data is reused: however long the buffer is   *)
(* used, the vector never gets smaller than it was built, so that the      *)
(* indices can always go back to kCheapPrepend, and never larger than a    *)
(* bound set by what the callers hold.                                     *)
Bounded ==
  /\ kCheapPrepend + kInitialSize <= Len(buffer_)
  /\ Len(buffer_) <= kCheapPrepend
                     + IF kInitialSize < MaxContent + MaxChunk
                       THEN MaxContent + MaxChunk ELSE kInitialSize

(* What is read as a number is the number that was written, and writing it *)
(* again gives the same bytes, whatever bytes the buffer holds.            *)
IntRoundTrip ==
  \A w \in IntWidths :
    /\ w <= readableBytes => First(w) \in NetworkOrder(Decode(First(w)), w)
    /\ \A x \in IntRange(w) :
         /\ NetworkOrder(x, w) # {}
         /\ \A bytes \in NetworkOrder(x, w) : Decode(bytes) = x

(* The buffer implements the byte queue: growing, moving and shrinking     *)
(* neither lose, repeat nor reorder a readable byte.                       *)
Queue == INSTANCE ByteQueue WITH content <- Readable, headroom <- readerIndex_

QueueSpec == Queue!Spec
=============================================================================
