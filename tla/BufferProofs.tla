---------------------------- MODULE BufferProofs -----------------------------
(***************************************************************************)
(* What class Buffer guarantees for every size of its constants.           *)
(***************************************************************************)
EXTENDS Buffer, SequenceLemmas

(* Three facts about the helpers: what they return is a byte vector of the *)
(* expected length, element by element.                                    *)
LEMMA ResizeProperties ==
  ASSUME NEW v \in Seq(Byte), NEW size \in Nat
  PROVE  /\ Resize(v, size) \in Seq(Byte)
         /\ Len(Resize(v, size)) = size
         /\ \A i \in 1 .. size :
              Resize(v, size)[i] = IF i <= Len(v) THEN v[i] ELSE 0
<1>1. \A i \in 1 .. size : (IF i <= Len(v) THEN v[i] ELSE 0) \in Byte
  BY BaseAssumption DEF Byte
<1> QED
  BY <1>1 DEF Resize

LEMMA CopyToProperties ==
  ASSUME NEW v \in Seq(Byte), NEW at \in Nat, NEW data \in Seq(Byte),
         at + Len(data) <= Len(v)
  PROVE  /\ CopyTo(v, at, data) \in Seq(Byte)
         /\ Len(CopyTo(v, at, data)) = Len(v)
         /\ \A i \in 1 .. Len(data) : CopyTo(v, at, data)[at + i] = data[i]
         /\ \A i \in 1 .. Len(v) :
              i <= at \/ at + Len(data) < i => CopyTo(v, at, data)[i] = v[i]
<1>1. \A i \in 1 .. Len(v) :
        (IF i \in at + 1 .. at + Len(data) THEN data[i - at] ELSE v[i]) \in Byte
  OBVIOUS
<1>2. /\ CopyTo(v, at, data) \in Seq(Byte)
      /\ Len(CopyTo(v, at, data)) = Len(v)
  BY <1>1 DEF CopyTo
<1>3. ASSUME NEW i \in 1 .. Len(data)
      PROVE  CopyTo(v, at, data)[at + i] = data[i]
  <2>1. at + i \in 1 .. Len(v) /\ at + i \in at + 1 .. at + Len(data)
    OBVIOUS
  <2>2. CopyTo(v, at, data)[at + i] = data[(at + i) - at]
    BY <2>1 DEF CopyTo
  <2>3. (at + i) - at = i
    OBVIOUS
  <2> QED
    BY <2>2, <2>3
<1>4. ASSUME NEW i \in 1 .. Len(v), i <= at \/ at + Len(data) < i
      PROVE  CopyTo(v, at, data)[i] = v[i]
  BY <1>4 DEF CopyTo
<1> QED
  BY <1>2, <1>3, <1>4

LEMMA ConstructedProperties ==
  ASSUME NEW n \in Nat
  PROVE  /\ Constructed(n) \in Seq(Byte)
         /\ Len(Constructed(n)) = kCheapPrepend + n
<1>1. 0 \in Byte
  BY BaseAssumption DEF Byte
<1> QED
  BY <1>1, BufferAssumption DEF Constructed

(* A window of a byte vector, from behind index m up to index n.           *)
LEMMA WindowProperties ==
  ASSUME NEW v \in Seq(Byte), NEW m \in Nat, NEW n \in Nat,
         m <= n, n <= Len(v)
  PROVE  /\ SubSeq(v, m + 1, n) \in Seq(Byte)
         /\ Len(SubSeq(v, m + 1, n)) = n - m
         /\ \A i \in 1 .. n - m : SubSeq(v, m + 1, n)[i] = v[m + i]
BY Window

(* Two windows of the same length that agree byte by byte are equal.       *)
LEMMA WindowsEqual ==
  ASSUME NEW v \in Seq(Byte), NEW m \in Nat, NEW n \in Nat,
         m <= n, n <= Len(v),
         NEW u \in Seq(Byte), NEW k \in Nat, NEW l \in Nat,
         k <= l, l <= Len(u), n - m = l - k,
         \A i \in 1 .. n - m : v[m + i] = u[k + i]
  PROVE  SubSeq(v, m + 1, n) = SubSeq(u, k + 1, l)
<1>1. /\ SubSeq(v, m + 1, n) \in Seq(Byte)
      /\ Len(SubSeq(v, m + 1, n)) = n - m
      /\ \A i \in 1 .. n - m : SubSeq(v, m + 1, n)[i] = v[m + i]
  BY WindowProperties
<1>2. /\ SubSeq(u, k + 1, l) \in Seq(Byte)
      /\ Len(SubSeq(u, k + 1, l)) = l - k
      /\ \A i \in 1 .. l - k : SubSeq(u, k + 1, l)[i] = u[k + i]
  BY WindowProperties
<1>3. \A i \in 1 .. Len(SubSeq(v, m + 1, n)) :
        SubSeq(v, m + 1, n)[i] = SubSeq(u, k + 1, l)[i]
  BY <1>1, <1>2
<1> QED
  BY <1>1, <1>2, <1>3, SeqEqual

(* A window of a window is a window of the vector underneath.              *)
LEMMA WindowOfWindow ==
  ASSUME NEW v \in Seq(Byte), NEW m \in Nat, NEW n \in Nat,
         m <= n, n <= Len(v),
         NEW k \in Nat, NEW l \in Nat, k <= l, l <= n - m
  PROVE  SubSeq(SubSeq(v, m + 1, n), k + 1, l) = SubSeq(v, (m + k) + 1, m + l)
<1> DEFINE u == SubSeq(v, m + 1, n)
<1>1. /\ u \in Seq(Byte)
      /\ Len(u) = n - m
      /\ \A i \in 1 .. n - m : u[i] = v[m + i]
  BY WindowProperties
<1> HIDE DEF u
<1>2. \A i \in 1 .. l - k : u[k + i] = v[(m + k) + i]
  <2> TAKE i \in 1 .. l - k
  <2>1. k + i \in 1 .. n - m /\ m + (k + i) = (m + k) + i
    OBVIOUS
  <2> QED
    BY <1>1, <2>1
<1>3. m + k \in Nat /\ m + l \in Nat /\ m + k <= m + l /\ m + l <= Len(v)
      /\ l - k = (m + l) - (m + k) /\ l <= Len(u)
  BY <1>1
<1> QED
  BY <1>1, <1>2, <1>3, WindowsEqual DEF u

-----------------------------------------------------------------------------
(* makeSpace leaves the readable bytes alone, leaves room for the request, *)
(* and never makes the vector larger than the request needs.               *)
LEMMA RoomyProperties ==
  ASSUME TypeOK, IndexOrder, NEW len \in Nat
  PROVE  LET b == Roomy(len) IN
         /\ b.vec \in Seq(Byte) /\ b.r \in Nat /\ b.w \in Nat
         /\ b.r <= b.w /\ b.w + len <= Len(b.vec)
         /\ b.w - b.r = readableBytes
         /\ b.r \in {readerIndex_, kCheapPrepend}
         /\ \/ b.r = readerIndex_
            \/ /\ b.r = kCheapPrepend /\ b.r < readerIndex_
               /\ Len(b.vec) = Len(buffer_)
         /\ \A i \in 1 .. readableBytes :
              b.vec[b.r + i] = buffer_[readerIndex_ + i]
         /\ Len(buffer_) <= Len(b.vec)
         /\ \/ Len(b.vec) = Len(buffer_)
            \/ Len(b.vec) <= readableBytes + len + len + kCheapPrepend
<1> USE DEF TypeOK, IndexOrder, readableBytes, writableBytes, prependableBytes
<1>1. CASE ~ NeedsSpace(len)
  BY <1>1 DEF Roomy, NeedsSpace
<1>2. CASE NeedsSpace(len) /\ MustResize(len)
  <2> DEFINE size == writerIndex_ + len
             vec  == Resize(buffer_, size)
  <2>1. /\ size \in Nat /\ Len(buffer_) < size
        /\ size <= readableBytes + len + len + kCheapPrepend
    BY <1>2, BufferAssumption DEF NeedsSpace, MustResize
  <2>2. /\ vec \in Seq(Byte) /\ Len(vec) = size
        /\ \A i \in 1 .. size : vec[i] = IF i <= Len(buffer_)
                                          THEN buffer_[i] ELSE 0
    BY <2>1, ResizeProperties
  <2>3. Roomy(len) = [vec |-> vec, r |-> readerIndex_, w |-> writerIndex_]
    BY <1>2 DEF Roomy
  <2> HIDE DEF vec
  <2> QED
    BY <2>1, <2>2, <2>3, SMTT(30)
<1>3. CASE NeedsSpace(len) /\ ~ MustResize(len)
  <2> DEFINE data == Readable
             vec  == CopyTo(buffer_, kCheapPrepend, data)
  <2>1. /\ data \in Seq(Byte) /\ Len(data) = readableBytes
        /\ \A i \in 1 .. readableBytes : data[i] = buffer_[readerIndex_ + i]
    BY WindowProperties DEF Readable
  <2>2. /\ kCheapPrepend + readableBytes + len <= Len(buffer_)
        /\ kCheapPrepend \in Nat /\ kCheapPrepend < readerIndex_
    BY <1>3, BufferAssumption DEF NeedsSpace, MustResize
  <2> HIDE DEF data
  <2>3. /\ vec \in Seq(Byte) /\ Len(vec) = Len(buffer_)
        /\ \A i \in 1 .. Len(data) : vec[kCheapPrepend + i] = data[i]
    <3>1. kCheapPrepend + Len(data) <= Len(buffer_) /\ buffer_ \in Seq(Byte)
      BY <2>1, <2>2
    <3> QED
      BY <2>1, <2>2, <3>1, CopyToProperties
  <2> HIDE DEF vec
  <2>4. \A i \in 1 .. readableBytes :
          vec[kCheapPrepend + i] = buffer_[readerIndex_ + i]
    BY <2>1, <2>2, <2>3
  <2>5. Roomy(len) = [vec |-> vec, r |-> kCheapPrepend,
                      w |-> kCheapPrepend + readableBytes]
    BY <1>3 DEF Roomy, vec, data
  <2> QED
    BY <2>2, <2>3, <2>4, <2>5
<1> QED
  BY <1>1, <1>2, <1>3

(* What the callers pass is a sequence of at most MaxChunk bytes, also     *)
(* when it is an integer in network order.                                 *)
LEMMA DataProperties ==
  /\ \A data \in Data : data \in Seq(Byte) /\ Len(data) <= MaxChunk
  /\ \A w \in IntWidths, x \in Int : NetworkOrder(x, w) \subseteq Data
<1>1. ASSUME NEW data \in Data
      PROVE  data \in Seq(Byte) /\ Len(data) <= MaxChunk
  <2> PICK n \in 0 .. MaxChunk : data \in [1 .. n -> Byte]
    BY DEF Data
  <2> QED
    BY BufferAssumption
<1>2. ASSUME NEW w \in IntWidths, NEW x \in Int
      PROVE  NetworkOrder(x, w) \subseteq Data
  <2> w \in 0 .. MaxChunk
    BY BufferAssumption
  <2> QED
    BY DEF NetworkOrder, Data
<1> QED
  BY <1>1, <1>2

-----------------------------------------------------------------------------
(***************************************************************************)
(* The invariant.  IndexOrder is needed for the type of the vector (it is  *)
(* what keeps every copy inside it), and both for its size.                *)
(***************************************************************************)
Inv == TypeOK /\ IndexOrder /\ Bounded

(* Whatever the state, the readable bytes are a sequence of bytes.         *)
LEMMA ReadableProperties ==
  ASSUME Inv
  PROVE  /\ Readable \in Seq(Byte)
         /\ readableBytes \in Nat
         /\ Len(Readable) = readableBytes
         /\ \A i \in 1 .. readableBytes : Readable[i] = buffer_[readerIndex_ + i]
BY WindowProperties DEF Inv, TypeOK, IndexOrder, Readable, readableBytes

LEMMA ReadablePrimeProperties ==
  ASSUME Inv'
  PROVE  /\ Readable' \in Seq(Byte)
         /\ readableBytes' \in Nat
         /\ Len(Readable') = readableBytes'
         /\ \A i \in 1 .. readableBytes' :
              Readable'[i] = buffer_'[readerIndex_' + i]
<1> DEFINE v == buffer_'
           m == readerIndex_'
           n == writerIndex_'
<1>1. /\ v \in Seq(Byte) /\ m \in Nat /\ n \in Nat
      /\ m <= n /\ n <= Len(v)
  BY DEF Inv, TypeOK, IndexOrder
<1>2. Readable' = SubSeq(v, m + 1, n) /\ readableBytes' = n - m
  BY DEF Readable, readableBytes
<1> HIDE DEF v, m, n
<1>3. /\ SubSeq(v, m + 1, n) \in Seq(Byte)
      /\ Len(SubSeq(v, m + 1, n)) = n - m
      /\ \A i \in 1 .. n - m : SubSeq(v, m + 1, n)[i] = v[m + i]
  BY <1>1, WindowProperties
<1>4. /\ Readable' \in Seq(Byte) /\ readableBytes' \in Nat
      /\ Len(Readable') = readableBytes'
      /\ \A i \in 1 .. readableBytes' : Readable'[i] = v[m + i]
  BY <1>1, <1>2, <1>3
<1> QED
  BY <1>4 DEF v, m

(* A step that leaves as many readable bytes, each with its value, leaves  *)
(* the same readable bytes, wherever they have gone.                       *)
LEMMA SameReadable ==
  ASSUME Inv, Inv', readableBytes' = readableBytes,
         \A i \in 1 .. readableBytes :
           buffer_'[readerIndex_' + i] = buffer_[readerIndex_ + i]
  PROVE  Readable' = Readable
<1>1. /\ Readable \in Seq(Byte) /\ Readable' \in Seq(Byte)
      /\ Len(Readable) = readableBytes /\ Len(Readable') = readableBytes
      /\ \A i \in 1 .. readableBytes : Readable'[i] = Readable[i]
  BY ReadableProperties, ReadablePrimeProperties
<1> QED
  BY <1>1, SeqEqual

(* A step that keeps the first readable bytes extends the queue.           *)
LEMMA ExtendedReadable ==
  ASSUME Inv, Inv', readableBytes <= readableBytes',
         \A i \in 1 .. readableBytes :
           buffer_'[readerIndex_' + i] = buffer_[readerIndex_ + i]
  PROVE  /\ Readable' \in Seq(Byte)
         /\ Len(Readable) <= Len(Readable')
         /\ Readable = SubSeq(Readable', 1, Len(Readable))
<1> DEFINE first == SubSeq(Readable', 0 + 1, readableBytes)
<1>1. /\ Readable \in Seq(Byte) /\ Readable' \in Seq(Byte)
      /\ readableBytes \in Nat /\ readableBytes' \in Nat
      /\ Len(Readable) = readableBytes /\ Len(Readable') = readableBytes'
      /\ \A i \in 1 .. readableBytes : Readable'[i] = Readable[i]
  BY ReadableProperties, ReadablePrimeProperties
<1>2. /\ first \in Seq(Byte) /\ Len(first) = readableBytes
      /\ \A i \in 1 .. readableBytes : first[i] = Readable'[0 + i]
  BY <1>1, WindowProperties
<1> HIDE DEF first
<1>3. Readable = first
  BY <1>1, <1>2, SeqEqual
<1> QED
  BY <1>1, <1>3 DEF first

(* A step that keeps the last readable bytes.                              *)
LEMMA PrefixedReadable ==
  ASSUME Inv, Inv', NEW n \in Nat, readableBytes' = readableBytes + n,
         \A i \in 1 .. readableBytes :
           buffer_'[readerIndex_' + n + i] = buffer_[readerIndex_ + i]
  PROVE  Readable = SubSeq(Readable', n + 1, Len(Readable'))
<1> DEFINE last == SubSeq(Readable', n + 1, readableBytes')
<1>1. /\ Readable \in Seq(Byte) /\ Readable' \in Seq(Byte)
      /\ readableBytes \in Nat /\ readableBytes' \in Nat
      /\ Len(Readable) = readableBytes /\ Len(Readable') = readableBytes'
      /\ readerIndex_' \in Nat
  BY ReadableProperties, ReadablePrimeProperties DEF Inv, TypeOK
<1>2. \A i \in 1 .. readableBytes : Readable'[n + i] = Readable[i]
  <2> TAKE i \in 1 .. readableBytes
  <2>1. n + i \in 1 .. readableBytes'
        /\ readerIndex_' + (n + i) = readerIndex_' + n + i
    BY <1>1
  <2> QED
    BY <1>1, <2>1, ReadableProperties, ReadablePrimeProperties
<1>3. /\ last \in Seq(Byte) /\ Len(last) = readableBytes
      /\ \A i \in 1 .. readableBytes : last[i] = Readable'[n + i]
  BY <1>1, WindowProperties
<1> HIDE DEF last
<1>4. Readable = last
  BY <1>1, <1>2, <1>3, SeqEqual
<1> QED
  BY <1>1, <1>4 DEF last

(* What is left behind the first n readable bytes, and what is in front of *)
(* the last n.                                                             *)
LEMMA RestAndFront ==
  ASSUME Inv, NEW n \in Nat, n <= readableBytes
  PROVE  /\ SubSeq(Readable, n + 1, Len(Readable))
              = SubSeq(buffer_, readerIndex_ + n + 1, writerIndex_)
         /\ SubSeq(Readable, 1, n)
              = SubSeq(buffer_, readerIndex_ + 1, readerIndex_ + n)
<1>1. /\ buffer_ \in Seq(Byte) /\ readerIndex_ \in Nat /\ writerIndex_ \in Nat
      /\ readerIndex_ <= writerIndex_ /\ writerIndex_ <= Len(buffer_)
      /\ Len(Readable) = writerIndex_ - readerIndex_
      /\ n <= writerIndex_ - readerIndex_
  BY ReadableProperties DEF Inv, TypeOK, IndexOrder, readableBytes
<1>2. SubSeq(SubSeq(buffer_, readerIndex_ + 1, writerIndex_), n + 1,
             writerIndex_ - readerIndex_)
        = SubSeq(buffer_, (readerIndex_ + n) + 1,
                 readerIndex_ + (writerIndex_ - readerIndex_))
  BY <1>1, WindowOfWindow
<1>3. SubSeq(SubSeq(buffer_, readerIndex_ + 1, writerIndex_), 0 + 1, n)
        = SubSeq(buffer_, (readerIndex_ + 0) + 1, readerIndex_ + n)
  BY <1>1, WindowOfWindow
<1>4. /\ readerIndex_ + (writerIndex_ - readerIndex_) = writerIndex_
      /\ (readerIndex_ + 0) + 1 = readerIndex_ + 1 /\ 0 + 1 = 1
      /\ (readerIndex_ + n) + 1 = readerIndex_ + n + 1
  BY <1>1
<1> QED
  BY <1>1, <1>2, <1>3, <1>4 DEF Readable

LEMMA InitInv ==
  ASSUME Init
  PROVE  Inv
<1>1. /\ buffer_ \in Seq(Byte)
      /\ Len(buffer_) = kCheapPrepend + kInitialSize
  BY BufferAssumption, ConstructedProperties DEF Init
<1> QED
  BY <1>1, BufferAssumption DEF Init, Inv, TypeOK, IndexOrder, Bounded

-----------------------------------------------------------------------------
(* Each operation keeps the invariant and is a step of the byte queue.     *)
LEMMA EnsureStep ==
  ASSUME Inv, NEW len \in 0 .. MaxChunk, ensureWritableBytes(len)
  PROVE  Inv' /\ Queue!Grow
<1> USE DEF Inv
<1> DEFINE v == Roomy(len).vec
           r == Roomy(len).r
           w == Roomy(len).w
<1>1. len \in Nat
  BY BufferAssumption
<1>2. /\ v \in Seq(Byte) /\ r \in Nat /\ w \in Nat
      /\ r <= w /\ w + len <= Len(v)
      /\ w - r = readableBytes
      /\ r \in {readerIndex_, kCheapPrepend}
      /\ \A i \in 1 .. readableBytes : v[r + i] = buffer_[readerIndex_ + i]
      /\ Len(buffer_) <= Len(v)
      /\ \/ Len(v) = Len(buffer_)
         \/ Len(v) <= readableBytes + len + len + kCheapPrepend
  BY <1>1, RoomyProperties
<1> HIDE DEF v, r, w
<1>3. buffer_' = v /\ readerIndex_' = r /\ writerIndex_' = w
      /\ UNCHANGED result /\ readableBytes + len <= MaxContent
  BY DEF ensureWritableBytes, v, r, w
<1>4. Inv'
  BY <1>1, <1>2, <1>3, BufferAssumption, SMTT(30)
  DEF TypeOK, IndexOrder, Bounded, readableBytes
<1>5. readableBytes' = readableBytes /\ readableBytes <= readableBytes'
  BY <1>2, <1>3, ReadableProperties DEF readableBytes
<1> QED
  BY <1>2, <1>3, <1>4, <1>5, ExtendedReadable DEF Queue!Grow, Queue!Byte, Byte

LEMMA AppendStep ==
  ASSUME Inv, NEW data \in Data, append(data)
  PROVE  Inv' /\ Queue!Grow
<1> USE DEF Inv
<1> DEFINE len == Len(data)
           v == Roomy(len).vec
           r == Roomy(len).r
           w == Roomy(len).w
           copy == CopyTo(v, w, data)
<1>1. data \in Seq(Byte) /\ len \in Nat /\ len <= MaxChunk
  BY DataProperties
<1> HIDE DEF len
<1>2. /\ v \in Seq(Byte) /\ r \in Nat /\ w \in Nat
      /\ r <= w /\ w + len <= Len(v)
      /\ w - r = readableBytes
      /\ r \in {readerIndex_, kCheapPrepend}
      /\ \A i \in 1 .. readableBytes : v[r + i] = buffer_[readerIndex_ + i]
      /\ Len(buffer_) <= Len(v)
      /\ \/ Len(v) = Len(buffer_)
         \/ Len(v) <= readableBytes + len + len + kCheapPrepend
  BY <1>1, RoomyProperties
<1> HIDE DEF v, r, w
<1>3. /\ copy \in Seq(Byte) /\ Len(copy) = Len(v)
      /\ \A i \in 1 .. Len(v) : i <= w => copy[i] = v[i]
  BY <1>1, <1>2, CopyToProperties DEF len
<1> HIDE DEF copy
<1>4. buffer_' = copy /\ readerIndex_' = r /\ writerIndex_' = w + len
      /\ UNCHANGED result /\ readableBytes + len <= MaxContent
  BY DEF append, v, r, w, copy, len
<1>5. Inv'
  BY <1>1, <1>2, <1>3, <1>4, BufferAssumption
  DEF TypeOK, IndexOrder, Bounded, readableBytes
<1>6. readableBytes <= readableBytes'
  BY <1>1, <1>2, <1>4, ReadableProperties DEF readableBytes
<1>7. \A i \in 1 .. readableBytes :
        buffer_'[readerIndex_' + i] = buffer_[readerIndex_ + i]
  <2> TAKE i \in 1 .. readableBytes
  <2>1. r + i \in 1 .. Len(v) /\ r + i <= w
    BY <1>1, <1>2, ReadableProperties, SMTT(30)
  <2>2. copy[r + i] = v[r + i]
    BY <1>3, <2>1
  <2> QED
    BY <1>2, <1>4, <2>2
<1> QED
  BY <1>2, <1>4, <1>5, <1>6, <1>7, ExtendedReadable
  DEF Queue!Grow, Queue!Byte, Byte

LEMMA HasWrittenStep ==
  ASSUME Inv, NEW data \in Data, hasWritten(data)
  PROVE  Inv' /\ Queue!Grow
<1> USE DEF Inv
<1> DEFINE copy == CopyTo(buffer_, writerIndex_, data)
<1>1. data \in Seq(Byte) /\ Len(data) \in Nat
  BY DataProperties
<1>2. writerIndex_ + Len(data) <= Len(buffer_)
  BY <1>1 DEF hasWritten, writableBytes, TypeOK, IndexOrder
<1>3. /\ copy \in Seq(Byte) /\ Len(copy) = Len(buffer_)
      /\ \A i \in 1 .. Len(buffer_) : i <= writerIndex_ => copy[i] = buffer_[i]
  BY <1>1, <1>2, CopyToProperties DEF TypeOK
<1> HIDE DEF copy
<1>4. buffer_' = copy /\ writerIndex_' = writerIndex_ + Len(data)
      /\ UNCHANGED <<readerIndex_, result>>
  BY DEF hasWritten, copy
<1>5. Inv'
  BY <1>1, <1>2, <1>3, <1>4 DEF TypeOK, IndexOrder, Bounded
<1>6. readableBytes <= readableBytes'
  BY <1>1, <1>4 DEF readableBytes, TypeOK
<1>7. \A i \in 1 .. readableBytes :
        buffer_'[readerIndex_' + i] = buffer_[readerIndex_ + i]
  BY <1>1, <1>3, <1>4 DEF readableBytes, TypeOK, IndexOrder
<1> QED
  BY <1>4, <1>5, <1>6, <1>7, ExtendedReadable DEF Queue!Grow, Queue!Byte, Byte

LEMMA PrependStep ==
  ASSUME Inv, NEW data \in Data, prepend(data)
  PROVE  Inv' /\ Queue!PutFront
<1> USE DEF Inv
<1> DEFINE n == Len(data)
           r == readerIndex_ - n
           copy == CopyTo(buffer_, r, data)
<1>1. data \in Seq(Byte) /\ n \in Nat
  BY DataProperties
<1>2. r \in Nat /\ n <= readerIndex_ /\ r + n <= Len(buffer_) /\ r + n = readerIndex_
  BY <1>1 DEF prepend, prependableBytes, TypeOK, IndexOrder
<1>3. /\ copy \in Seq(Byte) /\ Len(copy) = Len(buffer_)
      /\ \A i \in 1 .. Len(buffer_) : readerIndex_ < i => copy[i] = buffer_[i]
  BY <1>1, <1>2, CopyToProperties DEF TypeOK
<1>4. buffer_' = copy /\ readerIndex_' = r /\ UNCHANGED <<writerIndex_, result>>
  BY DEF prepend
<1> HIDE DEF copy, n
<1>5. Inv'
  BY <1>1, <1>2, <1>3, <1>4 DEF TypeOK, IndexOrder, Bounded
<1>6. readableBytes' = readableBytes + n /\ readerIndex_' + n = readerIndex_
  BY <1>1, <1>2, <1>4 DEF readableBytes, TypeOK
<1>7. \A i \in 1 .. readableBytes :
        buffer_'[readerIndex_' + n + i] = buffer_[readerIndex_ + i]
  BY <1>3, <1>4, <1>6 DEF readableBytes, TypeOK, IndexOrder
<1>8. Readable = SubSeq(Readable', n + 1, Len(Readable'))
  BY <1>1, <1>5, <1>6, <1>7, PrefixedReadable
<1>9. Readable' \in Seq(Byte) /\ n \in 0 .. Len(Readable')
  BY <1>1, <1>5, <1>6, ReadableProperties, ReadablePrimeProperties
<1> QED
  BY <1>2, <1>4, <1>5, <1>8, <1>9 DEF Queue!PutFront, Queue!Byte, Byte

LEMMA UnwriteStep ==
  ASSUME Inv, NEW len \in 0 .. MaxChunk, unwrite(len)
  PROVE  Inv' /\ Queue!TakeBack(len)
<1>1. /\ len \in Nat /\ len <= readableBytes
      /\ writerIndex_' = writerIndex_ - len
      /\ UNCHANGED <<buffer_, readerIndex_, result>>
  BY BufferAssumption DEF unwrite
<1>2. Inv'
  BY <1>1 DEF Inv, TypeOK, IndexOrder, Bounded, readableBytes
<1>3. /\ readableBytes \in Nat /\ Len(Readable) = readableBytes
      /\ readableBytes - len \in Nat /\ readableBytes - len <= readableBytes
  BY <1>1, ReadableProperties
<1>4. SubSeq(Readable, 1, readableBytes - len)
        = SubSeq(buffer_, readerIndex_ + 1, readerIndex_ + (readableBytes - len))
  BY <1>3, RestAndFront
<1>5. readerIndex_ + (readableBytes - len) = writerIndex_ - len
  BY <1>1 DEF Inv, TypeOK, readableBytes
<1>6. Readable' = SubSeq(Readable, 1, Len(Readable) - len)
  BY <1>1, <1>3, <1>4, <1>5 DEF Readable
<1> QED
  BY <1>1, <1>2, <1>6 DEF Queue!TakeBack, Queue!First

LEMMA RetrievedStep ==
  ASSUME Inv, NEW len \in Nat, Retrieved(len)
  PROVE  Inv' /\ Queue!Drop(len) /\ First(len) = Queue!First(len)
<1>1. /\ len <= readableBytes /\ UNCHANGED buffer_
      /\ Len(Readable) = readableBytes /\ readableBytes \in Nat
  BY ReadableProperties DEF Retrieved
<1>2. /\ SubSeq(Readable, len + 1, Len(Readable))
           = SubSeq(buffer_, readerIndex_ + len + 1, writerIndex_)
      /\ First(len) = Queue!First(len)
  BY <1>1, RestAndFront DEF First, Queue!First
<1>3. CASE len < readableBytes
  <2>1. readerIndex_' = readerIndex_ + len /\ UNCHANGED writerIndex_
    BY <1>3 DEF Retrieved
  <2>2. Inv'
    BY <1>1, <1>3, <2>1 DEF Inv, TypeOK, IndexOrder, Bounded, readableBytes
  <2>3. Readable' = SubSeq(Readable, len + 1, Len(Readable))
    BY <1>1, <1>2, <2>1 DEF Readable
  <2> QED
    BY <1>1, <1>2, <1>3, <2>1, <2>2, <2>3 DEF Queue!Drop
<1>4. CASE ~ (len < readableBytes)
  <2>1. /\ readerIndex_' = kCheapPrepend /\ writerIndex_' = kCheapPrepend
        /\ len = readableBytes
    BY <1>1, <1>4 DEF Retrieved
  <2>2. Inv'
    BY <1>1, <2>1, BufferAssumption
    DEF Inv, TypeOK, IndexOrder, Bounded
  <2>3. Readable' = <<>>
    BY <2>1, BufferAssumption, SubSeqEmpty DEF Readable
  <2>4. SubSeq(Readable, len + 1, Len(Readable)) = <<>>
    BY <1>1, <2>1, SubSeqEmpty
  <2> QED
    BY <1>1, <1>2, <2>1, <2>2, <2>3, <2>4 DEF Queue!Drop
<1> QED
  BY <1>3, <1>4

LEMMA RetrieveAllStep ==
  ASSUME Inv, retrieveAll
  PROVE  Inv' /\ Queue!Drop(Len(Readable)) /\ UNCHANGED result
<1>1. Len(Readable) = readableBytes /\ readableBytes \in Nat
  BY ReadableProperties
<1>2. Retrieved(Len(Readable)) /\ UNCHANGED result
  BY <1>1 DEF retrieveAll, Retrieved
<1> QED
  BY <1>1, <1>2, RetrievedStep

LEMMA PeekStep ==
  ASSUME Inv, NEW w \in IntWidths, peekInt(w)
  PROVE  Inv' /\ Queue!PeekInt(w)
<1>1. /\ w \in Nat /\ w <= readableBytes /\ result' = <<Decode(First(w))>>
      /\ UNCHANGED <<buffer_, readerIndex_, writerIndex_>>
  BY BufferAssumption DEF peekInt
<1>2. Inv' /\ UNCHANGED Readable
  BY <1>1 DEF Inv, TypeOK, IndexOrder, Bounded, Readable
<1>3. First(w) = Queue!First(w) /\ Len(Readable) = readableBytes
  BY <1>1, RestAndFront, ReadableProperties DEF First, Queue!First
<1>4. result' = <<Queue!Decode(Queue!First(w))>>
  BY <1>1, <1>3
     DEF Decode, Unsigned, Power, Value,
         Queue!Decode, Queue!Unsigned, Queue!Power, Queue!Value
<1> QED
  BY <1>1, <1>2, <1>3, <1>4 DEF Queue!PeekInt

LEMMA ReadStep ==
  ASSUME Inv, NEW w \in IntWidths, readInt(w)
  PROVE  Inv' /\ Queue!ReadInt(w)
<1>1. w \in Nat /\ Retrieved(w) /\ result' = <<Decode(First(w))>>
  BY BufferAssumption DEF readInt
<1>2. Inv' /\ Queue!Drop(w) /\ First(w) = Queue!First(w)
  BY <1>1, RetrievedStep
<1>3. result' = <<Queue!Decode(Queue!First(w))>>
  BY <1>1, <1>2
     DEF Decode, Unsigned, Power, Value,
         Queue!Decode, Queue!Unsigned, Queue!Power, Queue!Value
<1> QED
  BY <1>2, <1>3 DEF Queue!ReadInt

LEMMA ShrinkStep ==
  ASSUME Inv, NEW reserve \in 0 .. MaxChunk, shrink(reserve)
  PROVE  Inv' /\ Queue!Grow
<1> DEFINE need  == readableBytes + reserve
           fresh == Constructed(kInitialSize)
           other == IF kInitialSize < need
                    THEN Resize(fresh, kCheapPrepend + need) ELSE fresh
           data  == Readable
           copy  == CopyTo(other, kCheapPrepend, data)
<1>1. /\ data \in Seq(Byte) /\ Len(data) = readableBytes /\ readableBytes \in Nat
      /\ \A i \in 1 .. readableBytes : data[i] = buffer_[readerIndex_ + i]
  BY ReadableProperties
<1>2. /\ reserve \in Nat /\ reserve <= MaxChunk /\ need <= MaxContent
      /\ buffer_' = copy /\ readerIndex_' = kCheapPrepend
      /\ writerIndex_' = kCheapPrepend + readableBytes
      /\ UNCHANGED result
  BY BufferAssumption DEF shrink
<1>3. /\ fresh \in Seq(Byte) /\ Len(fresh) = kCheapPrepend + kInitialSize
  BY BufferAssumption, ConstructedProperties
<1> HIDE DEF fresh, data
<1>4. /\ other \in Seq(Byte)
      /\ Len(other) = kCheapPrepend
                      + IF kInitialSize < need THEN need ELSE kInitialSize
  <2>1. kCheapPrepend + need \in Nat
    BY <1>1, <1>2, BufferAssumption
  <2>2. /\ Resize(fresh, kCheapPrepend + need) \in Seq(Byte)
        /\ Len(Resize(fresh, kCheapPrepend + need)) = kCheapPrepend + need
    BY <1>3, <2>1, ResizeProperties
  <2> QED
    BY <1>3, <2>2
<1> HIDE DEF other
<1>5. /\ kCheapPrepend \in Nat /\ kInitialSize \in Nat
      /\ kCheapPrepend + Len(data) <= Len(other)
  BY <1>1, <1>2, <1>4, BufferAssumption
<1>6. /\ copy \in Seq(Byte) /\ Len(copy) = Len(other)
      /\ \A i \in 1 .. Len(data) : copy[kCheapPrepend + i] = data[i]
  BY <1>1, <1>4, <1>5, CopyToProperties
<1> HIDE DEF copy
<1>7. Inv'
  BY <1>1, <1>2, <1>4, <1>5, <1>6, BufferAssumption
  DEF Inv, TypeOK, IndexOrder, Bounded
<1>8. readableBytes <= readableBytes'
  BY <1>1, <1>2, <1>5 DEF readableBytes
<1>9. \A i \in 1 .. readableBytes :
        buffer_'[readerIndex_' + i] = buffer_[readerIndex_ + i]
  BY <1>1, <1>2, <1>6
<1> QED
  BY <1>2, <1>7, <1>8, <1>9, ExtendedReadable
  DEF Inv, Queue!Grow, Queue!Byte, Byte

-----------------------------------------------------------------------------
(* All operations together: the invariant is inductive, and every step is  *)
(* a step of the byte queue.                                               *)
LEMMA NextStep ==
  ASSUME Inv, Next
  PROVE  Inv' /\ Queue!Next
<1>1. ASSUME NEW data \in Data, append(data) \/ hasWritten(data)
      PROVE  Inv' /\ Queue!Next
  BY <1>1, AppendStep, HasWrittenStep DEF Queue!Next
<1>2. ASSUME NEW data \in Data, prepend(data)
      PROVE  Inv' /\ Queue!Next
  BY <1>2, PrependStep DEF Queue!Next
<1>3. ASSUME NEW w \in IntWidths, NEW x \in IntRange(w),
             appendInt(x, w) \/ prependInt(x, w)
      PROVE  Inv' /\ Queue!Next
  <2> x \in Int
    BY DEF IntRange
  <2> PICK bytes \in NetworkOrder(x, w) : append(bytes) \/ prepend(bytes)
    BY <1>3 DEF appendInt, prependInt
  <2> bytes \in Data
    BY DataProperties
  <2> QED
    BY <1>1, <1>2
<1>4. ASSUME NEW w \in IntWidths, peekInt(w) \/ readInt(w)
      PROVE  Inv' /\ Queue!Next
  BY <1>4, PeekStep, ReadStep DEF Queue!Next
<1>5. ASSUME NEW len \in 0 .. MaxChunk, ensureWritableBytes(len) \/ shrink(len)
      PROVE  Inv' /\ Queue!Next
  BY <1>5, EnsureStep, ShrinkStep DEF Queue!Next
<1>6. ASSUME NEW len \in 0 .. MaxChunk, unwrite(len)
      PROVE  Inv' /\ Queue!Next
  <2>1. len \in 0 .. Len(Readable)
    BY <1>6, BufferAssumption, ReadableProperties DEF unwrite
  <2> QED
    BY <1>6, <2>1, UnwriteStep DEF Queue!Next
<1>7. ASSUME NEW len \in 0 .. readableBytes,
             retrieve(len) \/ retrieveAsString(len)
      PROVE  Inv' /\ Queue!Next
  <2>1. /\ len \in Nat /\ len \in 0 .. Len(Readable) /\ Retrieved(len)
        /\ UNCHANGED result \/ result' = First(len)
    BY <1>7, ReadableProperties DEF retrieve, retrieveAsString
  <2>2. Inv' /\ Queue!Drop(len) /\ First(len) = Queue!First(len)
    BY <2>1, RetrievedStep
  <2> QED
    BY <2>1, <2>2 DEF Queue!Next, Queue!ReadBytes
<1>8. ASSUME retrieveAll
      PROVE  Inv' /\ Queue!Next
  <2>1. Len(Readable) \in 0 .. Len(Readable)
    BY ReadableProperties
  <2> QED
    BY <1>8, <2>1, RetrieveAllStep DEF Queue!Next
<1> QED
  BY <1>1, <1>2, <1>3, <1>4, <1>5, <1>6, <1>7, <1>8 DEF Next

LEMMA StutterStep ==
  ASSUME Inv, UNCHANGED vars
  PROVE  Inv' /\ UNCHANGED Queue!vars
BY DEF vars, Inv, TypeOK, IndexOrder, Bounded, Queue!vars, Readable

LEMMA Invariance == Spec => []Inv
<1>1. Init => Inv
  BY InitInv
<1>2. Inv /\ [Next]_vars => Inv'
  BY NextStep, StutterStep
<1> QED
  BY <1>1, <1>2, PTL DEF Spec

(* The vector always holds bytes and the indices are counts.               *)
THEOREM TypeCorrect == Spec => []TypeOK
<1>1. Inv => TypeOK
  BY DEF Inv
<1> QED
  BY <1>1, Invariance, PTL

(* After any sequence of legal calls the indices are ordered as in the     *)
(* comment of the class, so that readableBytes() and writableBytes(),      *)
(* which subtract unsigned numbers, never wrap around.                     *)
THEOREM IndicesOrdered == Spec => []IndexOrder
<1>1. Inv => IndexOrder
  BY DEF Inv
<1> QED
  BY <1>1, Invariance, PTL

(* The vector never outgrows what its callers hold and ask for.            *)
THEOREM SizeBounded == Spec => []Bounded
<1>1. Inv => Bounded
  BY DEF Inv
<1> QED
  BY <1>1, Invariance, PTL

(* Whatever the calls so far, the next request for room is met: the        *)
(* indices stay in order, the request fits, and the readable bytes are     *)
(* where they were or moved to the full headroom, all of them, unchanged.  *)
THEOREM MakeSpaceAsserts == Spec => []MakeSpaceSafe
<1>1. Inv => MakeSpaceSafe
  <2> SUFFICES ASSUME Inv, NEW len \in 0 .. MaxChunk
               PROVE  LET b == Roomy(len) IN
                      /\ b.r <= b.w /\ len <= Len(b.vec) - b.w
                      /\ b.w - b.r = readableBytes
                      /\ SubSeq(b.vec, b.r + 1, b.w) = Readable
                      /\ \/ b.r = readerIndex_
                         \/ /\ b.r = kCheapPrepend /\ b.r < readerIndex_
                            /\ Len(b.vec) = Len(buffer_)
    BY DEF MakeSpaceSafe
  <2> DEFINE v == Roomy(len).vec
             m == Roomy(len).r
             n == Roomy(len).w
  <2>1. len \in Nat /\ TypeOK /\ IndexOrder
    BY BufferAssumption DEF Inv
  <2>2. /\ v \in Seq(Byte) /\ m \in Nat /\ n \in Nat
        /\ m <= n /\ n + len <= Len(v)
        /\ n - m = readableBytes
        /\ \A i \in 1 .. readableBytes : v[m + i] = buffer_[readerIndex_ + i]
        /\ \/ m = readerIndex_
           \/ m = kCheapPrepend /\ m < readerIndex_ /\ Len(v) = Len(buffer_)
    BY <2>1, RoomyProperties
  <2> HIDE DEF v, m, n
  <2>3. /\ n <= Len(v) /\ len <= Len(v) - n
        /\ buffer_ \in Seq(Byte) /\ readerIndex_ \in Nat
        /\ writerIndex_ \in Nat /\ readerIndex_ <= writerIndex_
        /\ writerIndex_ <= Len(buffer_)
        /\ readableBytes = writerIndex_ - readerIndex_
    BY <2>1, <2>2 DEF TypeOK, IndexOrder, readableBytes
  <2>4. SubSeq(v, m + 1, n) = Readable
    <3> DEFINE u == SubSeq(v, m + 1, n)
    <3>1. /\ u \in Seq(Byte) /\ Len(u) = n - m
          /\ \A i \in 1 .. n - m : u[i] = v[m + i]
      BY <2>2, <2>3, WindowProperties
    <3>2. /\ Readable \in Seq(Byte) /\ Len(Readable) = readableBytes
          /\ \A i \in 1 .. readableBytes :
               Readable[i] = buffer_[readerIndex_ + i]
      BY ReadableProperties
    <3> HIDE DEF u
    <3>3. Len(u) = readableBytes /\ \A i \in 1 .. Len(u) : u[i] = Readable[i]
      BY <2>2, <3>1, <3>2
    <3>4. u = Readable
      BY <3>1, <3>2, <3>3, SeqEqual
    <3>5. QED BY <3>4 DEF u
  <2>5. QED BY <2>2, <2>3, <2>4 DEF v, m, n
<1>2. QED BY <1>1, Invariance, PTL

(* The buffer implements the byte queue: no operation loses, repeats or    *)
(* reorders a readable byte, however it moves the bytes in memory.         *)
THEOREM ImplementsByteQueue == Spec => QueueSpec
<1>1. Init => Queue!Init
  <2> SUFFICES ASSUME Init PROVE Queue!Init
    OBVIOUS
  <2>1. Readable = <<>>
    BY BufferAssumption, SubSeqEmpty DEF Init, Readable
  <2> QED
    BY <2>1 DEF Init, Queue!Init
<1>2. Inv /\ [Next]_vars => [Queue!Next]_(Queue!vars)
  BY NextStep, StutterStep
<1> QED
  BY <1>1, <1>2, Invariance, PTL DEF Spec, QueueSpec, Queue!Spec

-----------------------------------------------------------------------------
(* The integers in network byte order, for bytes of any even number of     *)
(* values and integers of any width.  f[i] is the number that the first i  *)
(* of n digits spell behind first.                                         *)
Spells(f, first, digits, n) ==
  f = [i \in 0 .. n |-> IF i = 0 THEN first ELSE Base * f[i - 1] + digits[i]]

LEMMA SpellsAt ==
  ASSUME NEW f, NEW first, NEW digits, NEW n, Spells(f, first, digits, n),
         NEW i \in 0 .. n
  PROVE  f[i] = IF i = 0 THEN first ELSE Base * f[i - 1] + digits[i]
BY DEF Spells

(* There is such a function: the definition of Value has a meaning.        *)
LEMMA SpellsExists ==
  ASSUME NEW first, NEW digits, NEW n \in Nat
  PROVE  \E f : Spells(f, first, digits, n)
<1> DEFINE T == {k \in Nat : \E f : Spells(f, first, digits, k)}
<1>1. 0 \in T
  <2> DEFINE h == [i \in 0 .. 0 |-> first]
  <2>1. h = [i \in 0 .. 0 |-> IF i = 0 THEN first
                               ELSE Base * h[i - 1] + digits[i]]
    OBVIOUS
  <2> HIDE DEF h
  <2>2. Spells(h, first, digits, 0)
    BY <2>1 DEF Spells
  <2>3. QED BY <2>2
<1>2. ASSUME NEW k \in 1 .. n, k - 1 \in T
      PROVE  k \in T
  <2>1. PICK g : Spells(g, first, digits, k - 1)
    BY <1>2
  <2> DEFINE h == [i \in 0 .. k |->
                     IF i = k THEN Base * g[k - 1] + digits[k] ELSE g[i]]
  <2>2. ASSUME NEW i \in 0 .. k
        PROVE  h[i] = IF i = 0 THEN first ELSE Base * h[i - 1] + digits[i]
    <3>1. CASE i = 0
      <4>1. i \in 0 .. k - 1 /\ i # k
        BY <3>1
      <4>2. g[i] = first
        BY <2>1, <3>1, <4>1, SpellsAt
      <4>3. QED BY <3>1, <4>1, <4>2
    <3>2. CASE i # 0
      <4>1. i - 1 \in 0 .. k /\ i - 1 # k
        BY <3>2
      <4>2. h[i - 1] = g[i - 1]
        BY <4>1
      <4>3. CASE i = k
        BY <3>2, <4>2, <4>3
      <4>4. CASE i # k
        <5>1. i \in 0 .. k - 1
          BY <4>4
        <5>2. g[i] = Base * g[i - 1] + digits[i]
          BY <2>1, <3>2, <5>1, SpellsAt
        <5>3. QED BY <3>2, <4>2, <4>4, <5>2
      <4>5. QED BY <4>3, <4>4
    <3>3. QED BY <3>1, <3>2
  <2>3. Spells(h, first, digits, k)
    BY <2>2 DEF Spells
  <2>4. QED BY <1>2, <2>3
<1> HIDE DEF T
<1>3. n \in T
  BY <1>1, <1>2, ByInduction
<1>4. QED BY <1>3 DEF T

(* Its first m values depend on the first m digits alone.                  *)
LEMMA SpellsSame ==
  ASSUME NEW first, NEW d, NEW e, NEW f, NEW g, NEW m \in Nat, NEW n \in Nat,
         Spells(f, first, d, m), Spells(g, first, e, n), m <= n,
         \A i \in 1 .. m : e[i] = d[i]
  PROVE  \A i \in 0 .. m : g[i] = f[i]
<1> DEFINE T == {k \in Nat : k <= m => g[k] = f[k]}
<1>1. 0 \in T
  <2>1. 0 \in 0 .. m /\ 0 \in 0 .. n
    OBVIOUS
  <2>2. g[0] = first /\ f[0] = first
    BY <2>1, SpellsAt
  <2>3. QED BY <2>2
<1>2. ASSUME NEW k \in Nat \ {0}, k - 1 \in T PROVE k \in T
  <2>1. CASE k <= m
    <3>1. /\ k \in 0 .. m /\ k \in 0 .. n /\ k # 0 /\ k \in 1 .. m
          /\ k - 1 <= m
      BY <2>1
    <3>2. /\ f[k] = Base * f[k - 1] + d[k]
          /\ g[k] = Base * g[k - 1] + e[k]
      BY <3>1, SpellsAt
    <3>3. g[k - 1] = f[k - 1]
      BY <1>2, <3>1
    <3>4. e[k] = d[k]
      BY <3>1
    <3>5. QED BY <3>2, <3>3, <3>4
  <2>2. CASE ~ k <= m
    BY <2>2
  <2>3. QED BY <2>1, <2>2
<1> HIDE DEF T
<1>3. ASSUME NEW i \in 0 .. m PROVE g[i] = f[i]
  <2>1. i \in Nat /\ \A k \in 1 .. i : k \in Nat \ {0}
    OBVIOUS
  <2>2. i \in T
    BY <1>1, <1>2, <2>1, ByInduction
  <2>3. QED BY <2>2 DEF T
<1>4. QED BY <1>3

LEMMA SpellsInt ==
  ASSUME NEW first \in Int, NEW d, NEW f, NEW n \in Nat,
         Spells(f, first, d, n), \A i \in 1 .. n : d[i] \in Int
  PROVE  \A i \in 0 .. n : f[i] \in Int
<1> DEFINE T == {k \in Nat : k <= n => f[k] \in Int}
<1>1. 0 \in T
  <2>1. 0 \in 0 .. n
    OBVIOUS
  <2>2. f[0] = first
    BY <2>1, SpellsAt
  <2>3. QED BY <2>2
<1>2. ASSUME NEW k \in Nat \ {0}, k - 1 \in T PROVE k \in T
  <2>1. CASE k <= n
    <3>1. k \in 0 .. n /\ k # 0 /\ k \in 1 .. n /\ k - 1 <= n
      BY <2>1
    <3>2. f[k] = Base * f[k - 1] + d[k]
      BY <3>1, SpellsAt
    <3>3. f[k - 1] \in Int /\ d[k] \in Int /\ Base \in Int
      BY <1>2, <3>1, BaseAssumption
    <3>4. QED BY <3>2, <3>3
  <2>2. CASE ~ k <= n
    BY <2>2
  <2>3. QED BY <2>1, <2>2
<1> HIDE DEF T
<1>3. ASSUME NEW i \in 0 .. n PROVE f[i] \in Int
  <2>1. i \in Nat /\ \A k \in 1 .. i : k \in Nat \ {0}
    OBVIOUS
  <2>2. i \in T
    BY <1>1, <1>2, <2>1, ByInduction
  <2>3. QED BY <2>2 DEF T
<1>4. QED BY <1>3

LEMMA ValueSpells ==
  ASSUME NEW first, NEW digits, Len(digits) \in Nat
  PROVE  \E f : /\ Spells(f, first, digits, Len(digits))
                /\ Value(first, digits) = f[Len(digits)]
<1> DEFINE f == CHOOSE g : Spells(g, first, digits, Len(digits))
<1>1. Spells(f, first, digits, Len(digits))
  BY SpellsExists
<1>2. Value(first, digits) = f[Len(digits)]
  BY DEF Value, Spells
<1>3. QED BY <1>1, <1>2

-----------------------------------------------------------------------------
(* The powers of the base, one by one.                                     *)
LEMMA PowerNext ==
  ASSUME NEW n \in Nat
  PROVE  Power(0) = 1 /\ Power(n + 1) = Base * Power(n) + 0
<1> DEFINE Zeros(k) == [i \in 1 .. k |-> 0]
<1>1. ASSUME NEW k \in Nat
      PROVE  \E f : Spells(f, 1, Zeros(k), k) /\ Power(k) = f[k]
  <2>1. Len(Zeros(k)) = k
    OBVIOUS
  <2>2. Power(k) = Value(1, Zeros(k))
    BY DEF Power
  <2> HIDE DEF Zeros
  <2>3. PICK f : /\ Spells(f, 1, Zeros(k), Len(Zeros(k)))
                 /\ Value(1, Zeros(k)) = f[Len(Zeros(k))]
    BY <2>1, ValueSpells
  <2>4. Spells(f, 1, Zeros(k), k) /\ Power(k) = f[k]
    BY <2>1, <2>2, <2>3
  <2>5. QED BY <2>4
<1>2. \A i \in 1 .. n : Zeros(n + 1)[i] = Zeros(n)[i]
  OBVIOUS
<1>3. Zeros(n + 1)[n + 1] = 0
  OBVIOUS
<1> HIDE DEF Zeros
<1>4. PICK f : Spells(f, 1, Zeros(n), n) /\ Power(n) = f[n]
  BY <1>1
<1>5. n + 1 \in Nat /\ n <= n + 1 /\ (n + 1) - 1 = n
  OBVIOUS
<1>6. PICK g : Spells(g, 1, Zeros(n + 1), n + 1) /\ Power(n + 1) = g[n + 1]
  BY <1>1, <1>5
<1>7. g[n] = f[n]
  <2>1. \A i \in 0 .. n : g[i] = f[i]
    BY <1>2, <1>4, <1>5, <1>6, SpellsSame
  <2>2. QED BY <2>1
<1>8. g[n + 1] = Base * g[n] + 0
  <2>1. n + 1 \in 0 .. n + 1 /\ n + 1 # 0
    OBVIOUS
  <2>2. g[n + 1] = Base * g[(n + 1) - 1] + Zeros(n + 1)[n + 1]
    BY <1>6, <2>1, SpellsAt
  <2>3. QED BY <1>3, <1>5, <2>2
<1>9. Power(0) = 1
  <2>1. PICK h : Spells(h, 1, Zeros(0), 0) /\ Power(0) = h[0]
    BY <1>1
  <2>2. h[0] = 1
    BY <2>1, SpellsAt
  <2>3. QED BY <2>1, <2>2
<1>10. QED BY <1>4, <1>6, <1>7, <1>8, <1>9

LEMMA PowerPositive ==
  ASSUME NEW n \in Nat
  PROVE  Power(n) \in Nat \ {0}
<1> DEFINE T == {k \in Nat : Power(k) \in Nat \ {0}}
<1>1. 0 \in T
  BY PowerNext
<1>2. ASSUME NEW k \in 1 .. n, k - 1 \in T PROVE k \in T
  <2>1. k - 1 \in Nat /\ (k - 1) + 1 = k /\ Power(k - 1) \in Nat \ {0}
    BY <1>2
  <2>2. Power((k - 1) + 1) = Base * Power(k - 1) + 0
    BY <2>1, PowerNext
  <2>3. ASSUME NEW b \in Nat \ {0}, NEW p \in Nat \ {0}
        PROVE  b * p + 0 \in Nat \ {0}
    OBVIOUS
  <2>4. Base \in Nat \ {0}
    BY BaseAssumption
  <2>5. Power(k) \in Nat \ {0}
    BY <2>1, <2>2, <2>3, <2>4
  <2>6. QED BY <2>5
<1> HIDE DEF T
<1>3. n \in T
  BY <1>1, <1>2, ByInduction
<1>4. QED BY <1>3 DEF T

LEMMA PowerStep ==
  ASSUME NEW n \in Nat
  PROVE  Power(n + 1) = Base * Power(n)
<1>1. Power(n + 1) = Base * Power(n) + 0
  BY PowerNext
<1>2. Power(n) \in Int /\ Base \in Int
  BY PowerPositive, BaseAssumption
<1>3. QED BY <1>1, <1>2

-----------------------------------------------------------------------------
(* Quotient and remainder, of which there is one pair, and the quotient of *)
(* a quotient.                                                             *)
LEMMA Division ==
  ASSUME NEW a \in Int, NEW p \in Nat \ {0}
  PROVE  /\ a \div p \in Int /\ a % p \in 0 .. p - 1
         /\ a = p * (a \div p) + (a % p)
<1>1. a \div p \in Int /\ a % p \in 0 .. p - 1
  OBVIOUS
<1>2. p \in Int /\ p > 0
  OBVIOUS
<1>3. ASSUME NEW b \in Int, NEW q \in Int, q > 0
      PROVE  b = q * (b \div q) + (b % q)
  BY <1>3
<1>4. a = p * (a \div p) + (a % p)
  BY <1>2, <1>3
<1>5. QED BY <1>1, <1>4

LEMMA Quotient ==
  ASSUME NEW a \in Int, NEW p \in Nat \ {0}, NEW q \in Int,
         NEW r \in 0 .. p - 1, a = p * q + r
  PROVE  a \div p = q /\ a % p = r
<1> DEFINE y == a \div p
           s == a % p
<1>1. y \in Int /\ s \in 0 .. p - 1 /\ p * y + s = p * q + r
  BY Division
<1> HIDE DEF y, s
<1>2. y = q /\ s = r
  BY <1>1
<1>3. QED BY <1>2 DEF y, s

LEMMA Scaled ==
  ASSUME NEW b \in Int, NEW p \in Int, NEW q \in Int, NEW s \in Int, NEW r \in Int
  PROVE  p * (b * q + s) + r = (b * p) * q + (p * s + r)
OBVIOUS

LEMMA Carried ==
  ASSUME NEW b \in Nat \ {0}, NEW p \in Nat \ {0},
         NEW s \in 0 .. b - 1, NEW r \in 0 .. p - 1
  PROVE  b * p \in Nat \ {0} /\ p * s + r \in 0 .. b * p - 1
<1>1. b * p \in Nat \ {0} /\ p * s \in Nat
  OBVIOUS
<1>2. p * s <= p * (b - 1)
  OBVIOUS
<1>3. p * (b - 1) = b * p - p
  OBVIOUS
<1>4. QED BY <1>1, <1>2, <1>3

LEMMA QuotientTwice ==
  ASSUME NEW a \in Int, NEW b \in Nat \ {0}, NEW p \in Nat \ {0}
  PROVE  a \div p = b * (a \div (b * p)) + ((a \div p) % b)
<1> DEFINE q == a \div p
           r == a % p
           z == q \div b
           s == q % b
<1>1. q \in Int /\ r \in 0 .. p - 1 /\ a = p * q + r
  BY Division
<1> HIDE DEF q, r
<1>2. z \in Int /\ s \in 0 .. b - 1 /\ q = b * z + s
  BY <1>1, Division
<1> HIDE DEF z, s
<1> DEFINE c == b * p
           u == p * s + r
<1>3. p * (b * z + s) + r = c * z + u
  BY <1>1, <1>2, Scaled
<1>4. c \in Nat \ {0} /\ u \in 0 .. c - 1
  BY <1>1, <1>2, Carried
<1>5. a = c * z + u
  BY <1>1, <1>2, <1>3
<1> HIDE DEF c, u
<1>6. a \div c = z
  BY <1>2, <1>4, <1>5, Quotient
<1>7. q = b * (a \div c) + s
  BY <1>2, <1>6
<1>8. QED BY <1>7, Zenon DEF q, s, c

LEMMA EvenHalf ==
  ASSUME NEW n \in Nat
  PROVE  /\ Power(n + 1) \div 2 \in Nat
         /\ Power(n + 1) = 2 * (Power(n + 1) \div 2)
<1> DEFINE p == Power(n)
           c == Base \div 2
<1>1. /\ Base \in Int /\ p \in Nat /\ Power(n + 1) = Base * p
  BY PowerPositive, PowerStep, BaseAssumption
<1>2. c \in Int /\ Base = 2 * c /\ c > 0
  BY BaseAssumption
<1> HIDE DEF p, c
<1>3. Base * p = 2 * (c * p) + 0 /\ c * p \in Nat
  BY <1>1, <1>2
<1>4. (Base * p) \div 2 = c * p
  <2>1. Base * p \in Int /\ c * p \in Int /\ 0 \in 0 .. 2 - 1 /\ 2 \in Nat \ {0}
    BY <1>3
  <2>2. QED BY <1>3, <2>1, Quotient
<1>5. QED BY <1>1, <1>3, <1>4

-----------------------------------------------------------------------------
(* The upper digits of a number are its quotient by a power, and the       *)
(* others its remainder.                                                   *)
LEMMA UpperDigits ==
  ASSUME NEW first \in Int, NEW d, NEW f, NEW n \in Nat,
         Spells(f, first, d, n), \A i \in 1 .. n : d[i] \in Byte,
         NEW k \in 0 .. n
  PROVE  \E r \in 0 .. Power(k) - 1 : f[n] = Power(k) * f[n - k] + r
<1> DEFINE T == {j \in Nat : j <= n =>
                   \E r \in 0 .. Power(j) - 1 :
                     f[n] = Power(j) * f[n - j] + r}
<1>1. \A i \in 0 .. n : f[i] \in Int
  <2>1. \A i \in 1 .. n : d[i] \in Int
    BY DEF Byte
  <2>2. QED BY <2>1, SpellsInt
<1>2. 0 \in T
  <2>1. Power(0) = 1 /\ n - 0 = n /\ f[n] \in Int
    BY <1>1, PowerNext
  <2>2. f[n] = 1 * f[n] + 0
    BY <2>1
  <2>3. QED BY <2>1, <2>2
<1>3. ASSUME NEW j \in 1 .. k, j - 1 \in T PROVE j \in T
  <2>1. /\ j \in Nat /\ j - 1 \in Nat /\ (j - 1) + 1 = j /\ j <= n
        /\ n - (j - 1) \in 0 .. n /\ n - (j - 1) # 0
        /\ n - (j - 1) \in 1 .. n /\ (n - (j - 1)) - 1 = n - j
        /\ n - j \in 0 .. n /\ j - 1 <= n
    OBVIOUS
  <2> DEFINE p == Power(j - 1)
             x == f[n - j]
             y == f[n - (j - 1)]
             s == d[n - (j - 1)]
  <2>2. PICK r \in 0 .. p - 1 : f[n] = p * y + r
    BY <1>3, <2>1
  <2>3. /\ p \in Nat \ {0} /\ Power(j) = Base * p
        /\ Base \in Nat \ {0}
    BY <2>1, PowerPositive, PowerStep, BaseAssumption
  <2>4. x \in Int /\ y \in Int /\ s \in 0 .. Base - 1
    BY <1>1, <2>1 DEF Byte
  <2>5. y = Base * x + s
    BY <2>1, SpellsAt
  <2> HIDE DEF p, y, s, x
  <2>6. p * (Base * x + s) + r = (Base * p) * x + (p * s + r)
    BY <2>2, <2>3, <2>4, Scaled
  <2>7. p * s + r \in 0 .. Base * p - 1
    BY <2>2, <2>3, <2>4, Carried
  <2>8. f[n] = Power(j) * x + (p * s + r)
    BY <2>2, <2>3, <2>5, <2>6
  <2>9. \E t \in 0 .. Power(j) - 1 : f[n] = Power(j) * f[n - j] + t
    BY <2>3, <2>7, <2>8 DEF x
  <2>10. QED BY <2>1, <2>9
<1> HIDE DEF T
<1>4. k \in T
  BY <1>2, <1>3, ByInduction
<1>5. QED BY <1>4 DEF T

(* What is in front counts as often as there are such numbers.             *)
LEMMA FrontDigit ==
  ASSUME NEW d, NEW f, NEW g, NEW n \in Nat, \A i \in 1 .. n : d[i] \in Byte,
         Spells(f, 0, d, n), Spells(g, -1, d, n)
  PROVE  g[n] = f[n] - Power(n)
<1> DEFINE T == {k \in Nat : k <= n => g[k] = f[k] - Power(k)}
<1>1. \A i \in 1 .. n : d[i] \in Int
  BY DEF Byte
<1>2. \A i \in 0 .. n : f[i] \in Int /\ g[i] \in Int
  BY <1>1, SpellsInt
<1>3. 0 \in T
  <2>1. 0 \in 0 .. n /\ Power(0) = 1
    BY PowerNext
  <2>2. f[0] = 0 /\ g[0] = -1
    BY <2>1, SpellsAt
  <2>3. QED BY <2>1, <2>2
<1>4. ASSUME NEW k \in 1 .. n, k - 1 \in T PROVE k \in T
  <2>1. /\ k \in 0 .. n /\ k # 0 /\ k - 1 \in Nat /\ (k - 1) + 1 = k
        /\ k - 1 <= n /\ k - 1 \in 0 .. n
    OBVIOUS
  <2> DEFINE p == Power(k - 1)
             x == f[k - 1]
             e == d[k]
  <2>2. g[k - 1] = x - p
    BY <1>4, <2>1
  <2>3. f[k] = Base * x + e /\ g[k] = Base * (x - p) + e
    <3>1. f[k] = Base * f[k - 1] + d[k] /\ g[k] = Base * g[k - 1] + d[k]
      BY <2>1, SpellsAt
    <3>2. QED BY <2>2, <3>1
  <2>4. p \in Int /\ Power(k) = Base * p /\ Base \in Int
    BY <2>1, PowerPositive, PowerStep, BaseAssumption
  <2>5. x \in Int /\ e \in Int
    BY <1>1, <1>2, <2>1
  <2> HIDE DEF p, x, e
  <2>6. Base * (x - p) + e = (Base * x + e) - Base * p
    BY <2>4, <2>5
  <2>7. QED BY <2>1, <2>3, <2>4, <2>6
<1> HIDE DEF T
<1>5. n \in T
  BY <1>3, <1>4, ByInduction
<1>6. QED BY <1>5 DEF T

-----------------------------------------------------------------------------
LEMMA DigitsOf ==
  ASSUME NEW w \in Nat, NEW bytes \in [1 .. w -> Byte]
  PROVE  \E f, g :
           /\ Spells(f, 0, bytes, w) /\ Spells(g, -1, bytes, w)
           /\ f[w] \in Int /\ g[w] = f[w] - Power(w)
           /\ Decode(bytes) = IF 2 * f[w] >= Power(w) THEN g[w] ELSE f[w]
<1>1. Len(bytes) = w /\ \A i \in 1 .. w : bytes[i] \in Byte
  OBVIOUS
<1>2. PICK f : Spells(f, 0, bytes, w) /\ Unsigned(bytes) = f[w]
  <2>1. PICK f : /\ Spells(f, 0, bytes, Len(bytes))
                 /\ Value(0, bytes) = f[Len(bytes)]
    BY <1>1, ValueSpells
  <2>2. QED BY <1>1, <2>1 DEF Unsigned
<1>3. PICK g : Spells(g, -1, bytes, w)
  BY SpellsExists
<1>4. f[w] \in Int
  <2>1. \A i \in 1 .. w : bytes[i] \in Int
    BY <1>1 DEF Byte
  <2>2. \A i \in 0 .. w : f[i] \in Int
    BY <1>2, <2>1, SpellsInt
  <2>3. QED BY <2>2
<1>5. g[w] = f[w] - Power(w)
  BY <1>1, <1>2, <1>3, FrontDigit
<1>6. Decode(bytes) = IF 2 * f[w] >= Power(w) THEN f[w] - Power(w) ELSE f[w]
  BY <1>1, <1>2, Zenon DEF Decode
<1>7. Decode(bytes) = IF 2 * f[w] >= Power(w) THEN g[w] ELSE f[w]
  BY <1>5, <1>6, Zenon
<1>8. QED BY <1>2, <1>3, <1>4, <1>5, <1>7

(* What bytes are read as is written as the same bytes.                    *)
LEMMA WrittenAsRead ==
  ASSUME NEW w \in Nat, NEW bytes \in [1 .. w -> Byte]
  PROVE  bytes \in NetworkOrder(Decode(bytes), w)
<1> DEFINE x == Decode(bytes)
<1>1. PICK first \in {0, -1} : \E h : Spells(h, first, bytes, w) /\ x = h[w]
  <2>1. PICK f, g :
           /\ Spells(f, 0, bytes, w) /\ Spells(g, -1, bytes, w)
           /\ x = IF 2 * f[w] >= Power(w) THEN g[w] ELSE f[w]
    BY DigitsOf
  <2> HIDE DEF x
  <2>2. CASE 2 * f[w] >= Power(w)
    BY <2>1, <2>2
  <2>3. CASE ~ 2 * f[w] >= Power(w)
    BY <2>1, <2>3
  <2>4. QED BY <2>2, <2>3
<1>2. PICK h : Spells(h, first, bytes, w) /\ x = h[w]
  BY <1>1
<1>3. first \in Int /\ \A i \in 1 .. w : bytes[i] \in Byte /\ bytes[i] \in Int
  BY DEF Byte
<1>4. \A i \in 0 .. w : h[i] \in Int
  BY <1>2, <1>3, SpellsInt
<1> HIDE DEF x
<1>5. ASSUME NEW i \in 1 .. w PROVE bytes[i] = (x \div Power(w - i)) % Base
  <2>1. /\ w - i \in 0 .. w /\ w - (w - i) = i /\ w - i \in Nat
        /\ i \in 0 .. w /\ i # 0 /\ i - 1 \in 0 .. w /\ w \in 0 .. w
    OBVIOUS
  <2> DEFINE p == Power(w - i)
  <2>2. PICK r \in 0 .. p - 1 : h[w] = p * h[w - (w - i)] + r
    <3> DEFINE k == w - i
    <3>1. k \in 0 .. w /\ \A j \in 1 .. w : bytes[j] \in Byte
      BY <2>1, <1>3
    <3>2. Spells(h, first, bytes, w) /\ first \in Int
      BY <1>2, <1>3
    <3> HIDE DEF k
    <3>3. \E r \in 0 .. Power(k) - 1 : h[w] = Power(k) * h[w - k] + r
      BY <3>1, <3>2, UpperDigits
    <3>4. QED BY <3>3 DEF k
  <2>3. p \in Nat \ {0}
    BY <2>1, PowerPositive
  <2> HIDE DEF p
  <2>4. x = p * h[i] + r /\ x \in Int /\ h[i] \in Int
    BY <1>2, <1>4, <2>1, <2>2
  <2>5. x \div p = h[i]
    BY <2>2, <2>3, <2>4, Quotient
  <2>6. h[i] = Base * h[i - 1] + bytes[i]
    BY <1>2, <2>1, SpellsAt
  <2>7. h[i - 1] \in Int /\ bytes[i] \in 0 .. Base - 1 /\ Base \in Nat \ {0}
    BY <1>3, <1>4, <2>1, BaseAssumption DEF Byte
  <2>8. h[i] % Base = bytes[i]
    <3> DEFINE a == h[i]
               y == h[i - 1]
               s == bytes[i]
    <3>1. /\ a \in Int /\ y \in Int /\ s \in 0 .. Base - 1
          /\ Base \in Nat \ {0} /\ a = Base * y + s
      BY <2>4, <2>6, <2>7
    <3> HIDE DEF a, y, s
    <3>2. a % Base = s
      BY <3>1, Quotient
    <3>3. QED BY <3>2 DEF a, s
  <2>9. QED BY <2>5, <2>8 DEF p
<1>6. QED BY <1>5 DEF NetworkOrder, x

(* A number of the range can be written, and what it is written as is read *)
(* as that number.                                                         *)
LEMMA ReadAsWritten ==
  ASSUME NEW w \in Nat \ {0}, NEW x \in IntRange(w)
  PROVE  /\ NetworkOrder(x, w) # {}
         /\ \A bytes \in NetworkOrder(x, w) : Decode(bytes) = x
<1> DEFINE p == Power(w)
           c == p \div 2
<1>1. w \in Nat /\ p \in Nat \ {0} /\ c \in Nat /\ p = 2 * c
  <2>1. w - 1 \in Nat /\ (w - 1) + 1 = w
    OBVIOUS
  <2>2. /\ Power((w - 1) + 1) \div 2 \in Nat
        /\ Power((w - 1) + 1) = 2 * (Power((w - 1) + 1) \div 2)
    BY <2>1, EvenHalf
  <2>3. QED BY <2>1, <2>2, PowerPositive
<1>2. x \in -c .. c - 1
  BY DEF IntRange
<1> HIDE DEF p, c
<1>3. x \in Int
  BY <1>1, <1>2
<1>4. \A i \in 0 .. w : x \div Power(w - i) \in Int
  <2>1. \A i \in 0 .. w : Power(w - i) \in Nat \ {0}
    <3>1. \A i \in 0 .. w : w - i \in Nat
      BY <1>1
    <3>2. QED BY <3>1, PowerPositive
  <2>2. QED BY <1>3, <2>1, Division
<1>5. NetworkOrder(x, w) # {}
  <2> DEFINE e == [i \in 1 .. w |-> (x \div Power(w - i)) % Base]
  <2>1. ASSUME NEW i \in 1 .. w
        PROVE  (x \div Power(w - i)) % Base \in Byte
    <3>1. x \div Power(w - i) \in Int /\ Base \in Nat \ {0}
      BY <1>4, BaseAssumption
    <3>2. QED BY <3>1, Division DEF Byte
  <2>2. e \in [1 .. w -> Byte]
    BY <2>1
  <2>3. e \in NetworkOrder(x, w)
    BY <2>2 DEF NetworkOrder
  <2>4. QED BY <2>3
<1>6. ASSUME NEW bytes \in NetworkOrder(x, w) PROVE Decode(bytes) = x
  <2>1. /\ bytes \in [1 .. w -> Byte]
        /\ \A i \in 1 .. w : bytes[i] = (x \div Power(w - i)) % Base
    BY DEF NetworkOrder
  <2> DEFINE q == [i \in 0 .. w |-> x \div Power(w - i)]
             first == x \div p
  <2>2. ASSUME NEW i \in 0 .. w
        PROVE  q[i] = IF i = 0 THEN first ELSE Base * q[i - 1] + bytes[i]
    <3>1. CASE i = 0
      <4>1. w - 0 = w
        BY <1>1
      <4>2. QED BY <3>1, <4>1 DEF p
    <3>2. CASE i # 0
      <4>1. /\ i \in 1 .. w /\ i - 1 \in 0 .. w /\ w - i \in Nat
            /\ w - (i - 1) = (w - i) + 1
        BY <1>1, <3>2
      <4> DEFINE o == Power(w - i)
                 y == x \div o
                 z == x \div (Base * o)
      <4>2. o \in Nat \ {0} /\ Power(w - (i - 1)) = Base * o
        BY <4>1, PowerPositive, PowerStep
      <4>3. Base \in Nat \ {0}
        BY BaseAssumption
      <4>4. y = Base * z + (y % Base)
        <5> HIDE DEF o
        <5>1. QED BY <1>3, <4>2, <4>3, QuotientTwice
      <4>5. q[i] = y /\ q[i - 1] = z
        BY <4>1, <4>2
      <4>6. bytes[i] = y % Base
        BY <2>1, <4>1
      <4> HIDE DEF y, z, q, o
      <4>7. q[i] = Base * q[i - 1] + bytes[i]
        BY <4>4, <4>5, <4>6
      <4>8. QED BY <3>2, <4>7
    <3>3. QED BY <3>1, <3>2
  <2>3. Spells(q, first, bytes, w)
    BY <2>2 DEF Spells
  <2>4. q[w] = x
    <3>1. w \in 0 .. w /\ w - w = 0
      BY <1>1
    <3>2. Power(0) = 1
      BY PowerNext
    <3>3. q[w] = x \div 1
      BY <3>1, <3>2
    <3>4. x = 1 * x + 0 /\ 0 \in 0 .. 1 - 1 /\ 1 \in Nat \ {0}
      BY <1>3
    <3>5. x \div 1 = x
      BY <1>3, <3>4, Quotient
    <3>6. QED BY <3>3, <3>5
  <2>5. PICK f, g :
          /\ Spells(f, 0, bytes, w) /\ Spells(g, -1, bytes, w)
          /\ f[w] \in Int /\ g[w] = f[w] - p
          /\ Decode(bytes) = IF 2 * f[w] >= p THEN g[w] ELSE f[w]
    BY <1>1, <2>1, DigitsOf DEF p
  <2> HIDE DEF q
  <2>6. CASE x >= 0
    <3>1. x = p * 0 + x /\ x \in 0 .. p - 1
      BY <1>1, <1>2, <2>6
    <3>2. first = 0
      BY <1>1, <1>3, <3>1, Quotient
    <3> HIDE DEF first
    <3>3. q[w] = f[w]
      <4>1. Spells(q, first, bytes, w) /\ Spells(f, first, bytes, w)
        BY <2>3, <2>5, <3>2
      <4>2. w \in Nat /\ w <= w /\ w \in 0 .. w
        BY <1>1
      <4>3. \A i \in 0 .. w : q[i] = f[i]
        BY <4>1, <4>2, SpellsSame
      <4>4. QED BY <4>2, <4>3
    <3>4. f[w] = x /\ ~ 2 * f[w] >= p
      BY <1>1, <1>2, <1>3, <2>4, <3>3
    <3>5. QED BY <2>5, <3>4
  <2>7. CASE x < 0
    <3>1. x = p * (-1) + (x + p) /\ x + p \in 0 .. p - 1
      BY <1>1, <1>2, <2>7
    <3>2. first = -1
      BY <1>1, <1>3, <3>1, Quotient
    <3> HIDE DEF first
    <3>3. q[w] = g[w]
      <4>1. Spells(q, first, bytes, w) /\ Spells(g, first, bytes, w)
        BY <2>3, <2>5, <3>2
      <4>2. w \in Nat /\ w <= w /\ w \in 0 .. w
        BY <1>1
      <4>3. \A i \in 0 .. w : q[i] = g[i]
        BY <4>1, <4>2, SpellsSame
      <4>4. QED BY <4>2, <4>3
    <3>4. g[w] = x /\ f[w] = x + p
      BY <1>1, <1>3, <2>4, <2>5, <3>3
    <3>5. 2 * f[w] >= p
      BY <1>1, <1>2, <1>3, <3>4
    <3>6. QED BY <2>5, <3>4, <3>5
  <2>8. QED BY <1>3, <2>6, <2>7
<1>7. QED BY <1>5, <1>6

(* For bytes of any even number of values and integers of any width: what  *)
(* appendInt or prependInt writes is what peekInt and readInt read, and    *)
(* whatever bytes are read as a number are those it would be written as.   *)
THEOREM IntegersRoundTrip == Spec => []IntRoundTrip
<1>1. Inv => IntRoundTrip
  <2> SUFFICES ASSUME Inv, NEW w \in IntWidths
               PROVE  /\ w <= readableBytes =>
                           First(w) \in NetworkOrder(Decode(First(w)), w)
                      /\ \A x \in IntRange(w) :
                           /\ NetworkOrder(x, w) # {}
                           /\ \A bytes \in NetworkOrder(x, w) :
                                Decode(bytes) = x
    BY DEF IntRoundTrip
  <2>1. w \in Nat \ {0} /\ w \in Nat
    BY BufferAssumption
  <2>2. ASSUME w <= readableBytes PROVE First(w) \in [1 .. w -> Byte]
    <3> DEFINE m == readerIndex_
               n == readerIndex_ + w
               v == First(w)
    <3>1. /\ buffer_ \in Seq(Byte) /\ m \in Nat /\ n \in Nat /\ m <= n
          /\ n <= Len(buffer_) /\ n - m = w
      BY <2>1, <2>2 DEF Inv, TypeOK, IndexOrder, readableBytes
    <3>2. v = SubSeq(buffer_, m + 1, n)
      BY DEF First
    <3> HIDE DEF m, n, v
    <3>3. v \in Seq(Byte) /\ Len(v) = w
      BY <3>1, <3>2, Window
    <3>4. QED BY <2>1, <3>3 DEF v
  <2>3. QED BY <2>1, <2>2, WrittenAsRead, ReadAsWritten
<1>2. QED BY <1>1, Invariance, PTL
=============================================================================
