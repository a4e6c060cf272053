------------------------------ MODULE ByteQueue ------------------------------
(***************************************************************************)
(* What class Buffer promises its callers: a queue of bytes that grows at  *)
(* the back, is consumed at the front, and keeps some headroom in front of *)
(* its first byte for a header that is written last.  Nothing is said of   *)
(* where the bytes live; Buffer.tla is shown to implement this module.     *)
(***************************************************************************)
EXTENDS NetInt

CONSTANTS
  kCheapPrepend,   \* headroom of a buffer that has just become empty
  IntWidths        \* the widths, in bytes, of the integers it reads

VARIABLES
  content,         \* the bytes that can be read, oldest first
  headroom,        \* how many bytes can be put in front of them
  result           \* what the last operation that returns something returned

vars == <<content, headroom, result>>

Init ==
  /\ content = <<>>
  /\ headroom = kCheapPrepend
  /\ result = <<>>

First(n) == SubSeq(content, 1, n)

(* Bytes arrive behind the ones that are there.  Making room for them may  *)
(* bring the headroom back to its nominal size.                            *)
Grow ==
  /\ content' \in Seq(Byte)
  /\ Len(content) <= Len(content')
  /\ content = SubSeq(content', 1, Len(content))
  /\ headroom' \in {headroom, kCheapPrepend}
  /\ UNCHANGED result

(* A header goes in front and is paid for with headroom.                   *)
PutFront ==
  /\ content' \in Seq(Byte)
  /\ \E n \in 0 .. Len(content') :
       /\ content = SubSeq(content', n + 1, Len(content'))
       /\ n <= headroom
       /\ headroom' = headroom - n
  /\ UNCHANGED result

(* Consuming everything restores the headroom, whatever it was.            *)
Drop(n) ==
  /\ n <= Len(content)
  /\ content' = SubSeq(content, n + 1, Len(content))
  /\ headroom' = IF n = Len(content) THEN kCheapPrepend ELSE headroom + n

TakeBack(n) ==
  /\ content' = First(Len(content) - n)
  /\ UNCHANGED <<headroom, result>>

(* Reads return the oldest bytes, or the number that they spell.           *)
ReadBytes(n) == Drop(n) /\ result' = First(n)

PeekInt(w) ==
  /\ w <= Len(content)
  /\ result' = <<Decode(First(w))>>
  /\ UNCHANGED <<content, headroom>>

ReadInt(w) == Drop(w) /\ result' = <<Decode(First(w))>>

Next ==
  \/ Grow
  \/ PutFront
  \/ \E n \in 0 .. Len(content) :
       \/ Drop(n) /\ UNCHANGED result
       \/ TakeBack(n)
       \/ ReadBytes(n)
  \/ \E w \in IntWidths : PeekInt(w) \/ ReadInt(w)

Spec == Init /\ [][Next]_vars
=============================================================================
