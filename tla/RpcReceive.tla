----------------------------- MODULE RpcReceive ------------------------------
(***************************************************************************)
(* The receiving half of class rpc_codec: on_read gets the bytes of one    *)
(* async_read_some, cuts frames out of what inputBuffer_ has collected,    *)
(* checks their checksum and hands each one to rpcCallback_.               *)
(*                                                                         *)
(* The chat and asio_rpc_practice cut frames out of their input with the   *)
(* same loop, but without a checksum and with other shortest frames.       *)
(*                                                                         *)
(* A byte is named by the number of its frame and its place in it.         *)
(***************************************************************************)
EXTENDS Integers, SequencesExt

CONSTANTS
  SizeofInt32,     \* sizeof(int32_t): bytes of the length and of the checksum
  ReadSize,        \* bytes of the read buffer, 100 in the code
  Payloads,        \* how many bytes a serialized message can have
  MaxFrames        \* bound: frames that the peer sends

ASSUME ReceiveAssumption ==
  /\ SizeofInt32 \in Nat \ {0}
  /\ ReadSize \in Nat \ {0}
  /\ Payloads \subseteq Nat
  /\ MaxFrames \in Nat

VARIABLES
  framing,         \* rpc (rpc_codec), chat or asio
  frames,          \* what the peer sends: payload, and whether it is intact
  arriving,        \* bytes that have not been read from the socket
  inputBuffer_,    \* the readable bytes of the buffer
  delivered        \* the calls of rpcCallback_: the frame each one is about
                   \* (a damaged one is passed as nullptr) and the CodecError

readVars == <<framing, frames, arriving, inputBuffer_, delivered>>

-----------------------------------------------------------------------------
(* What there must be before the loop looks at a length.                   *)
kMinMessageLen ==
  [rpc  |-> SizeofInt32 + SizeofInt32,
   chat |-> SizeofInt32 + 1,
   asio |-> SizeofInt32]

(* The value of a frame's length field: the message and the checksum.      *)
LengthField(f) == f.payload + IF framing = "rpc" THEN SizeofInt32 ELSE 0

FrameSize(f) == SizeofInt32 + LengthField(f)

FrameBytes(i) == [j \in 1 .. FrameSize(frames[i]) |-> <<i, j>>]

Stream(from) ==
  FlattenSeq([k \in 1 .. Len(frames) - from + 1 |-> FrameBytes(from + k - 1)])

(* peekInt32: the first bytes are a length field.                          *)
peekInt32(b) == LengthField(frames[b[1][1]])

(* Mutant: the checksum is not looked at.                                  *)
validate_checksum_Never(f, body, len) == TRUE

(* adler32 of the message against the checksum behind it: they are the     *)
(* bytes of one frame, and it was not damaged.                             *)
validate_checksum(f, body, len) ==
  /\ body = SubSeq(FrameBytes(f), SizeofInt32 + 1, SizeofInt32 + len)
  /\ len = LengthField(frames[f])
  /\ frames[f].intact

(* Mutant: a shortest frame that exactly fills the buffer is left waiting. *)
HasFrame_Strict(b) ==
  /\ Len(b) > kMinMessageLen[framing]
  /\ Len(b) >= SizeofInt32 + peekInt32(b)

(* The two tests at the top of the loop.                                   *)
HasFrame(b) ==
  /\ Len(b) >= kMinMessageLen[framing]
  /\ Len(b) >= SizeofInt32 + peekInt32(b)

(* One turn of the loop: retrieve the length, look at the body, call back, *)
(* retrieve the body.                                                      *)
Turn(s) ==
  LET len   == peekInt32(s.input)
      body  == SubSeq(s.input, SizeofInt32 + 1, SizeofInt32 + len)
      frame == s.input[1][1]
      error == IF framing # "rpc" \/ validate_checksum(frame, body, len)
               THEN "kNoError" ELSE "kChecksumError"
  IN  [input |-> SubSeq(s.input, SizeofInt32 + len + 1, Len(s.input)),
       calls |-> Append(s.calls, [frame |-> frame, error |-> error])]

(* The loop: turns as long as there is a frame.  Every turn takes at least *)
(* one byte, so that Len(input) turns are enough.                          *)
Deframe(input) ==
  LET after[k \in 0 .. Len(input)] ==
        IF k = 0 THEN [input |-> input, calls |-> <<>>]
        ELSE IF HasFrame(after[k - 1].input) THEN Turn(after[k - 1])
        ELSE after[k - 1]
  IN  after[Len(input)]

-----------------------------------------------------------------------------
ReadInit ==
  /\ framing \in {"rpc", "chat", "asio"}
  /\ \E n \in 0 .. MaxFrames :
       frames \in [1 .. n ->
                   [payload : Payloads,
                    intact : IF framing = "rpc" THEN BOOLEAN ELSE {TRUE}]]
  /\ arriving = Stream(1)
  /\ inputBuffer_ = <<>>
  /\ delivered = <<>>

on_read(bytes) ==
  /\ LET s == Deframe(inputBuffer_ \o SubSeq(arriving, 1, bytes)) IN
       /\ inputBuffer_' = s.input
       /\ delivered' = delivered \o s.calls
  /\ arriving' = SubSeq(arriving, bytes + 1, Len(arriving))
  /\ UNCHANGED <<framing, frames>>

(* A read returns some of the bytes that have arrived, at least one.       *)
ReadNext ==
  \E bytes \in 1 .. ReadSize : bytes <= Len(arriving) /\ on_read(bytes)

ReadSpec == ReadInit /\ [][ReadNext]_readVars

-----------------------------------------------------------------------------
(* However the stream is cut into reads, the k-th call of rpcCallback_ is  *)
(* about the k-th frame, with an error just when that frame is damaged: a  *)
(* damaged frame costs no other frame.                                     *)
InOrder ==
  /\ Len(delivered) <= Len(frames)
  /\ \A k \in DOMAIN delivered :
       /\ delivered[k].frame = k
       /\ delivered[k].error = "kNoError" <=> frames[k].intact

(* Between reads the buffer is at the start of the next frame and holds    *)
(* less than all of it: a frame is delivered by the read that completes    *)
(* it, and every byte is in one place.  Only in the chat an empty message  *)
(* that ends the input waits for what comes behind it.                     *)
Prompt ==
  LET next == Len(delivered) + 1
  IN  /\ inputBuffer_ \o arriving = Stream(next)
      /\ inputBuffer_ # <<>> =>
           \/ Len(inputBuffer_) < FrameSize(frames[next])
           \/ /\ framing = "chat" /\ frames[next].payload = 0
              /\ Len(inputBuffer_) = SizeofInt32
=============================================================================
