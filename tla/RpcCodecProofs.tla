---------------------------- MODULE RpcCodecProofs ---------------------------
(***************************************************************************)
(* What the two halves of rpc_codec guarantee.  Sending, for any number of *)
(* messages, of any lengths, and of threads; then receiving, for any       *)
(* frames and any reads.                                                   *)
(***************************************************************************)
EXTENDS RpcSend, RpcReceive, SequenceLemmas

Entry == [valid : BOOLEAN, headroom : Nat, bytes : Seq(Message \X Nat)]

(* The mutex is held by the call that scans, and what it has found stays   *)
(* valid until it is taken: only the holder of the mutex takes.            *)
Locked == \A m \in Message : lock = m <=> pc[m] \in {"scan", "take"}

Found ==
  \A m \in Message :
    pc[m] = "take" =>
      it[m] \in 1 .. Len(outputBuffers_) /\ outputBuffers_[it[m]].valid

(* Whoever holds a buffer has marked it, and every marked one is held.     *)
Owns ==
  \A m \in Message :
    pc[m] \in Holding =>
      /\ bufferValue[m] \in 1 .. Len(outputBuffers_)
      /\ ~ outputBuffers_[bufferValue[m]].valid

Owned ==
  \A b \in 1 .. Len(outputBuffers_) :
    ~ outputBuffers_[b].valid =>
      \E m \in Message : pc[m] \in Holding /\ bufferValue[m] = b

Clean ==
  \A b \in 1 .. Len(outputBuffers_) :
    outputBuffers_[b].valid =>
      outputBuffers_[b].bytes = <<>> /\ outputBuffers_[b].headroom = kCheapPrepend

(* What the holder of a buffer knows of it at each stage.                  *)
Stage(m) ==
  /\ pc[m] \in {"serialize", "prepend"} => Buf(m).headroom = kCheapPrepend
  /\ pc[m] \in {"queued", "written"} => region[m] = Buf(m).bytes
  /\ pc[m] = "written" => moved[m] <= Len(Buf(m).bytes)
  /\ pc[m] = "retrieved" /\ Buf(m).bytes = <<>> =>
       Buf(m).headroom = kCheapPrepend
  /\ pc[m] = "serialize" => Buf(m).bytes = <<>>

Stages == \A m \in Message : Stage(m)

Hands == Locked /\ Found /\ Owns /\ Owned /\ Exclusive /\ Clean

Inv == TypeOK /\ Hands /\ Stages

-----------------------------------------------------------------------------
(* The parts of a frame are bytes of their message.                        *)
LEMMA FrameProperties ==
  ASSUME NEW m \in Message
  PROVE  /\ Length(m) \in Seq(Message \X Nat)
         /\ BodyAndChecksum(m) \in Seq(Message \X Nat)
<1>1. FrameLen(m) \in Nat /\ IntBytes \in Nat /\ IntBytes <= FrameLen(m)
  BY SendAssumption DEF FrameLen
<1>2. \A i \in 1 .. FrameLen(m) : Frame(m)[i] \in Message \X Nat
  BY <1>1 DEF Frame
<1>3. \A i \in 1 .. IntBytes : Frame(m)[i] \in Message \X Nat
  BY <1>1, <1>2
<1>4. \A i \in IntBytes + 1 .. FrameLen(m) : Frame(m)[i] \in Message \X Nat
  BY <1>1, <1>2
<1>5. 1 \in Int /\ IntBytes \in Int /\ IntBytes + 1 \in Int /\ FrameLen(m) \in Int
  BY <1>1
<1>6. Length(m) \in Seq(Message \X Nat)
  BY <1>3, <1>5, SubSeqProperties DEF Length
<1>7. BodyAndChecksum(m) \in Seq(Message \X Nat)
  BY <1>4, <1>5, SubSeqProperties DEF BodyAndChecksum
<1> QED
  BY <1>6, <1>7

LEMMA EmptySeqOfBytes == <<>> \in Seq(Message \X Nat)
OBVIOUS

(* Replacing one entry of the pool leaves the others alone.                *)
LEMMA PoolUpdate ==
  ASSUME TypeOK, NEW b \in 1 .. Len(outputBuffers_), NEW e \in Entry,
         outputBuffers_' = [outputBuffers_ EXCEPT ![b] = e]
  PROVE  /\ outputBuffers_' \in Seq(Entry)
         /\ Len(outputBuffers_') = Len(outputBuffers_)
         /\ outputBuffers_'[b] = e
         /\ \A c \in 1 .. Len(outputBuffers_) :
              c # b => outputBuffers_'[c] = outputBuffers_[c]
BY DEF TypeOK, Entry

LEMMA HolderBuffer ==
  ASSUME Inv, NEW m \in Message, pc[m] \in Holding
  PROVE  /\ bufferValue[m] \in 1 .. Len(outputBuffers_)
         /\ ~ Buf(m).valid
         /\ Buf(m) \in Entry
         /\ Stage(m)
<1>1. /\ bufferValue[m] \in 1 .. Len(outputBuffers_)
      /\ ~ outputBuffers_[bufferValue[m]].valid
  BY DEF Inv, Hands, Owns
<1>2. outputBuffers_ \in Seq(Entry)
  BY DEF Inv, TypeOK, Entry
<1> QED
  BY <1>1, <1>2 DEF Buf, Inv, Stages

(* A step of the holder of a buffer inside that buffer: nothing changes    *)
(* for anyone else.                                                        *)
LEMMA HolderStep ==
  ASSUME Inv, NEW m \in Message, NEW e \in Entry, NEW label \in Holding,
         pc[m] \in Holding, ~ e.valid,
         outputBuffers_' = [outputBuffers_ EXCEPT ![bufferValue[m]] = e],
         Goto(m, label), UNCHANGED <<lock, it, bufferValue>>,
         \A n \in Message \ {m} :
           region'[n] = region[n] /\ moved'[n] = moved[n]
  PROVE  /\ outputBuffers_' \in Seq(Entry)
         /\ pc' \in [Message -> Holding \cup {"idle", "lock", "scan", "take", "done"}]
         /\ Hands'
         /\ Buf(m)' = e
         /\ \A n \in Message \ {m} : Stage(n)'
<1> DEFINE b == bufferValue[m]
<1>1. b \in 1 .. Len(outputBuffers_)
  BY DEF Inv, Hands, Owns
<1>2. /\ outputBuffers_' \in Seq(Entry)
      /\ Len(outputBuffers_') = Len(outputBuffers_)
      /\ outputBuffers_'[b] = e
      /\ \A c \in 1 .. Len(outputBuffers_) :
           c # b => outputBuffers_'[c] = outputBuffers_[c]
  BY <1>1, PoolUpdate DEF Inv
<1>3. /\ pc' \in [Message -> Holding \cup {"idle", "lock", "scan", "take", "done"}]
      /\ pc'[m] = label /\ \A n \in Message \ {m} : pc'[n] = pc[n]
  BY DEF Inv, TypeOK, Goto
<1>4. \A n \in Message \ {m} : pc[n] \in Holding => bufferValue[n] # b
  BY DEF Inv, Hands, Exclusive
<1>5. Hands'
  <2>1. Locked'
    BY <1>3 DEF Inv, Hands, Locked, Holding, Working
  <2>2. Found'
    <3> SUFFICES ASSUME NEW n \in Message, pc'[n] = "take"
                 PROVE  /\ it[n] \in 1 .. Len(outputBuffers_)
                        /\ outputBuffers_'[it[n]].valid
      BY <1>2 DEF Found
    <3>1. n # m /\ pc[n] = "take"
      BY <1>3 DEF Holding, Working
    <3>2. it[n] \in 1 .. Len(outputBuffers_) /\ outputBuffers_[it[n]].valid
      BY <3>1 DEF Inv, Hands, Found
    <3>3. it[n] # b
      BY <3>2 DEF Inv, Hands, Owns
    <3> QED
      BY <1>2, <3>2, <3>3
  <2>3. Owns'
    BY <1>1, <1>2, <1>3, <1>4 DEF Inv, Hands, Owns
  <2>4. Owned'
    BY <1>1, <1>2, <1>3 DEF Inv, Hands, Owned
  <2>5. Exclusive'
    BY <1>3 DEF Inv, Hands, Exclusive
  <2>6. Clean'
    BY <1>2 DEF Inv, Hands, Clean
  <2> QED
    BY <2>1, <2>2, <2>3, <2>4, <2>5, <2>6 DEF Hands
<1>6. ASSUME NEW n \in Message \ {m}
      PROVE  Stage(n)'
  <2>1. pc[n] \in Holding => Buf(n)' = Buf(n)
    BY <1>2, <1>4 DEF Buf, Inv, Hands, Owns
  <2> QED
    BY <1>3, <2>1 DEF Inv, Stages, Stage, Holding, Working
<1>7. Buf(m)' = e
  BY <1>2 DEF Buf
<1> QED
  BY <1>2, <1>3, <1>5, <1>6, <1>7

-----------------------------------------------------------------------------
(* One lemma for each action, or for a few that are alike.                 *)
Label == Holding \cup {"idle", "lock", "scan", "take", "done"}

(* The call goes on towards the scan of the pool: nothing is held yet.     *)
LEMMA ScanSteps ==
  ASSUME Inv, NEW m \in Message, Call(m) \/ Lock(m) \/ Scan(m)
  PROVE  Inv'
<1> USE DEF Inv
<1>1. /\ UNCHANGED <<outputBuffers_, bufferValue, region, moved, queue, wire,
                     up, order, overlap>>
      /\ pc' \in [Message -> Label]
      /\ \A n \in Message \ {m} : pc'[n] = pc[n] /\ it'[n] = it[n]
      /\ pc[m] \in {"idle", "lock", "scan"}
      /\ pc'[m] \in {"lock", "scan", "take"}
      /\ it' \in [Message -> Nat \ {0}]
      /\ lock' \in Message \cup {NoMessage}
  <2> USE DEF socketVars, Goto, TypeOK, Label
  <2>1. CASE Call(m)
    BY <2>1 DEF Call
  <2>2. CASE Lock(m)
    BY <2>2 DEF Lock
  <2>3. CASE Scan(m)
    <3>1. CASE outputBuffers_[it[m]].valid
      BY <2>3, <3>1 DEF Scan
    <3>2. CASE ~ outputBuffers_[it[m]].valid
      <4>1. it[m] \in Nat \ {0} /\ it' = [it EXCEPT ![m] = it[m] + 1]
        BY <2>3, <3>2 DEF Scan
      <4>2. /\ it' \in [Message -> Nat \ {0}]
            /\ \A n \in Message \ {m} : it'[n] = it[n]
        BY <4>1, SMTT(30)
      <4> QED
        BY <2>3, <3>2, <4>2 DEF Scan
    <3> QED
      BY <3>1, <3>2
  <2> QED
    BY <2>1, <2>2, <2>3
<1>2. TypeOK'
  BY <1>1 DEF TypeOK, Label
<1>3. Locked'
  BY SendAssumption DEF Call, Lock, Scan, Hands, Locked, TypeOK, Goto
<1>4. Found'
  <2>1. pc'[m] = "take" =>
          it'[m] \in 1 .. Len(outputBuffers_) /\ outputBuffers_[it'[m]].valid
    <3>1. pc'[m] = "take" => Scan(m)
      BY DEF Call, Lock, Goto, TypeOK
    <3>2. CASE Scan(m) /\ outputBuffers_[it[m]].valid
      <4>1. it' = it /\ it[m] <= Len(outputBuffers_)
        BY <3>2 DEF Scan
      <4>2. it[m] \in 1 .. Len(outputBuffers_)
        BY <4>1 DEF TypeOK
      <4> QED
        BY <3>2, <4>1, <4>2
    <3>3. CASE Scan(m) /\ ~ outputBuffers_[it[m]].valid
      BY <3>3 DEF Scan
    <3> QED
      BY <3>1, <3>2, <3>3
  <2> QED
    BY <1>1, <2>1 DEF Found, Hands
<1>5. \A n \in Message : /\ pc[n] \in Holding <=> pc'[n] \in Holding
                         /\ pc[n] \in Holding => pc'[n] = pc[n]
  BY <1>1 DEF Holding, Working
<1>6. Owns' /\ Owned' /\ Exclusive' /\ Clean'
  BY <1>1, <1>5 DEF Hands, Owns, Owned, Exclusive, Clean
<1>7. Stages'
  BY <1>1, <1>5 DEF Stages, Stage, Buf, Holding, Working
<1> QED
  BY <1>2, <1>3, <1>4, <1>6, <1>7 DEF Hands

LEMMA TakeStep ==
  ASSUME Inv, NEW m \in Message, Take(m)
  PROVE  Inv'
<1> USE DEF Inv
<1> DEFINE b == it[m]
           e == [outputBuffers_[b] EXCEPT !.valid = FALSE]
<1>1. /\ pc[m] = "take" /\ b \in 1 .. Len(outputBuffers_)
      /\ outputBuffers_[b] \in Entry /\ outputBuffers_[b].valid
      /\ outputBuffers_[b].bytes = <<>>
      /\ outputBuffers_[b].headroom = kCheapPrepend
      /\ lock = m
  <2>1. /\ pc[m] = "take" /\ b \in 1 .. Len(outputBuffers_)
        /\ outputBuffers_[b].valid /\ lock = m
    BY DEF Take, Hands, Found, Locked
  <2>2. outputBuffers_ \in Seq(Entry)
    BY DEF TypeOK, Entry
  <2> QED
    BY <2>1, <2>2 DEF Hands, Clean
<1>2. /\ e \in Entry /\ ~ e.valid
      /\ e.bytes = <<>> /\ e.headroom = kCheapPrepend
  BY <1>1 DEF Entry
<1>3. outputBuffers_' = [outputBuffers_ EXCEPT ![b] = e]
  BY <1>1 DEF Take, TypeOK
<1> HIDE DEF e
<1>4. /\ outputBuffers_' \in Seq(Entry)
      /\ Len(outputBuffers_') = Len(outputBuffers_)
      /\ outputBuffers_'[b] = e
      /\ \A c \in 1 .. Len(outputBuffers_) :
           c # b => outputBuffers_'[c] = outputBuffers_[c]
  BY <1>1, <1>2, <1>3, PoolUpdate
<1>5. /\ pc' \in [Message -> Label]
      /\ pc'[m] = "serialize" /\ lock' = NoMessage
      /\ bufferValue' \in [Message -> Nat] /\ bufferValue'[m] = b
      /\ \A n \in Message \ {m} : /\ pc'[n] = pc[n]
                                 /\ bufferValue'[n] = bufferValue[n]
      /\ UNCHANGED <<it, region, moved, queue, wire, up, order, overlap>>
  BY <1>1 DEF Take, Goto, TypeOK, socketVars, Label, Holding, Working
<1>6. TypeOK'
  BY <1>4, <1>5 DEF TypeOK, Entry, Label
<1>7. \A n \in Message \ {m} : pc[n] \notin {"scan", "take"}
  BY <1>1 DEF Hands, Locked
<1>8. \A n \in Message \ {m} : pc[n] \in Holding => bufferValue[n] # b
  BY <1>1 DEF Hands, Owns
<1>9. Locked' /\ Found'
  BY <1>5, <1>7, SendAssumption DEF Locked, Found
<1>10. Owns' /\ Owned' /\ Exclusive' /\ Clean'
  <2>1. Owns'
    BY <1>1, <1>2, <1>4, <1>5, <1>8 DEF Hands, Owns
  <2>2. Owned'
    <3> SUFFICES ASSUME NEW c \in 1 .. Len(outputBuffers_),
                        ~ outputBuffers_'[c].valid
                 PROVE  \E n \in Message : pc'[n] \in Holding /\ bufferValue'[n] = c
      BY <1>4 DEF Owned
    <3>1. CASE c = b
      BY <1>5, <3>1 DEF Holding, Working
    <3>2. CASE c # b
      <4>1. PICK n \in Message : pc[n] \in Holding /\ bufferValue[n] = c
        BY <1>4, <3>2 DEF Hands, Owned
      <4>2. n # m
        BY <1>1, <4>1 DEF Holding, Working
      <4> QED
        BY <1>5, <4>1, <4>2
    <3> QED
      BY <3>1, <3>2
  <2>3. Exclusive'
    BY <1>5, <1>8 DEF Hands, Exclusive
  <2>4. Clean'
    BY <1>2, <1>4 DEF Hands, Clean
  <2> QED
    BY <2>1, <2>2, <2>3, <2>4
<1>11. Stages'
  <2>1. Stage(m)'
    BY <1>2, <1>4, <1>5 DEF Stage, Buf
  <2>2. ASSUME NEW n \in Message \ {m}
        PROVE  Stage(n)'
    <3>1. pc[n] \in Holding => Buf(n)' = Buf(n)
      BY <1>4, <1>5, <1>8 DEF Buf, Hands, Owns
    <3> QED
      BY <1>5, <3>1 DEF Stages, Stage, Holding, Working
  <2> QED
    BY <2>1, <2>2 DEF Stages
<1> QED
  BY <1>6, <1>9, <1>10, <1>11 DEF Hands

LEMMA EmplaceStep ==
  ASSUME Inv, NEW m \in Message, Emplace(m)
  PROVE  Inv'
<1> USE DEF Inv
<1> DEFINE len == Len(outputBuffers_)
           b == len + 1
           e == [BufferValue EXCEPT !.valid = FALSE]
<1>1. /\ pc[m] = "scan" /\ lock = m /\ len \in Nat
  BY DEF Emplace, Hands, Locked, TypeOK
<1>2. /\ e \in Entry /\ ~ e.valid
      /\ e.bytes = <<>> /\ e.headroom = kCheapPrepend
  BY SendAssumption, EmptySeqOfBytes DEF BufferValue, Entry
<1>3. outputBuffers_' = Append(outputBuffers_, e)
  BY DEF Emplace
<1> HIDE DEF e
<1>4. /\ outputBuffers_' \in Seq(Entry)
      /\ Len(outputBuffers_') = b
      /\ outputBuffers_'[b] = e
      /\ \A c \in 1 .. len : outputBuffers_'[c] = outputBuffers_[c]
  BY <1>2, <1>3, AppendProperties DEF TypeOK, Entry
<1>5. /\ pc' \in [Message -> Label]
      /\ pc'[m] = "serialize" /\ lock' = NoMessage
      /\ bufferValue' \in [Message -> Nat] /\ bufferValue'[m] = b
      /\ \A n \in Message \ {m} : /\ pc'[n] = pc[n]
                                 /\ bufferValue'[n] = bufferValue[n]
      /\ UNCHANGED <<it, region, moved, queue, wire, up, order, overlap>>
  BY <1>1 DEF Emplace, Goto, TypeOK, socketVars, Label, Holding, Working
<1>6. TypeOK'
  BY <1>4, <1>5 DEF TypeOK, Entry, Label
<1>7. \A n \in Message \ {m} : pc[n] \notin {"scan", "take"}
  BY <1>1 DEF Hands, Locked
<1>8. \A n \in Message : pc[n] \in Holding => bufferValue[n] \in 1 .. len
  BY DEF Hands, Owns
<1>9. Locked' /\ Found'
  BY <1>5, <1>7, SendAssumption DEF Locked, Found
<1>10. Owns' /\ Owned' /\ Exclusive' /\ Clean'
  <2>1. Owns'
    BY <1>1, <1>2, <1>4, <1>5, <1>8 DEF Hands, Owns
  <2>2. Owned'
    <3> SUFFICES ASSUME NEW c \in 1 .. b, ~ outputBuffers_'[c].valid
                 PROVE  \E n \in Message : pc'[n] \in Holding /\ bufferValue'[n] = c
      BY <1>4 DEF Owned
    <3>1. CASE c = b
      BY <1>5, <3>1 DEF Holding, Working
    <3>2. CASE c # b
      <4>1. c \in 1 .. len
        BY <1>1, <3>2
      <4>2. PICK n \in Message : pc[n] \in Holding /\ bufferValue[n] = c
        BY <1>4, <4>1 DEF Hands, Owned
      <4>3. n # m
        BY <1>1, <4>2 DEF Holding, Working
      <4> QED
        BY <1>5, <4>2, <4>3
    <3> QED
      BY <3>1, <3>2
  <2>3. Exclusive'
    BY <1>1, <1>5, <1>8 DEF Hands, Exclusive
  <2>4. Clean'
    <3> SUFFICES ASSUME NEW c \in 1 .. b, outputBuffers_'[c].valid
                 PROVE  /\ outputBuffers_'[c].bytes = <<>>
                        /\ outputBuffers_'[c].headroom = kCheapPrepend
      BY <1>4 DEF Clean
    <3>1. c \in 1 .. len
      BY <1>1, <1>2, <1>4
    <3> QED
      BY <1>4, <3>1 DEF Hands, Clean
  <2> QED
    BY <2>1, <2>2, <2>3, <2>4
<1>11. Stages'
  <2>1. Stage(m)'
    BY <1>2, <1>4, <1>5 DEF Stage, Buf
  <2>2. ASSUME NEW n \in Message \ {m}
        PROVE  Stage(n)'
    <3>1. pc[n] \in Holding => Buf(n)' = Buf(n)
      BY <1>4, <1>5, <1>8 DEF Buf
    <3> QED
      BY <1>5, <3>1 DEF Stages, Stage, Holding, Working
  <2> QED
    BY <2>1, <2>2 DEF Stages
<1> QED
  BY <1>6, <1>9, <1>10, <1>11 DEF Hands

LEMMA SerializeStep ==
  ASSUME Inv, NEW m \in Message, Serialize(m)
  PROVE  Inv'
<1> USE DEF Inv
<1>1. PICK headroom \in {Buf(m).headroom, kCheapPrepend} :
        outputBuffers_' = [outputBuffers_ EXCEPT
          ![bufferValue[m]].bytes = @ \o BodyAndChecksum(m),
          ![bufferValue[m]].headroom = headroom]
  BY DEF Serialize
<1> DEFINE e == [Buf(m) EXCEPT !.bytes = @ \o BodyAndChecksum(m),
                               !.headroom = headroom]
<1>2. /\ pc[m] = "serialize" /\ pc[m] \in Holding
      /\ bufferValue[m] \in 1 .. Len(outputBuffers_)
      /\ ~ Buf(m).valid /\ Buf(m) \in Entry
      /\ Buf(m).headroom = kCheapPrepend
  <2>1. pc[m] = "serialize" /\ pc[m] \in Holding
    BY DEF Serialize, Holding, Working
  <2> QED
    BY <2>1, HolderBuffer DEF Stage
<1>3. /\ e \in Entry /\ ~ e.valid /\ e.headroom = kCheapPrepend
  <2> Buf(m).bytes \o BodyAndChecksum(m) \in Seq(Message \X Nat)
    BY <1>2, FrameProperties DEF Entry
  <2> QED
    BY <1>2, SendAssumption DEF Entry
<1>4. outputBuffers_' = [outputBuffers_ EXCEPT ![bufferValue[m]] = e]
  BY <1>1, <1>2 DEF TypeOK, Buf
<1> HIDE DEF e
<1>5. /\ Goto(m, "prepend") /\ "prepend" \in Holding
      /\ UNCHANGED <<lock, it, bufferValue, region, moved, queue, wire, up,
                     order, overlap>>
  BY DEF Serialize, socketVars, Holding, Working
<1>6. /\ outputBuffers_' \in Seq(Entry) /\ pc' \in [Message -> Label]
      /\ Hands' /\ Buf(m)' = e /\ \A n \in Message \ {m} : Stage(n)'
  BY <1>2, <1>3, <1>4, <1>5, HolderStep DEF Label
<1>7. Stage(m)'
  BY <1>3, <1>5, <1>6 DEF Stage, Goto, TypeOK
<1>8. TypeOK'
  BY <1>5, <1>6 DEF TypeOK, Entry, Label
<1> QED
  BY <1>6, <1>7, <1>8 DEF Stages

LEMMA PrependStep ==
  ASSUME Inv, NEW m \in Message, Prepend(m)
  PROVE  Inv'
<1> USE DEF Inv
<1> DEFINE e == [Buf(m) EXCEPT !.bytes = Length(m) \o @,
                               !.headroom = @ - IntBytes]
<1>2. /\ pc[m] = "prepend" /\ pc[m] \in Holding
      /\ bufferValue[m] \in 1 .. Len(outputBuffers_)
      /\ ~ Buf(m).valid /\ Buf(m) \in Entry
      /\ Buf(m).headroom = kCheapPrepend
  <2>1. pc[m] = "prepend" /\ pc[m] \in Holding
    BY DEF Prepend, Holding, Working
  <2> QED
    BY <2>1, HolderBuffer DEF Stage
<1>3. /\ e \in Entry /\ ~ e.valid
  <2>1. Length(m) \o Buf(m).bytes \in Seq(Message \X Nat)
    BY <1>2, FrameProperties DEF Entry
  <2>2. Buf(m).headroom - IntBytes \in Nat
    BY <1>2, SendAssumption
  <2> QED
    BY <1>2, <2>1, <2>2 DEF Entry
<1>4. outputBuffers_' = [outputBuffers_ EXCEPT ![bufferValue[m]] = e]
  BY <1>2 DEF Prepend, TypeOK, Buf
<1> HIDE DEF e
<1>5. /\ Goto(m, "submit") /\ "submit" \in Holding
      /\ UNCHANGED <<lock, it, bufferValue, region, moved, queue, wire, up,
                     order, overlap>>
  BY DEF Prepend, socketVars, Holding, Working
<1>6. /\ outputBuffers_' \in Seq(Entry) /\ pc' \in [Message -> Label]
      /\ Hands' /\ \A n \in Message \ {m} : Stage(n)'
  BY <1>2, <1>3, <1>4, <1>5, HolderStep DEF Label
<1>7. Stage(m)'
  BY <1>5 DEF Stage, Goto, TypeOK
<1>8. TypeOK'
  BY <1>5, <1>6 DEF TypeOK, Entry, Label
<1> QED
  BY <1>6, <1>7, <1>8 DEF Stages

LEMMA OnWriteStep ==
  ASSUME Inv, NEW m \in Message, OnWrite(m)
  PROVE  Inv'
<1> USE DEF Inv
<1> DEFINE rest == SubSeq(Buf(m).bytes, moved[m] + 1, Len(Buf(m).bytes))
           e == [Buf(m) EXCEPT
                   !.bytes = rest,
                   !.headroom = IF rest = <<>> THEN kCheapPrepend
                                ELSE @ + moved[m]]
<1>2. /\ pc[m] = "written" /\ pc[m] \in Holding
      /\ bufferValue[m] \in 1 .. Len(outputBuffers_)
      /\ ~ Buf(m).valid /\ Buf(m) \in Entry
      /\ moved[m] \in Nat
  <2>1. pc[m] = "written" /\ pc[m] \in Holding
    BY DEF OnWrite, Handled, Holding, Working
  <2> QED
    BY <2>1, HolderBuffer DEF Stage, TypeOK
<1>3. rest \in Seq(Message \X Nat)
  <2>1. /\ \A i \in moved[m] + 1 .. Len(Buf(m).bytes) :
             Buf(m).bytes[i] \in Message \X Nat
        /\ moved[m] + 1 \in Int /\ Len(Buf(m).bytes) \in Int
    BY <1>2 DEF Entry
  <2> QED
    BY <2>1, SubSeqProperties
<1> HIDE DEF rest
<1>4. /\ e \in Entry /\ ~ e.valid
      /\ e.bytes = <<>> => e.headroom = kCheapPrepend
  <2> DEFINE h == IF rest = <<>> THEN kCheapPrepend
                  ELSE Buf(m).headroom + moved[m]
  <2>1. h \in Nat /\ (rest = <<>> => h = kCheapPrepend)
    BY <1>2, SendAssumption DEF Entry
  <2>2. e = [Buf(m) EXCEPT !.bytes = rest, !.headroom = h]
    OBVIOUS
  <2> HIDE DEF h
  <2> QED
    BY <1>2, <1>3, <2>1, <2>2 DEF Entry
<1>5. outputBuffers_' = [outputBuffers_ EXCEPT ![bufferValue[m]] = e]
  BY <1>2 DEF OnWrite, Handled, TypeOK, Buf, rest
<1> HIDE DEF e
<1>6. /\ Goto(m, "retrieved") /\ "retrieved" \in Holding
      /\ region' = [region EXCEPT ![m] = <<>>]
      /\ moved' = [moved EXCEPT ![m] = 0]
      /\ UNCHANGED <<lock, it, bufferValue, queue, wire, up, order, overlap>>
      /\ \A n \in Message \ {m} : region'[n] = region[n] /\ moved'[n] = moved[n]
  BY DEF OnWrite, Handled, Holding, Working, TypeOK
<1>7. /\ outputBuffers_' \in Seq(Entry) /\ pc' \in [Message -> Label]
      /\ Hands' /\ Buf(m)' = e /\ \A n \in Message \ {m} : Stage(n)'
  BY <1>2, <1>4, <1>5, <1>6, HolderStep DEF Label
<1>8. Stage(m)'
  BY <1>4, <1>6, <1>7 DEF Stage, Goto, TypeOK
<1>9. /\ region' \in [Message -> Seq(Message \X Nat)]
      /\ moved' \in [Message -> Nat]
  <2>1. /\ region \in [Message -> Seq(Message \X Nat)]
        /\ moved \in [Message -> Nat]
    BY DEF TypeOK
  <2>2. <<>> \in Seq(Message \X Nat)
    OBVIOUS
  <2> QED
    BY <1>6, <2>1, <2>2
<1>10. TypeOK'
  <2> HIDE DEF Inv
  <2>1. TypeOK
    BY DEF Inv
  <2>2. /\ outputBuffers_' \in Seq(Entry) /\ pc' \in [Message -> Label]
        /\ UNCHANGED <<lock, it, bufferValue, queue, wire, up, order, overlap>>
    BY <1>6, <1>7
  <2> QED
    BY <1>9, <2>1, <2>2 DEF TypeOK, Entry, Label
<1> QED
  BY <1>7, <1>8, <1>10 DEF Stages

(* Steps of the holder of a buffer that leave the pool as it is: only its  *)
(* place, its region and its count change.                                 *)
LEMMA QueueStep ==
  ASSUME Inv, NEW m \in Message, NEW label \in Holding,
         pc[m] \in Holding, Goto(m, label),
         UNCHANGED <<lock, outputBuffers_, it, bufferValue>>,
         \A n \in Message \ {m} :
           region'[n] = region[n] /\ moved'[n] = moved[n]
  PROVE  /\ pc' \in [Message -> Label]
         /\ Hands'
         /\ Buf(m)' = Buf(m)
         /\ \A n \in Message \ {m} : Stage(n)'
<1>1. /\ Buf(m) \in Entry /\ ~ Buf(m).valid
      /\ bufferValue[m] \in 1 .. Len(outputBuffers_)
  BY HolderBuffer
<1>2. outputBuffers_' = [outputBuffers_ EXCEPT ![bufferValue[m]] = Buf(m)]
  BY <1>1 DEF Buf, Inv, TypeOK
<1> QED
  BY <1>1, <1>2, HolderStep DEF Label

LEMMA SubmitSteps ==
  ASSUME Inv, NEW m \in Message, Submit(m) \/ Resubmit(m)
  PROVE  Inv'
<1> USE DEF Inv
<1>1. /\ pc[m] \in Holding /\ Goto(m, "queued") /\ "queued" \in Holding
      /\ region' = [region EXCEPT ![m] = Buf(m).bytes]
      /\ queue' = Append(queue, m)
      /\ UNCHANGED <<lock, outputBuffers_, it, bufferValue, moved, wire, up>>
      /\ order' \in {order, Append(order, m)}
      /\ overlap' \in BOOLEAN
  <2>1. CASE Submit(m)
    BY <2>1 DEF Submit, AsyncWriteSome, Holding, Working
  <2>2. CASE Resubmit(m)
    BY <2>2 DEF Resubmit, AsyncWriteSome, Holding, Working, TypeOK
  <2> QED
    BY <2>1, <2>2
<1>2. Buf(m).bytes \in Seq(Message \X Nat)
  BY <1>1, HolderBuffer DEF Entry
<1>3. /\ region' \in [Message -> Seq(Message \X Nat)]
      /\ region'[m] = Buf(m).bytes
      /\ \A n \in Message \ {m} : region'[n] = region[n]
      /\ queue' \in Seq(Message) /\ order' \in Seq(Message)
  <2>1. /\ region' \in [Message -> Seq(Message \X Nat)]
        /\ region'[m] = Buf(m).bytes
        /\ \A n \in Message \ {m} : region'[n] = region[n]
    BY <1>1, <1>2 DEF TypeOK
  <2>2. /\ Append(queue, m) \in Seq(Message)
        /\ Append(order, m) \in Seq(Message)
    BY AppendProperties DEF TypeOK
  <2> QED
    BY <1>1, <2>1, <2>2 DEF TypeOK
<1>4. /\ pc' \in [Message -> Label]
      /\ Hands' /\ Buf(m)' = Buf(m)
      /\ \A n \in Message \ {m} : Stage(n)'
  BY <1>1, <1>3, QueueStep
<1>5. Stage(m)'
  BY <1>1, <1>3, <1>4 DEF Stage, Goto, TypeOK
<1>6. TypeOK'
  BY <1>1, <1>3, <1>4 DEF TypeOK, Label
<1> QED
  BY <1>4, <1>5, <1>6 DEF Stages

LEMMA TransferStep ==
  ASSUME Inv, NEW m \in Message, NEW n \in 1 .. Len(region[m]), Transfer(m, n)
  PROVE  Inv'
<1> USE DEF Inv
<1>1. /\ pc[m] = "queued" /\ pc[m] \in Holding
      /\ Goto(m, "written") /\ "written" \in Holding
      /\ moved' = [moved EXCEPT ![m] = n]
      /\ queue # <<>> /\ queue' = Tail(queue)
      /\ wire' = wire \o SubSeq(region[m], 1, n)
      /\ overlap' \in BOOLEAN
      /\ UNCHANGED <<lock, outputBuffers_, it, bufferValue, region, up, order>>
  BY DEF Transfer, Holding, Working
<1>2. region[m] \in Seq(Message \X Nat) /\ n \in Nat /\ n <= Len(region[m])
  BY DEF TypeOK
<1>3. SubSeq(region[m], 1, n) \in Seq(Message \X Nat)
  <2>1. \A i \in 1 .. n : region[m][i] \in Message \X Nat
    BY <1>2
  <2> QED
    BY <1>2, <2>1, SubSeqProperties
<1>4. /\ wire' \in Seq(Message \X Nat)
      /\ queue' \in Seq(Message)
      /\ moved' \in [Message -> Nat] /\ moved'[m] = n
      /\ \A k \in Message \ {m} : moved'[k] = moved[k]
  <2>1. wire' \in Seq(Message \X Nat)
    BY <1>1, <1>3, ConcatProperties DEF TypeOK
  <2>2. queue' \in Seq(Message)
    BY <1>1, HeadTailProperties DEF TypeOK
  <2> QED
    BY <1>1, <1>2, <2>1, <2>2 DEF TypeOK
<1>5. /\ pc' \in [Message -> Label]
      /\ Hands' /\ Buf(m)' = Buf(m)
      /\ \A k \in Message \ {m} : Stage(k)'
  BY <1>1, <1>4, QueueStep
<1>6. Stage(m)'
  <2>1. region[m] = Buf(m).bytes
    BY <1>1, HolderBuffer DEF Stage
  <2> QED
    BY <1>1, <1>2, <1>4, <1>5, <2>1 DEF Stage, Goto, TypeOK
<1>7. TypeOK'
  BY <1>1, <1>4, <1>5 DEF TypeOK, Label
<1> QED
  BY <1>5, <1>6, <1>7 DEF Stages

LEMMA OnWriteErrorStep ==
  ASSUME Inv, NEW m \in Message, OnWriteError(m)
  PROVE  Inv'
<1> USE DEF Inv
<1>1. /\ pc[m] \in Holding /\ Goto(m, "lost") /\ "lost" \in Holding
      /\ queue # <<>> /\ queue' = Tail(queue)
      /\ UNCHANGED <<lock, outputBuffers_, it, bufferValue, region, moved,
                     wire, up, order, overlap>>
  BY DEF OnWriteError, Holding, Working
<1>2. queue' \in Seq(Message)
  BY <1>1, HeadTailProperties DEF TypeOK
<1>3. /\ pc' \in [Message -> Label]
      /\ Hands'
      /\ \A n \in Message \ {m} : Stage(n)'
  BY <1>1, QueueStep
<1>4. Stage(m)'
  BY <1>1 DEF Stage, Goto, TypeOK
<1>5. TypeOK'
  BY <1>1, <1>2, <1>3 DEF TypeOK, Label
<1> QED
  BY <1>3, <1>4, <1>5 DEF Stages

(* The buffer goes back while a scan may be under way: what the scan has   *)
(* found is not touched, and what it has passed is only missed.            *)
LEMMA ReleaseStep ==
  ASSUME Inv, NEW m \in Message, Release(m)
  PROVE  Inv'
<1> USE DEF Inv
<1> DEFINE b == bufferValue[m]
           e == [Buf(m) EXCEPT !.valid = TRUE]
<1>1. /\ pc[m] = "retrieved" /\ pc[m] \in Holding
      /\ b \in 1 .. Len(outputBuffers_)
      /\ ~ Buf(m).valid /\ Buf(m) \in Entry
      /\ Buf(m).bytes = <<>> /\ Buf(m).headroom = kCheapPrepend
  <2>1. pc[m] = "retrieved" /\ pc[m] \in Holding /\ Buf(m).bytes = <<>>
    BY DEF Release, Holding, Working
  <2> QED
    BY <2>1, HolderBuffer DEF Stage
<1>2. /\ e \in Entry /\ e.valid
      /\ e.bytes = <<>> /\ e.headroom = kCheapPrepend
  BY <1>1 DEF Entry
<1>3. outputBuffers_' = [outputBuffers_ EXCEPT ![b] = e]
  BY <1>1 DEF Release, TypeOK, Buf
<1> HIDE DEF e
<1>4. /\ outputBuffers_' \in Seq(Entry)
      /\ Len(outputBuffers_') = Len(outputBuffers_)
      /\ outputBuffers_'[b] = e
      /\ \A c \in 1 .. Len(outputBuffers_) :
           c # b => outputBuffers_'[c] = outputBuffers_[c]
  BY <1>1, <1>2, <1>3, PoolUpdate
<1>5. /\ pc' \in [Message -> Label]
      /\ pc'[m] = "done" /\ \A n \in Message \ {m} : pc'[n] = pc[n]
      /\ UNCHANGED <<lock, it, bufferValue, region, moved, queue, wire, up,
                     order, overlap>>
  BY DEF Release, Goto, TypeOK, socketVars, Label
<1>6. TypeOK'
  BY <1>4, <1>5 DEF TypeOK, Entry, Label
<1>7. \A n \in Message \ {m} : pc[n] \in Holding => bufferValue[n] # b
  BY <1>1 DEF Hands, Exclusive
<1>8. Locked' /\ Found'
  <2>1. Locked'
    BY <1>1, <1>5 DEF Hands, Locked
  <2>2. Found'
    <3> SUFFICES ASSUME NEW n \in Message, pc'[n] = "take"
                 PROVE  /\ it[n] \in 1 .. Len(outputBuffers_)
                        /\ outputBuffers_'[it[n]].valid
      BY <1>4, <1>5 DEF Found
    <3>1. it[n] \in 1 .. Len(outputBuffers_) /\ outputBuffers_[it[n]].valid
      BY <1>5 DEF Hands, Found
    <3> QED
      BY <1>2, <1>4, <3>1
  <2> QED
    BY <2>1, <2>2
<1>9. Owns'
  BY <1>1, <1>4, <1>5, <1>7 DEF Hands, Owns, Holding, Working
<1>10. Owned'
  <2> SUFFICES ASSUME NEW c \in 1 .. Len(outputBuffers_),
                      ~ outputBuffers_'[c].valid
               PROVE  \E n \in Message : pc'[n] \in Holding /\ bufferValue'[n] = c
    BY <1>4 DEF Owned
  <2>1. c # b
    BY <1>2, <1>4
  <2>2. PICK n \in Message : pc[n] \in Holding /\ bufferValue[n] = c
    BY <1>4, <2>1 DEF Hands, Owned
  <2> QED
    BY <1>5, <2>1, <2>2
<1>11. Exclusive' /\ Clean'
  <2>1. Exclusive'
    BY <1>5 DEF Hands, Exclusive, Holding, Working
  <2>2. Clean'
    BY <1>2, <1>4 DEF Hands, Clean
  <2> QED
    BY <2>1, <2>2
<1>12. Stages'
  <2>1. Stage(m)'
    BY <1>5 DEF Stage
  <2>2. ASSUME NEW n \in Message \ {m}
        PROVE  Stage(n)'
    <3>1. pc[n] \in Holding => Buf(n)' = Buf(n)
      BY <1>4, <1>5, <1>7 DEF Buf, Hands, Owns
    <3> QED
      BY <1>5, <3>1 DEF Stages, Stage, Holding, Working
  <2> QED
    BY <2>1, <2>2 DEF Stages
<1> QED
  BY <1>6, <1>8, <1>9, <1>10, <1>11, <1>12 DEF Hands

LEMMA IdleStep ==
  ASSUME Inv, Break \/ UNCHANGED vars
  PROVE  Inv'
<1>1. /\ UNCHANGED <<lock, outputBuffers_, pc, it, bufferValue, region, moved,
                     queue, wire, order, overlap>>
      /\ up' \in BOOLEAN
  BY DEF Break, vars, Inv, TypeOK
<1>2. TypeOK'
  BY <1>1 DEF Inv, TypeOK
<1>3. Hands'
  BY <1>1 DEF Inv, Hands, Locked, Found, Owns, Owned, Exclusive, Clean
<1>4. Stages'
  BY <1>1 DEF Inv, Stages, Stage, Buf
<1> QED
  BY <1>2, <1>3, <1>4 DEF Inv

LEMMA InitInv ==
  ASSUME Init
  PROVE  Inv
<1>1. /\ BufferValue \in Entry /\ BufferValue.valid
      /\ BufferValue.bytes = <<>> /\ BufferValue.headroom = kCheapPrepend
  BY SendAssumption, EmptySeqOfBytes DEF BufferValue, Entry
<1>2. /\ outputBuffers_ \in Seq(Entry) /\ Len(outputBuffers_) = 1
      /\ outputBuffers_[1] = BufferValue
  BY <1>1 DEF Init
<1>3. TypeOK
  <2>1. /\ lock \in Message \cup {NoMessage}
        /\ up \in BOOLEAN /\ overlap \in BOOLEAN
    BY DEF Init
  <2>4. /\ it \in [Message -> Nat \ {0}]
        /\ bufferValue \in [Message -> Nat]
        /\ moved \in [Message -> Nat]
    BY DEF Init
  <2>5. pc \in [Message -> Label]
    BY DEF Init, Label
  <2>2. region \in [Message -> Seq(Message \X Nat)] /\ wire \in Seq(Message \X Nat)
    BY EmptySeqOfBytes DEF Init
  <2>3. queue \in Seq(Message) /\ order \in Seq(Message)
    BY DEF Init
  <2> QED
    BY <1>2, <2>1, <2>2, <2>3, <2>4, <2>5 DEF TypeOK, Entry, Label
<1>4. Hands
  BY <1>1, <1>2, SendAssumption
  DEF Init, Hands, Locked, Found, Owns, Owned, Exclusive, Clean, Holding, Working
<1>5. Stages
  BY DEF Init, Stages, Stage
<1> QED
  BY <1>3, <1>4, <1>5 DEF Inv

LEMMA Invariance == Spec => []Inv
<1>1. Init => Inv
  BY InitInv
<1>2. Inv /\ [Next]_vars => Inv'
  <2> SUFFICES ASSUME Inv, [Next]_vars PROVE Inv'
    OBVIOUS
  <2>1. ASSUME NEW m \in Message, SendStep(m)
        PROVE  Inv'
    BY <2>1, ScanSteps, TakeStep, EmplaceStep, SerializeStep, PrependStep,
       SubmitSteps
    DEF SendStep
  <2>2. ASSUME NEW m \in Message, WriteStep(m)
        PROVE  Inv'
    BY <2>2, TransferStep, OnWriteErrorStep, OnWriteStep, SubmitSteps,
       ReleaseStep
    DEF WriteStep
  <2> QED
    BY <2>1, <2>2, ScanSteps, IdleStep DEF Next
<1> QED
  BY <1>1, <1>2, PTL DEF Spec

-----------------------------------------------------------------------------
(* Every variable has its type; in particular no headroom is negative.     *)
THEOREM TypeCorrect == Spec => []TypeOK
<1>1. Inv => TypeOK
  BY DEF Inv
<1> QED
  BY <1>1, Invariance, PTL

(* For any number of concurrent calls and handlers, no output buffer is in *)
(* two hands, although it is given back without the mutex.                 *)
THEOREM BuffersExclusive == Spec => []Exclusive
<1>1. Inv => Exclusive
  BY DEF Inv, Hands
<1> QED
  BY <1>1, Invariance, PTL

(* A buffer that can be taken is empty, has its headroom and is in         *)
(* nobody's hands; no other buffer is lost, unless its write failed.       *)
THEOREM PoolIsAccounted == Spec => []PoolAccounted
<1>1. Inv => PoolAccounted
  <2> SUFFICES ASSUME Inv, NEW b \in 1 .. Len(outputBuffers_)
               PROVE
                 LET users == {m \in Message : pc[m] \in Holding /\ bufferValue[m] = b}
                 IN  IF outputBuffers_[b].valid
                     THEN /\ users = {}
                          /\ outputBuffers_[b].bytes = <<>>
                          /\ outputBuffers_[b].headroom = kCheapPrepend
                     ELSE users # {}
    <3> DOMAIN outputBuffers_ = 1 .. Len(outputBuffers_)
      BY DEF Inv, TypeOK
    <3> QED
      BY DEF PoolAccounted
  <2>1. CASE outputBuffers_[b].valid
    BY <2>1 DEF Inv, Hands, Owns, Clean
  <2>2. CASE ~ outputBuffers_[b].valid
    BY <2>2 DEF Inv, Hands, Owned
  <2> QED
    BY <2>1, <2>2
<1> QED
  BY <1>1, Invariance, PTL

(* The asserts of class Buffer hold at every call the codec makes.         *)
THEOREM BufferAsserts == Spec => []AssertsHold
<1>1. Inv => AssertsHold
  <2> SUFFICES ASSUME Inv, NEW m \in Message
               PROVE  /\ pc[m] = "prepend" => IntBytes <= Buf(m).headroom
                      /\ pc[m] = "written" => moved[m] <= Len(Buf(m).bytes)
    BY DEF AssertsHold
  <2>1. Stage(m)
    BY DEF Inv, Stages
  <2> QED
    BY <2>1, SendAssumption DEF Stage
<1> QED
  BY <1>1, Invariance, PTL

(* No thread touches the memory an outstanding write points to.            *)
THEOREM RegionsStable == Spec => []RegionStable
<1>1. Inv => RegionStable
  BY DEF Inv, Stages, Stage, RegionStable
<1> QED
  BY <1>1, Invariance, PTL

-----------------------------------------------------------------------------
(* What has left.  The rest of a frame is in the buffer of its message,    *)
(* from the moment it is complete to the end.                              *)
Begun == {"queued", "written", "retrieved", "lost", "done"}
Complete == {"submit", "queued", "written", "retrieved", "lost"}

Rest(m, n) ==
  /\ pc[m] \notin Begun => n = 0
  /\ pc[m] = "prepend" => Buf(m).bytes = BodyAndChecksum(m)
  /\ pc[m] \in Complete => Kept(m) = SubSeq(Frame(m), n + 1, FrameLen(m))
  /\ pc[m] = "done" => n = FrameLen(m)

Whole == \A m \in Message : \E n \in 0 .. FrameLen(m) : HasLeft(m, n) /\ Rest(m, n)

(* The frames of the first p messages of o, one behind the other, and n    *)
(* bytes of the next.                                                      *)
Byte == Message \X Nat
All(o, p) == FlattenSeq([i \in 1 .. p |-> Frame(o[i])])
Sent(o, p, n) ==
  IF n = 0 THEN All(o, p) ELSE All(o, p) \o SubSeq(Frame(o[p + 1]), 1, n)

Ordered ==
  /\ IsInjective(order)
  /\ ToSet(order) = {m \in Message : pc[m] \in Begun}

(* l bytes of m have left, and not all.                                    *)
Waits(m, l) ==
  /\ pc[m] \in {"queued", "written", "retrieved"}
  /\ l < FrameLen(m)
  /\ Kept(m) = SubSeq(Frame(m), l + 1, FrameLen(m))

(* While nothing overlaps, the first p messages have left, and n bytes of  *)
(* the next.  The writes of the others wait in the queue, unless the next  *)
(* is half sent: then it is the last.                                      *)
InTurn(p, n) ==
  /\ p = Len(order) => n = 0
  /\ \A k \in p + 1 .. Len(order), m \in Message :
       m = order[k] => Waits(m, IF k = p + 1 THEN n ELSE 0)
  /\ wire = Sent(order, p, n)
  /\ \A m \in Message : HalfSent(m) => p + 1 = Len(order) /\ m = order[p + 1]
  /\ queue = IF \E m \in Message : HalfSent(m) THEN <<>>
             ELSE SubSeq(order, p + 1, Len(order))

(* The wire, and what would follow on it.                                  *)
Follows == \E t \in Seq(Byte) : All(order, Len(order)) = wire \o t

Flow ==
  ~ overlap =>
    IF up THEN \E p \in 0 .. Len(order) : \E n \in Nat : InTurn(p, n)
    ELSE Follows

LEMMA BytesOfFrame ==
  ASSUME NEW m \in Message
  PROVE  /\ FrameLen(m) \in Nat \ {0} /\ IntBytes \in Nat
         /\ IntBytes <= FrameLen(m)
         /\ Frame(m) \in Seq(Message \X Nat) /\ Len(Frame(m)) = FrameLen(m)
         /\ \A i \in 1 .. FrameLen(m) : Frame(m)[i] = <<m, i>>
<1>1. /\ FrameLen(m) \in Nat \ {0} /\ IntBytes \in Nat
      /\ IntBytes <= FrameLen(m)
  BY SendAssumption DEF FrameLen
<1>2. /\ Frame(m) = [i \in 1 .. FrameLen(m) |-> <<m, i>>]
      /\ \A i \in 1 .. FrameLen(m) : <<m, i>> \in Message \X Nat
  BY <1>1 DEF Frame
<1>3. Frame(m) \in Seq(Message \X Nat) /\ Len(Frame(m)) = FrameLen(m)
  BY <1>1, <1>2, IsASeq
<1>4. QED BY <1>1, <1>2, <1>3

(* A part of a frame, and two parts next to each other.                    *)
LEMMA Parts ==
  ASSUME NEW m \in Message, NEW a \in 0 .. FrameLen(m),
         NEW b \in a .. FrameLen(m)
  PROVE  /\ SubSeq(Frame(m), a + 1, b) \in Seq(Message \X Nat)
         /\ Len(SubSeq(Frame(m), a + 1, b)) = b - a
         /\ \A i \in 1 .. b - a :
              SubSeq(Frame(m), a + 1, b)[i] = <<m, a + i>>
<1>1. a \in Nat /\ b \in Nat /\ a <= b /\ b <= FrameLen(m)
  BY BytesOfFrame
<1>2. \A i \in a + 1 .. b : Frame(m)[i] \in Message \X Nat
  BY <1>1, BytesOfFrame
<1>3. /\ SubSeq(Frame(m), a + 1, b) \in Seq(Message \X Nat)
      /\ Len(SubSeq(Frame(m), a + 1, b)) =
           IF a + 1 <= b THEN b - (a + 1) + 1 ELSE 0
      /\ \A i \in 1 .. b - (a + 1) + 1 :
           SubSeq(Frame(m), a + 1, b)[i] = Frame(m)[a + 1 + i - 1]
  BY <1>1, <1>2, SubSeqProperties
<1>4. ASSUME NEW i \in 1 .. b - a
      PROVE  SubSeq(Frame(m), a + 1, b)[i] = <<m, a + i>>
  <2>1. b - (a + 1) + 1 = b - a
    BY <1>1
  <2>2. /\ i \in Int /\ i >= 1 /\ i <= b - a /\ a + 1 + i - 1 = a + i
    BY <1>1
  <2>3. a + i \in 1 .. FrameLen(m)
    <3> DEFINE L == FrameLen(m)
    <3>1. L \in Nat
      BY BytesOfFrame
    <3> HIDE DEF L
    <3>2. a + i >= 1 /\ a + i <= L /\ a + i \in Int
      BY <1>1, <2>2, <3>1 DEF L
    <3>3. QED BY <3>1, <3>2 DEF L
  <2>4. SubSeq(Frame(m), a + 1, b)[i] = Frame(m)[a + i]
    BY <1>3, <2>1, <2>2
  <2>5. QED BY <2>3, <2>4, BytesOfFrame
<1>5. (IF a + 1 <= b THEN b - (a + 1) + 1 ELSE 0) = b - a
  BY <1>1
<1>6. QED BY <1>3, <1>4, <1>5

LEMMA PartsJoin ==
  ASSUME NEW m \in Message, NEW a \in 0 .. FrameLen(m),
         NEW b \in a .. FrameLen(m), NEW c \in b .. FrameLen(m)
  PROVE  SubSeq(Frame(m), a + 1, b) \o SubSeq(Frame(m), b + 1, c) =
           SubSeq(Frame(m), a + 1, c)
<1> DEFINE f == Frame(m)
           d == a + 1
<1>1. /\ f \in Seq(Message \X Nat) /\ d \in 1 .. Len(f) + 1
      /\ b \in d - 1 .. Len(f) /\ c \in b .. Len(f)
  BY BytesOfFrame
<1> HIDE DEF f, d
<1>2. SubSeq(f, d, b) \o SubSeq(f, b + 1, c) = SubSeq(f, d, c)
  BY <1>1, ConcatAdjacentSubSeq
<1>3. QED BY <1>2 DEF f, d

(* The rest of a frame; what a write moves of it, and what it leaves.      *)
LEMMA RestLength ==
  ASSUME NEW m \in Message, NEW n \in 0 .. FrameLen(m), NEW r,
         r = SubSeq(Frame(m), n + 1, FrameLen(m))
  PROVE  /\ r \in Seq(Message \X Nat)
         /\ Len(r) = FrameLen(m) - n /\ Len(r) \in Nat
         /\ r = <<>> <=> n = FrameLen(m)
<1>1. /\ n \in Nat /\ FrameLen(m) \in Nat /\ n <= FrameLen(m)
      /\ FrameLen(m) \in n .. FrameLen(m)
  BY BytesOfFrame
<1>2. r \in Seq(Message \X Nat) /\ Len(r) = FrameLen(m) - n
  BY <1>1, Parts
<1>3. r = <<>> <=> Len(r) = 0
  BY <1>2, EmptySeq
<1>4. /\ FrameLen(m) - n = 0 <=> n = FrameLen(m)
      /\ FrameLen(m) - n \in Nat
  BY <1>1
<1>5. QED BY <1>2, <1>3, <1>4

LEMMA RestParts ==
  ASSUME NEW m \in Message, NEW n \in 0 .. FrameLen(m), NEW r,
         r = SubSeq(Frame(m), n + 1, FrameLen(m)),
         NEW j \in 0 .. Len(r)
  PROVE  /\ SubSeq(r, 1, j) = SubSeq(Frame(m), n + 1, n + j)
         /\ SubSeq(r, j + 1, Len(r)) =
              SubSeq(Frame(m), n + j + 1, FrameLen(m))
<1> DEFINE s == SubSeq(Frame(m), n + 1, n + j)
           t == SubSeq(Frame(m), n + j + 1, FrameLen(m))
<1>1. /\ n \in Nat /\ FrameLen(m) \in Nat /\ n <= FrameLen(m)
      /\ Len(r) = FrameLen(m) - n
  BY BytesOfFrame, RestLength
<1>2. /\ n + j \in n .. FrameLen(m) /\ n + j \in 0 .. FrameLen(m)
      /\ FrameLen(m) \in n + j .. FrameLen(m) /\ j \in Nat
      /\ n + j - n = j
  BY <1>1
<1>3. s \in Seq(Message \X Nat) /\ Len(s) = j
  <2>1. s \in Seq(Message \X Nat) /\ Len(s) = n + j - n
    BY <1>2, Parts
  <2>2. QED BY <1>2, <2>1
<1>4. t \in Seq(Message \X Nat)
  BY <1>2, Parts
<1>5. s \o t = r
  BY <1>2, PartsJoin
<1> HIDE DEF s, t
<1>6. SubSeq(s \o t, 1, Len(s)) = s
  BY <1>3, <1>4, SubSeqOfConcat1, SubSeqFull
<1>7. SubSeq(s \o t, Len(s) + 1, Len(s \o t)) = t
  BY <1>3, <1>4, SubSeqOfConcat2, SubSeqFull, SMTT(30)
<1>8. QED BY <1>3, <1>5, <1>6, <1>7 DEF s, t

(* A step of m leaves the others where they are, and what is in their      *)
(* buffers.                                                                *)
Step(m) == Call(m) \/ SendStep(m) \/ WriteStep(m)

LEMMA OthersKeep ==
  ASSUME Inv, NEW m \in Message, Step(m), NEW x \in Message \ {m}
  PROVE  /\ pc'[x] = pc[x]
         /\ pc[x] \in Holding => Kept(x)' = Kept(x) /\ Buf(x)' = Buf(x)
<1> USE DEF Inv, TypeOK
<1>1. pc'[x] = pc[x] /\ moved'[x] = moved[x] /\ bufferValue'[x] = bufferValue[x]
  BY DEF Step, SendStep, WriteStep, Call, Lock, Scan, Take, Emplace, Serialize,
         Prepend, Submit, AsyncWriteSome, Transfer, OnWriteError, OnWrite, Handled,
         Resubmit, Release, Goto, socketVars
<1>2. ASSUME pc[x] \in Holding
      PROVE  outputBuffers_'[bufferValue[x]] = outputBuffers_[bufferValue[x]]
  <2>1. /\ bufferValue[x] \in 1 .. Len(outputBuffers_)
        /\ ~ outputBuffers_[bufferValue[x]].valid
    BY <1>2 DEF Hands, Owns
  <2>2. pc[m] \in Holding => bufferValue[m] # bufferValue[x]
    BY <1>2 DEF Hands, Exclusive
  <2>3. CASE Call(m) \/ Lock(m) \/ Scan(m) \/ Submit(m) \/ Resubmit(m)
             \/ OnWriteError(m) \/ \E n \in 1 .. Len(region[m]) : Transfer(m, n)
    BY <2>3 DEF Call, Lock, Scan, Submit, Resubmit, OnWriteError, Transfer
  <2>4. CASE Take(m)
    <3>1. it[m] # bufferValue[x]
      BY <2>1, <2>4 DEF Take, Hands, Found
    <3>2. QED BY <2>1, <2>4, <3>1 DEF Take
  <2>5. CASE Emplace(m)
    BY <2>1, <2>5 DEF Emplace
  <2>6. CASE Serialize(m)
    BY <2>1, <2>2, <2>6, SMTT(30) DEF Serialize, Holding, Working
  <2>7. CASE Prepend(m)
    BY <2>1, <2>2, <2>7, SMTT(30) DEF Prepend, Holding, Working
  <2>8. CASE OnWrite(m)
    BY <2>1, <2>2, <2>8, SMTT(30) DEF OnWrite, Handled, Holding, Working
  <2>9. CASE Release(m)
    BY <2>1, <2>2, <2>9 DEF Release, Holding, Working
  <2>10. QED BY <2>3, <2>4, <2>5, <2>6, <2>7, <2>8, <2>9
             DEF Step, SendStep, WriteStep
<1>3. pc[x] \in Holding => Buf(x)' = Buf(x)
  BY <1>1, <1>2 DEF Buf
<1>4. QED BY <1>1, <1>3 DEF Kept

LEMMA OthersRest ==
  ASSUME Inv, NEW m \in Message, Step(m), NEW x \in Message \ {m}, NEW n,
         Rest(x, n)
  PROVE  Rest(x, n)'
<1>1. /\ pc'[x] = pc[x]
      /\ pc[x] \in Holding => Kept(x)' = Kept(x) /\ Buf(x)' = Buf(x)
  BY OthersKeep
<1>2. pc[x] \in Complete \cup {"prepend"} => pc[x] \in Holding
  BY DEF Complete, Holding, Working
<1>3. QED BY <1>1, <1>2 DEF Rest

(* When nothing leaves, the rest of the message itself is to be shown.     *)
LEMMA QuietStep ==
  ASSUME Inv, Whole, NEW m \in Message, Step(m), wire' = wire,
         \A n \in 0 .. FrameLen(m) : Rest(m, n) => Rest(m, n)'
  PROVE  Whole'
<1> SUFFICES ASSUME NEW x \in Message
             PROVE  \E n \in 0 .. FrameLen(x) : HasLeft(x, n)' /\ Rest(x, n)'
  BY DEF Whole
<1>1. PICK n \in 0 .. FrameLen(x) : HasLeft(x, n) /\ Rest(x, n)
  BY DEF Whole
<1>2. HasLeft(x, n)'
  BY <1>1 DEF HasLeft
<1>3. Rest(x, n)'
  BY <1>1, OthersRest
<1>4. QED BY <1>2, <1>3

(* The call fills its buffer: the frame is complete when it is submitted.  *)
LEMMA WholeCall ==
  ASSUME Inv, Whole, NEW m \in Message,
         \/ Call(m) \/ Lock(m) \/ Scan(m) \/ Take(m) \/ Emplace(m)
         \/ Serialize(m) \/ Prepend(m) \/ Submit(m)
  PROVE  Whole'
<1> USE DEF Inv
<1>1. wire' = wire /\ Step(m)
  BY DEF Call, Lock, Scan, Take, Emplace, Serialize, Prepend, Submit,
         socketVars, Step, SendStep
<1> SUFFICES ASSUME NEW n \in 0 .. FrameLen(m), Rest(m, n)
             PROVE  Rest(m, n)'
  BY <1>1, QuietStep
<1>2. CASE Call(m) \/ Lock(m) \/ Scan(m) \/ Take(m) \/ Emplace(m)
  <2>1. /\ pc[m] \notin Begun
        /\ pc'[m] \in {"lock", "scan", "take", "serialize"}
    BY <1>2 DEF Call, Lock, Scan, Take, Emplace, Goto, TypeOK, Begun
  <2>2. QED BY <2>1 DEF Rest, Begun, Complete
<1>3. CASE Serialize(m)
  <2>1. /\ pc[m] = "serialize" /\ pc'[m] = "prepend" /\ Buf(m).bytes = <<>>
        /\ bufferValue[m] \in 1 .. Len(outputBuffers_)
        /\ bufferValue' = bufferValue
    BY <1>3, HolderBuffer DEF Serialize, Goto, TypeOK, Stage, Holding, Working
  <2>2. Buf(m)'.bytes = Buf(m).bytes \o BodyAndChecksum(m)
    BY <1>3, <2>1 DEF Serialize, Buf, TypeOK
  <2>3. Buf(m)'.bytes = BodyAndChecksum(m)
    BY <2>1, <2>2, FrameProperties, ConcatEmptySeq
  <2>4. QED BY <2>1, <2>3 DEF Rest, Begun, Complete
<1>4. CASE Prepend(m)
  <2>1. /\ pc[m] = "prepend" /\ pc'[m] = "submit"
        /\ bufferValue[m] \in 1 .. Len(outputBuffers_) /\ Buf(m) \in Entry
        /\ bufferValue' = bufferValue
    BY <1>4, HolderBuffer DEF Prepend, Goto, TypeOK, Holding, Working
  <2>2. Buf(m)'.bytes = Length(m) \o Buf(m).bytes
    <3> DEFINE e == [Buf(m) EXCEPT !.bytes = Length(m) \o @,
                                   !.headroom = @ - IntBytes]
    <3>1. outputBuffers_' = [outputBuffers_ EXCEPT ![bufferValue[m]] = e]
      BY <1>4, <2>1 DEF Prepend, Buf, TypeOK
    <3>2. e.bytes = Length(m) \o Buf(m).bytes
      BY <2>1 DEF Entry
    <3> HIDE DEF e
    <3>3. Buf(m)' = e
      BY <2>1, <3>1 DEF Buf, TypeOK
    <3>4. QED BY <3>2, <3>3
  <2>3. Buf(m).bytes = BodyAndChecksum(m) /\ n = 0
    BY <2>1 DEF Rest, Begun
  <2>4. Length(m) \o BodyAndChecksum(m) = SubSeq(Frame(m), 0 + 1, FrameLen(m))
    <3>1. /\ 0 \in 0 .. FrameLen(m) /\ IntBytes \in 0 .. FrameLen(m)
          /\ FrameLen(m) \in IntBytes .. FrameLen(m) /\ 0 + 1 = 1
      BY BytesOfFrame
    <3>2. QED BY <3>1, PartsJoin DEF Length, BodyAndChecksum
  <2>5. Kept(m)' = SubSeq(Frame(m), n + 1, FrameLen(m))
    BY <2>1, <2>2, <2>3, <2>4 DEF Kept
  <2>6. QED BY <2>1, <2>3, <2>5 DEF Rest, Begun, Complete
<1>5. CASE Submit(m)
  <2>1. /\ pc[m] = "submit" /\ pc'[m] = "queued" /\ Buf(m)' = Buf(m)
    BY <1>5 DEF Submit, AsyncWriteSome, Goto, TypeOK, Buf
  <2>2. QED BY <2>1 DEF Rest, Kept, Begun, Complete
<1>6. QED BY <1>2, <1>3, <1>4, <1>5

(* The handler takes from its buffer what has left.                        *)
LEMMA HandlerKeeps ==
  ASSUME Inv, NEW m \in Message, OnWrite(m)
  PROVE  pc[m] = "written" /\ pc'[m] = "retrieved" /\ Kept(m)' = Kept(m)
<1> USE DEF Inv
<1>1. /\ pc[m] = "written" /\ pc'[m] = "retrieved"
      /\ bufferValue[m] \in 1 .. Len(outputBuffers_) /\ Buf(m) \in Entry
      /\ bufferValue' = bufferValue
  BY HolderBuffer DEF OnWrite, Handled, Goto, TypeOK, Holding, Working
<1>2. Buf(m)'.bytes =
        SubSeq(Buf(m).bytes, moved[m] + 1, Len(Buf(m).bytes))
  <2> DEFINE r == SubSeq(Buf(m).bytes, moved[m] + 1, Len(Buf(m).bytes))
             e == [Buf(m) EXCEPT
                     !.bytes = r,
                     !.headroom = IF r = <<>> THEN kCheapPrepend
                                  ELSE @ + moved[m]]
  <2>1. outputBuffers_' = [outputBuffers_ EXCEPT ![bufferValue[m]] = e]
    BY <1>1 DEF OnWrite, Handled, Buf, TypeOK
  <2>2. e.bytes = r
    <3> HIDE DEF r
    <3>1. QED BY <1>1 DEF Entry
  <2> HIDE DEF e, r
  <2>3. Buf(m)' = e
    BY <1>1, <2>1 DEF Buf, TypeOK
  <2>4. QED BY <2>2, <2>3 DEF r
<1>3. Kept(m)' = Kept(m)
  BY <1>1, <1>2 DEF Kept
<1>4. QED BY <1>1, <1>3

(* The handler keeps what has not left, and gives the buffer back when     *)
(* everything has.                                                         *)
LEMMA WholeWrite ==
  ASSUME Inv, Whole, NEW m \in Message,
         OnWriteError(m) \/ OnWrite(m) \/ Resubmit(m) \/ Release(m)
  PROVE  Whole'
<1> USE DEF Inv
<1>1. wire' = wire /\ Step(m)
  BY DEF OnWriteError, OnWrite, Handled, Resubmit, Release, socketVars, Step, WriteStep
<1> SUFFICES ASSUME NEW n \in 0 .. FrameLen(m), Rest(m, n)
             PROVE  Rest(m, n)'
  BY <1>1, QuietStep
<1>2. CASE OnWriteError(m) \/ Resubmit(m)
  <2>1. /\ pc[m] \in {"queued", "retrieved"} /\ pc'[m] \in {"lost", "queued"}
        /\ Buf(m)' = Buf(m)
    BY <1>2 DEF OnWriteError, Resubmit, AsyncWriteSome, Goto, TypeOK, Buf
  <2>2. QED BY <2>1 DEF Rest, Kept, Begun, Complete
<1>3. CASE OnWrite(m)
  <2>1. pc[m] = "written" /\ pc'[m] = "retrieved" /\ Kept(m)' = Kept(m)
    BY <1>3, HandlerKeeps
  <2>2. QED BY <2>1 DEF Rest, Begun, Complete
<1>4. CASE Release(m)
  <2>1. /\ pc[m] = "retrieved" /\ pc'[m] = "done" /\ Kept(m) = <<>>
    BY <1>4 DEF Release, Goto, TypeOK, Kept
  <2>2. Kept(m) = SubSeq(Frame(m), n + 1, FrameLen(m))
    BY <2>1 DEF Rest, Complete
  <2>3. n = FrameLen(m)
    BY <2>1, <2>2, RestLength
  <2>4. QED BY <2>1, <2>3 DEF Rest, Begun, Complete
<1>5. QED BY <1>2, <1>3, <1>4

(* A write takes the next bytes of a frame from the front of its rest.     *)
LEMMA Moves ==
  ASSUME Inv, NEW m \in Message, NEW j \in 1 .. Len(region[m]), Transfer(m, j),
         NEW n \in 0 .. FrameLen(m),
         Kept(m) = SubSeq(Frame(m), n + 1, FrameLen(m))
  PROVE  /\ j \in 1 .. FrameLen(m) - n /\ Len(region[m]) = FrameLen(m) - n
         /\ wire' = wire \o SubSeq(Frame(m), n + 1, n + j)
         /\ Kept(m)' = SubSeq(Frame(m), n + j + 1, FrameLen(m))
         /\ pc[m] = "queued" /\ pc'[m] = "written"
<1> USE DEF Inv
<1>1. /\ pc[m] = "queued" /\ pc'[m] = "written" /\ moved'[m] = j
      /\ Buf(m)' = Buf(m) /\ wire' = wire \o SubSeq(region[m], 1, j)
  BY DEF Transfer, Goto, TypeOK, Buf
<1>2. region[m] = Buf(m).bytes
  BY <1>1, HolderBuffer DEF Stage, Holding, Working
<1>3. Kept(m) = region[m]
  BY <1>1, <1>2 DEF Kept
<1> DEFINE r == region[m]
<1>4. r = SubSeq(Frame(m), n + 1, FrameLen(m))
  BY <1>3
<1>j. j \in 1 .. Len(r)
  OBVIOUS
<1> HIDE DEF r
<1>5. Len(r) = FrameLen(m) - n /\ Len(r) \in Nat
  BY <1>4, RestLength
<1>6. /\ SubSeq(r, 1, j) = SubSeq(Frame(m), n + 1, n + j)
      /\ SubSeq(r, j + 1, Len(r)) = SubSeq(Frame(m), n + j + 1, FrameLen(m))
  <2>1. j \in 0 .. Len(r)
    BY <1>5, <1>j
  <2>2. QED BY <1>4, <2>1, RestParts
<1>7. Kept(m)' = SubSeq(region[m], j + 1, Len(region[m]))
  BY <1>1, <1>2 DEF Kept
<1>8. QED BY <1>1, <1>4, <1>5, <1>6, <1>7 DEF r

(* The same of any sequence of bytes.                                      *)
Shows(w, m, n) ==
  LET left == {k \in DOMAIN w : w[k][1] = m}
  IN  /\ {w[k][2] : k \in left} = 1 .. n
      /\ \A j, k \in left : j < k => w[j][2] < w[k][2]

LEMMA OthersShow ==
  ASSUME NEW w, NEW v, NEW m, DOMAIN w \subseteq DOMAIN v,
         \A i \in DOMAIN w : v[i] = w[i],
         \A i \in DOMAIN v : i \notin DOMAIN w => v[i][1] = m,
         NEW x, NEW k, x # m
  PROVE  Shows(w, x, k) => Shows(v, x, k)
<1>1. {i \in DOMAIN v : v[i][1] = x} = {i \in DOMAIN w : w[i][1] = x}
  OBVIOUS
<1>2. \A i \in {i \in DOMAIN w : w[i][1] = x} : v[i] = w[i]
  OBVIOUS
<1>3. QED BY <1>1, <1>2 DEF Shows

LEMMA LongerShows ==
  ASSUME NEW w, NEW v, NEW L \in Nat, NEW m, NEW n \in Nat,
         NEW j \in Nat \ {0}, DOMAIN w = 1 .. L, DOMAIN v = 1 .. L + j,
         \A i \in 1 .. L : v[i] = w[i],
         \A i \in 1 .. j : v[L + i][1] = m /\ v[L + i][2] = n + i
  PROVE  Shows(w, m, n) => Shows(v, m, n + j)
<1>1. ASSUME NEW i \in 1 .. L + j, i \notin 1 .. L
      PROVE  \E h \in 1 .. j : i = L + h
  <2>1. i - L \in 1 .. j /\ i = L + (i - L)
    BY <1>1
  <2>2. QED BY <2>1
<1>2. \A i \in 1 .. L : i \in 1 .. L + j
  OBVIOUS
<1>3. \A i \in 1 .. j : L + i \in 1 .. L + j /\ L + i \notin 1 .. L
  OBVIOUS
<1>5. ASSUME Shows(w, m, n)
      PROVE  Shows(v, m, n + j)
  <2> DEFINE A == {i \in DOMAIN w : w[i][1] = m}
             B == {i \in DOMAIN v : v[i][1] = m}
             N == {L + i : i \in 1 .. j}
  <2>1. B = A \cup N
    <3>1. \A i \in 1 .. L : i \in B <=> i \in A
      BY <1>2
    <3>2. \A i \in 1 .. j : L + i \in B
      BY <1>3
    <3>3. \A i \in B : i \in 1 .. L + j
      OBVIOUS
    <3>4. \A i \in A : i \in 1 .. L
      OBVIOUS
    <3> HIDE DEF A, B
    <3>5. ASSUME NEW i \in B PROVE i \in A \/ i \in N
      <4>1. CASE i \in 1 .. L
        BY <3>1, <4>1
      <4>2. CASE i \notin 1 .. L
        BY <1>1, <3>3, <4>2
      <4>3. QED BY <4>1, <4>2
    <3>6. ASSUME NEW i, i \in A \/ i \in N PROVE i \in B
      <4>1. CASE i \in A
        BY <3>1, <3>4, <4>1
      <4>2. CASE i \in N
        BY <3>2, <4>2
      <4>3. QED BY <3>6, <4>1, <4>2
    <3> HIDE DEF N
    <3>7. QED BY <3>5, <3>6
  <2>2. /\ {w[i][2] : i \in A} = 1 .. n
        /\ \A h, i \in A : h < i => w[h][2] < w[i][2]
    BY <1>5 DEF Shows
  <2>3. \A i \in A : i \in 1 .. L /\ v[i] = w[i]
    OBVIOUS
  <2> HIDE DEF A, B
  <2>4. \A i \in A : v[i][2] \in 1 .. n
    BY <2>2, <2>3
  <2>5. {v[i][2] : i \in B} = 1 .. n + j
    <3>1. ASSUME NEW i \in B PROVE v[i][2] \in 1 .. n + j
      <4>1. \A c \in 1 .. n : c \in 1 .. n + j
        OBVIOUS
      <4>2. \A c \in 1 .. j : n + c \in 1 .. n + j
        OBVIOUS
      <4>3. CASE i \in A
        BY <2>4, <4>1, <4>3
      <4>4. CASE i \in N
        <5>1. PICK c \in 1 .. j : i = L + c
          BY <4>4
        <5>2. QED BY <4>2, <5>1
      <4>5. QED BY <2>1, <4>3, <4>4
    <3>2. ASSUME NEW k \in 1 .. n + j PROVE \E i \in B : v[i][2] = k
      <4>1. CASE k \in 1 .. n
        <5>1. PICK i \in A : w[i][2] = k
          <6>1. k \in {w[i][2] : i \in A}
            BY <2>2, <4>1, Zenon
          <6>2. QED BY <6>1, Zenon
        <5>2. QED BY <2>1, <2>3, <5>1
      <4>2. CASE k \notin 1 .. n
        <5>1. k - n \in 1 .. j /\ k = n + (k - n)
          BY <4>2
        <5>2. PICK c \in 1 .. j : k = n + c
          BY <5>1
        <5>3. L + c \in B /\ v[L + c][2] = k
          BY <2>1, <5>2
        <5>4. QED BY <5>3
      <4>3. QED BY <4>1, <4>2
    <3>3. QED BY <3>1, <3>2
  <2>6. ASSUME NEW h \in B, NEW i \in B, h < i
        PROVE  v[h][2] < v[i][2]
    <3>1. CASE i \in A
      <4>1. h \notin N
        BY <1>3, <2>3, <2>6, <3>1
      <4>2. h \in A
        BY <2>1, <4>1
      <4>3. QED BY <2>2, <2>3, <2>6, <3>1, <4>2
    <3>2. CASE i \in N
      <4>1. PICK c \in 1 .. j : i = L + c
        BY <3>2
      <4>2. v[i][2] = n + c
        BY <4>1
      <4>3. CASE h \in A
        <5>1. \A d \in 1 .. n : d < n + c
          OBVIOUS
        <5>2. QED BY <2>4, <4>2, <4>3, <5>1
      <4>4. CASE h \in N
        <5>1. PICK d \in 1 .. j : h = L + d
          BY <4>4
        <5>2. v[h][2] = n + d
          BY <5>1
        <5>3. n + d < n + c
          BY <2>6, <4>1, <5>1
        <5>4. QED BY <4>2, <5>2, <5>3
      <4>5. QED BY <2>1, <4>3, <4>4
    <3>3. QED BY <2>1, <3>1, <3>2
  <2>7. QED BY <2>5, <2>6 DEF Shows, B
<1>6. QED BY <1>5

LEMMA Grows ==
  ASSUME TypeOK, NEW m \in Message, NEW n \in 0 .. FrameLen(m),
         NEW j \in 1 .. FrameLen(m) - n,
         wire' = wire \o SubSeq(Frame(m), n + 1, n + j)
  PROVE  /\ HasLeft(m, n) => HasLeft(m, n + j)'
         /\ \A x \in Message \ {m} : \A k : HasLeft(x, k) => HasLeft(x, k)'
<1> DEFINE L == Len(wire)
           u == SubSeq(Frame(m), n + 1, n + j)
           v == wire \o u
<1>1. /\ L \in Nat /\ wire \in Seq(Message \X Nat) /\ DOMAIN wire = 1 .. L
  BY DEF TypeOK
<1>2. /\ n \in Nat /\ j \in Nat \ {0}
      /\ n + j \in n .. FrameLen(m) /\ n + j - n = j
  <2>1. FrameLen(m) \in Nat
    BY BytesOfFrame
  <2>2. QED BY <2>1
<1>3. /\ u \in Seq(Message \X Nat) /\ Len(u) = j
      /\ \A i \in 1 .. j : u[i] = <<m, n + i>>
  <2> DEFINE b == n + j
  <2>1. b \in n .. FrameLen(m) /\ b - n = j
    BY <1>2
  <2> HIDE DEF b
  <2>2. /\ SubSeq(Frame(m), n + 1, b) \in Seq(Message \X Nat)
        /\ Len(SubSeq(Frame(m), n + 1, b)) = b - n
        /\ \A i \in 1 .. b - n : SubSeq(Frame(m), n + 1, b)[i] = <<m, n + i>>
    BY <2>1, Parts
  <2>3. QED BY <2>1, <2>2 DEF b
<1>4. wire' = v
  OBVIOUS
<1> HIDE DEF u
<1>5. /\ v \in Seq(Message \X Nat) /\ Len(v) = Len(wire) + Len(u)
      /\ \A i \in 1 .. Len(wire) + Len(u) :
           v[i] = IF i <= Len(wire) THEN wire[i] ELSE u[i - Len(wire)]
  BY <1>1, <1>3, ConcatProperties
<1> HIDE DEF v
<1>a. /\ DOMAIN v = 1 .. L + j
      /\ \A i \in 1 .. L + j : v[i] = IF i <= L THEN wire[i] ELSE u[i - L]
  BY <1>3, <1>5
<1> HIDE DEF L
<1>6. \A i \in 1 .. L : v[i] = wire[i]
  BY <1>1, <1>2, <1>a
<1>7. ASSUME NEW i \in 1 .. j
      PROVE  v[L + i] = <<m, n + i>>
  <2>1. L + i \in 1 .. L + j /\ ~ (L + i <= L) /\ (L + i) - L = i
    BY <1>1, <1>2
  <2>2. \A k \in 1 .. L + j : ~ (k <= L) => v[k] = u[k - L]
    BY <1>a
  <2>3. v[L + i] = u[(L + i) - L]
    BY <2>1, <2>2
  <2>4. QED BY <1>3, <2>1, <2>3
<1>8. ASSUME NEW i \in 1 .. j
      PROVE  v[L + i][1] = m /\ v[L + i][2] = n + i
  <2>1. v[L + i] = <<m, n + i>>
    BY <1>7
  <2>2. QED BY <2>1
<1>9. /\ Shows(wire, m, n) => Shows(v, m, n + j)
      /\ \A x : \A k : x # m /\ Shows(wire, x, k) => Shows(v, x, k)
  <2>1. DOMAIN wire = 1 .. L /\ L \in Nat /\ n \in Nat /\ j \in Nat \ {0}
    BY <1>1, <1>2
  <2>2. DOMAIN v = 1 .. L + j
    BY <1>a
  <2> DEFINE w == wire
  <2>3. /\ DOMAIN w = 1 .. L /\ \A i \in 1 .. L : v[i] = w[i]
        /\ \A i \in 1 .. j : v[L + i][1] = m /\ v[L + i][2] = n + i
    BY <1>6, <1>8, <2>1
  <2> HIDE DEF w
  <2>4. Shows(w, m, n) => Shows(v, m, n + j)
    BY <2>1, <2>2, <2>3, LongerShows
  <2>5. ASSUME NEW x, NEW k, x # m
        PROVE  Shows(w, x, k) => Shows(v, x, k)
    <3>1. ASSUME NEW i \in 1 .. L + j, i \notin 1 .. L
          PROVE  v[i][1] = m
      <4>1. i - L \in 1 .. j /\ i = L + (i - L)
        BY <2>1, <3>1
      <4>2. QED BY <2>3, <4>1
    <3>2. \A i \in 1 .. L : i \in 1 .. L + j
      BY <2>1
    <3>3. DOMAIN w \subseteq DOMAIN v /\ \A i \in DOMAIN w : v[i] = w[i]
      BY <2>2, <2>3, <3>2
    <3>4. \A i \in DOMAIN v : i \notin DOMAIN w => v[i][1] = m
      BY <2>2, <2>3, <3>1
    <3>5. x # m
      BY <2>5
    <3>6. QED BY <3>3, <3>4, <3>5, OthersShow
  <2>6. QED BY <2>4, <2>5 DEF w
<1>10. \A x, k : /\ HasLeft(x, k) <=> Shows(wire, x, k)
                 /\ HasLeft(x, k)' <=> Shows(v, x, k)
  BY <1>4 DEF HasLeft, Shows
<1>11. QED BY <1>9, <1>10

LEMMA WholeTransfer ==
  ASSUME Inv, Whole, NEW m \in Message, NEW j \in 1 .. Len(region[m]),
         Transfer(m, j)
  PROVE  Whole'
<1>1. Step(m)
  BY DEF Step, WriteStep
<1>2. PICK n \in 0 .. FrameLen(m) : HasLeft(m, n) /\ Rest(m, n)
  BY DEF Whole
<1>3. Kept(m) = SubSeq(Frame(m), n + 1, FrameLen(m))
  BY <1>2 DEF Rest, Complete, Transfer
<1>4. /\ j \in 1 .. FrameLen(m) - n
      /\ wire' = wire \o SubSeq(Frame(m), n + 1, n + j)
      /\ Kept(m)' = SubSeq(Frame(m), n + j + 1, FrameLen(m))
      /\ pc'[m] = "written"
  BY <1>3, Moves
<1>5. n + j \in 0 .. FrameLen(m)
  BY <1>4, BytesOfFrame
<1>6. Rest(m, n + j)'
  BY <1>4 DEF Rest, Begun, Complete
<1>7. /\ HasLeft(m, n + j)'
      /\ \A x \in Message \ {m} : \A k : HasLeft(x, k) => HasLeft(x, k)'
  BY <1>2, <1>4, Grows DEF Inv
<1>8. ASSUME NEW x \in Message \ {m}
      PROVE  \E k \in 0 .. FrameLen(x) : HasLeft(x, k)' /\ Rest(x, k)'
  <2>1. PICK k \in 0 .. FrameLen(x) : HasLeft(x, k) /\ Rest(x, k)
    BY DEF Whole
  <2>2. Rest(x, k)'
    BY <1>1, <2>1, OthersRest
  <2>3. QED BY <1>7, <2>1, <2>2
<1>9. QED BY <1>5, <1>6, <1>7, <1>8 DEF Whole

LEMMA WholeKept ==
  ASSUME Inv, Whole, [Next]_vars
  PROVE  Whole'
<1>1. CASE Break \/ UNCHANGED vars
  <2>1. /\ UNCHANGED <<wire, pc, moved, outputBuffers_, bufferValue>>
        /\ \A m \in Message : Buf(m)' = Buf(m)
    BY <1>1 DEF Break, vars, Buf
  <2>2. \A m \in Message : Kept(m)' = Kept(m)
    BY <2>1 DEF Kept
  <2>3. ASSUME NEW m \in Message, NEW n
        PROVE  HasLeft(m, n)' = HasLeft(m, n) /\ Rest(m, n)' = Rest(m, n)
    BY <2>1, <2>2 DEF HasLeft, Rest
  <2>4. QED BY <2>3 DEF Whole
<1>2. ASSUME NEW m \in Message, Step(m)
      PROVE  Whole'
  BY <1>2, WholeCall, WholeWrite, WholeTransfer DEF Step, SendStep, WriteStep
<1>3. QED BY <1>1, <1>2 DEF Next, Step

LEMMA WholeBegins == Init => Whole
<1> SUFFICES ASSUME Init, NEW m \in Message
             PROVE  \E n \in 0 .. FrameLen(m) : HasLeft(m, n) /\ Rest(m, n)
  BY DEF Whole
<1>1. HasLeft(m, 0)
  BY DEF Init, HasLeft
<1>2. Rest(m, 0)
  BY DEF Init, Rest, Begun, Complete
<1>3. QED BY <1>1, <1>2, BytesOfFrame


(* However the socket splits the writes and the threads interleave: each   *)
(* byte of a frame leaves once and in its place, what has not left is in   *)
(* the buffer, and a buffer is given back when all of it has left.         *)
THEOREM FramesStayIntact == Spec => []FramesIntact
<1>1. Init => Whole
  BY WholeBegins
<1>2. Inv /\ Whole /\ [Next]_vars => Whole'
  BY WholeKept
<1>3. Whole => FramesIntact
  BY DEF Whole, Rest, Complete, FramesIntact
<1>4. QED BY <1>1, <1>2, <1>3, Invariance, PTL DEF Spec

-----------------------------------------------------------------------------
(* Frames one behind the other.                                            *)
LEMMA AllFrames ==
  ASSUME NEW o \in Seq(Message), NEW p \in 0 .. Len(o)
  PROVE  /\ [i \in 1 .. p |-> Frame(o[i])] \in Seq(Seq(Byte))
         /\ All(o, p) \in Seq(Byte)
<1>1. p \in Nat /\ \A i \in 1 .. p : o[i] \in Message
  OBVIOUS
<1>2. \A i \in 1 .. p : Frame(o[i]) \in Seq(Byte)
  BY <1>1, BytesOfFrame DEF Byte
<1>3. [i \in 1 .. p |-> Frame(o[i])] \in Seq(Seq(Byte))
  BY <1>1, <1>2, IsASeq
<1>4. All(o, p) \in Seq(Byte)
  BY <1>3, FlattenType DEF All
<1>5. QED BY <1>3, <1>4

LEMMA AllNext ==
  ASSUME NEW o \in Seq(Message), NEW p \in 0 .. Len(o), p < Len(o)
  PROVE  All(o, p + 1) = All(o, p) \o Frame(o[p + 1])
<1> DEFINE s == [i \in 1 .. p |-> Frame(o[i])]
           t == [i \in 1 .. p + 1 |-> Frame(o[i])]
           f == Frame(o[p + 1])
<1>1. p \in Nat /\ p + 1 \in 0 .. Len(o) /\ o[p + 1] \in Message
  OBVIOUS
<1>2. s \in Seq(Seq(Byte)) /\ t \in Seq(Seq(Byte)) /\ f \in Seq(Byte)
  BY <1>1, AllFrames, BytesOfFrame DEF Byte
<1>3. /\ Len(s) = p /\ Len(t) = p + 1 /\ t[p + 1] = f
      /\ \A i \in 1 .. p : t[i] = s[i]
  BY <1>1
<1>4. All(o, p) = FlattenSeq(s) /\ All(o, p + 1) = FlattenSeq(t)
  BY DEF All
<1> HIDE DEF s, t, f
<1>5. t = Append(s, f)
  <2>1. /\ Append(s, f) \in Seq(Seq(Byte)) /\ Len(Append(s, f)) = p + 1
        /\ Append(s, f)[p + 1] = f
        /\ \A i \in 1 .. p : Append(s, f)[i] = s[i]
    BY <1>2, <1>3, AppendProperties
  <2>2. ASSUME NEW i \in 1 .. p + 1 PROVE t[i] = Append(s, f)[i]
    <3>1. i = p + 1 \/ i \in 1 .. p
      BY <1>1
    <3>2. QED BY <1>3, <2>1, <3>1
  <2>3. QED BY <1>2, <1>3, <2>1, <2>2, SeqEqual
<1>6. FlattenSeq(Append(s, f)) = FlattenSeq(s) \o f
  BY <1>2, FlattenAppend
<1>7. QED BY <1>4, <1>5, <1>6 DEF f

LEMMA AllSame ==
  ASSUME NEW o, NEW q, NEW p \in Nat, \A i \in 1 .. p : q[i] = o[i]
  PROVE  All(q, p) = All(o, p)
<1>1. [i \in 1 .. p |-> Frame(q[i])] = [i \in 1 .. p |-> Frame(o[i])]
  OBVIOUS
<1>2. QED BY <1>1 DEF All

(* Fewer of them begin more of them.                                       *)
LEMMA AllBegin ==
  ASSUME NEW o \in Seq(Message), NEW p \in 0 .. Len(o)
  PROVE  \E t \in Seq(Byte) : All(o, Len(o)) = All(o, p) \o t
<1> DEFINE d == Len(o) - p
           T == {k \in Nat : k <= d =>
                   \E t \in Seq(Byte) : All(o, p + k) = All(o, p) \o t}
<1>1. d \in Nat /\ p \in Nat /\ p + d = Len(o)
  OBVIOUS
<1>2. 0 \in T
  <2>1. p + 0 = p /\ All(o, p) \o <<>> = All(o, p) /\ <<>> \in Seq(Byte)
    BY <1>1, AllFrames, ConcatEmptySeq
  <2>2. QED BY <2>1
<1>3. ASSUME NEW k \in 1 .. d, k - 1 \in T PROVE k \in T
  <2>1. /\ k - 1 <= d /\ k \in Nat /\ p + (k - 1) \in 0 .. Len(o)
        /\ p + (k - 1) < Len(o) /\ p + (k - 1) + 1 = p + k
        /\ p + k \in 1 .. Len(o)
    BY <1>1
  <2>2. PICK t \in Seq(Byte) : All(o, p + (k - 1)) = All(o, p) \o t
    BY <1>3, <2>1
  <2>3. All(o, p + k) = All(o, p + (k - 1)) \o Frame(o[p + k])
    <3> DEFINE h == p + (k - 1)
    <3>1. h \in 0 .. Len(o) /\ h < Len(o) /\ h + 1 = p + k
      BY <2>1
    <3> HIDE DEF h
    <3>2. All(o, h + 1) = All(o, h) \o Frame(o[h + 1])
      BY <3>1, AllNext
    <3>3. QED BY <3>1, <3>2 DEF h
  <2>4. Frame(o[p + k]) \in Seq(Byte) /\ All(o, p) \in Seq(Byte)
    <3>1. o[p + k] \in Message
      BY <2>1
    <3>2. QED BY <3>1, BytesOfFrame, AllFrames DEF Byte
  <2>5. All(o, p + k) = All(o, p) \o (t \o Frame(o[p + k]))
    <3> DEFINE a == All(o, p)
               f == Frame(o[p + k])
    <3>1. a \in Seq(Byte) /\ f \in Seq(Byte) /\ t \in Seq(Byte)
      BY <2>4
    <3>2. All(o, p + k) = (a \o t) \o f
      BY <2>2, <2>3
    <3> HIDE DEF a, f
    <3>3. (a \o t) \o f = a \o (t \o f)
      <4>1. Associates(a, t, f)
        BY <3>1, Associative
      <4>2. QED BY <4>1, Zenon DEF Associates
    <3>4. QED BY <3>2, <3>3 DEF a, f
  <2>6. t \o Frame(o[p + k]) \in Seq(Byte)
    BY <2>4, ConcatProperties
  <2>7. QED BY <2>1, <2>5, <2>6
<1> HIDE DEF T, d
<1>4. d \in T
  BY <1>1, <1>2, <1>3, ByInduction
<1>5. d <= d /\ p + d = Len(o)
  BY <1>1
<1>6. PICK t \in Seq(Byte) : All(o, p + d) = All(o, p) \o t
  BY <1>4, <1>5 DEF T
<1>7. All(o, Len(o)) = All(o, p) \o t
  BY <1>5, <1>6
<1>8. QED BY <1>7

(* What has left, and the frames of all.                                   *)
LEMMA SentFollows ==
  ASSUME NEW o \in Seq(Message), NEW p \in 0 .. Len(o), NEW n \in Nat,
         p = Len(o) => n = 0, p < Len(o) => n < FrameLen(o[p + 1])
  PROVE  /\ Sent(o, p, n) \in Seq(Byte)
         /\ \E t \in Seq(Byte) : All(o, Len(o)) = Sent(o, p, n) \o t
<1>1. CASE n = 0
  BY <1>1, AllFrames, AllBegin DEF Sent
<1>2. CASE n # 0
  <2>1. p < Len(o) /\ p + 1 \in 0 .. Len(o) /\ o[p + 1] \in Message
    BY <1>2
  <2> DEFINE x == o[p + 1]
             u == SubSeq(Frame(x), 1, n)
             v == SubSeq(Frame(x), n + 1, FrameLen(x))
  <2>2. /\ 0 \in 0 .. FrameLen(x) /\ n \in 0 .. FrameLen(x) /\ 0 + 1 = 1
        /\ FrameLen(x) \in n .. FrameLen(x)
    BY <2>1, BytesOfFrame, SMTT(30)
  <2>3. u \in Seq(Byte) /\ v \in Seq(Byte)
    BY <2>1, <2>2, Parts DEF Byte
  <2>4. u \o v = Frame(x)
    <3>1. x \in Message
      BY <2>1
    <3> HIDE DEF x
    <3>2. u \o v = SubSeq(Frame(x), 1, FrameLen(x))
      BY <2>2, <3>1, PartsJoin
    <3>3. SubSeq(Frame(x), 1, FrameLen(x)) = Frame(x)
      BY <3>1, BytesOfFrame, SubSeqFull
    <3>4. QED BY <3>2, <3>3
  <2>5. Sent(o, p, n) = All(o, p) \o u
    BY <1>2 DEF Sent
  <2>6. PICK t \in Seq(Byte) : All(o, Len(o)) = All(o, p + 1) \o t
    BY <2>1, AllBegin
  <2>7. All(o, p + 1) = All(o, p) \o Frame(x)
    BY <2>1, AllNext
  <2>8. All(o, p) \in Seq(Byte)
    BY AllFrames
  <2> DEFINE a == All(o, p)
  <2> HIDE DEF u, v, x, a
  <2>9. All(o, Len(o)) = (a \o (u \o v)) \o t
    BY <2>4, <2>6, <2>7 DEF a
  <2>10. (a \o (u \o v)) \o t = (a \o u) \o (v \o t)
    <3>1. a \in Seq(Byte) /\ u \in Seq(Byte) /\ v \in Seq(Byte) /\ t \in Seq(Byte)
      BY <2>3, <2>6, <2>8 DEF a
    <3>2. a \o u \in Seq(Byte)
      BY <3>1, ConcatProperties
    <3>3. (a \o u) \o v = a \o (u \o v)
      <4>1. Associates(a, u, v)
        BY <3>1, Associative
      <4>2. QED BY <4>1, Zenon DEF Associates
    <3>4. ((a \o u) \o v) \o t = (a \o u) \o (v \o t)
      <4>1. Associates(a \o u, v, t)
        BY <3>1, <3>2, Associative
      <4>2. QED BY <4>1, Zenon DEF Associates
    <3>5. QED BY <3>3, <3>4
  <2>11. v \o t \in Seq(Byte) /\ a \o u \in Seq(Byte)
    BY <2>3, <2>6, <2>8, ConcatProperties DEF a
  <2>12. QED BY <2>5, <2>9, <2>10, <2>11 DEF a
<1>3. QED BY <1>1, <1>2

LEMMA FollowsPrefix ==
  ASSUME TypeOK, Follows
  PROVE  IsPrefix(wire, FlattenSeq([i \in 1 .. Len(order) |-> Frame(order[i])]))
<1>1. PICK t \in Seq(Byte) : All(order, Len(order)) = wire \o t
  BY DEF Follows
<1>2. wire \in Seq(Byte)
  BY DEF TypeOK, Byte
<1>3. Len(wire) <= Len(wire \o t)
  BY <1>1, <1>2, ConcatProperties
<1>4. SubSeq(wire, 1, Len(wire)) = SubSeq(wire \o t, 1, Len(wire))
  BY <1>1, <1>2, SubSeqOfConcat1
<1>5. QED BY <1>1, <1>3, <1>4 DEF IsPrefix, All

-----------------------------------------------------------------------------
(* Every message is in the order of first writes once it has begun.        *)
LEMMA OrderBegun ==
  ASSUME Inv, Ordered
  PROVE  /\ Len(order) \in Nat /\ DOMAIN order = 1 .. Len(order)
         /\ \A k \in 1 .. Len(order) : order[k] \in Message /\ pc[order[k]] \in Begun
<1>1. Len(order) \in Nat /\ DOMAIN order = 1 .. Len(order)
  BY DEF Inv, TypeOK
<1>2. \A k \in 1 .. Len(order) : order[k] \in ToSet(order)
  BY <1>1 DEF ToSet
<1>3. QED BY <1>1, <1>2 DEF Ordered

LEMMA OrderedKept ==
  ASSUME Inv, Ordered, [Next]_vars
  PROVE  Ordered'
<1> USE DEF Inv, TypeOK
<1>1. CASE Break \/ UNCHANGED vars
  BY <1>1 DEF Break, vars, Ordered
<1>2. ASSUME NEW m \in Message, Submit(m)
      PROVE  Ordered'
  <2>1. /\ order' = Append(order, m) /\ pc[m] = "submit"
        /\ pc' = [pc EXCEPT ![m] = "queued"]
    BY <1>2 DEF Submit, AsyncWriteSome, Goto
  <2>2. m \notin ToSet(order)
    BY <2>1 DEF Ordered, Begun
  <2>3. ToSet(order') = ToSet(order) \cup {m} /\ IsInjective(order')
    BY <2>1, <2>2, AppendOnce DEF Ordered
  <2>4. {x \in Message : pc'[x] \in Begun} =
          {x \in Message : pc[x] \in Begun} \cup {m}
    BY <2>1 DEF Begun
  <2>5. QED BY <2>3, <2>4 DEF Ordered
<1>3. ASSUME NEW m \in Message, Step(m), ~ Submit(m)
      PROVE  Ordered'
  <2>1. order' = order
    BY <1>3 DEF Step, SendStep, WriteStep, Call, Lock, Scan, Take, Emplace,
         Serialize, Prepend, Transfer, OnWriteError, OnWrite, Handled, Resubmit,
         Release, socketVars
  <2>2. ASSUME NEW x \in Message
        PROVE  pc'[x] \in Begun <=> pc[x] \in Begun
    BY <1>3 DEF Step, SendStep, WriteStep, Call, Lock, Scan, Take, Emplace,
         Serialize, Prepend, Transfer, OnWriteError, OnWrite, Handled, Resubmit,
         Release, AsyncWriteSome, Goto, Begun
  <2>3. QED BY <2>1, <2>2 DEF Ordered
<1>4. QED BY <1>1, <1>2, <1>3 DEF Next, Step

(* A step of m lets the others wait.                                       *)
LEMMA OthersWait ==
  ASSUME Inv, NEW m \in Message, Step(m), NEW x \in Message \ {m}
  PROVE  /\ \A l : Waits(x, l) => Waits(x, l)'
         /\ HalfSent(x)' <=> HalfSent(x)
<1>1. /\ pc'[x] = pc[x]
      /\ pc[x] \in Holding => Kept(x)' = Kept(x)
  BY OthersKeep
<1>2. QED BY <1>1 DEF Waits, HalfSent, Holding, Working

(* A step after which m itself waits as before.                            *)
LEMMA TurnQuiet ==
  ASSUME Inv, NEW m \in Message, Step(m), UNCHANGED <<order, wire, queue>>,
         HalfSent(m)' <=> HalfSent(m),
         \A l \in Nat : Waits(m, l) => Waits(m, l)',
         NEW p, NEW n \in Nat, InTurn(p, n)
  PROVE  InTurn(p, n)'
<1>1. ASSUME NEW x \in Message
      PROVE  /\ \A l \in Nat : Waits(x, l) => Waits(x, l)'
             /\ HalfSent(x)' <=> HalfSent(x)
  BY OthersWait
<1>2. (\E x \in Message : HalfSent(x)) <=> (\E x \in Message : HalfSent(x)')
  BY <1>1
<1>3. \A k \in p + 1 .. Len(order'), x \in Message :
         x = order'[k] => Waits(x, IF k = p + 1 THEN n ELSE 0)'
  BY <1>1 DEF InTurn
<1>4. \A x \in Message : HalfSent(x)' => p + 1 = Len(order') /\ x = order'[p + 1]
  BY <1>1 DEF InTurn
<1>5. wire' = Sent(order', p, n) /\ (p = Len(order') => n = 0)
  BY DEF InTurn
<1>6. queue' = IF \E x \in Message : HalfSent(x)' THEN <<>>
               ELSE SubSeq(order', p + 1, Len(order'))
  BY <1>2 DEF InTurn
<1>7. QED BY <1>3, <1>4, <1>5, <1>6 DEF InTurn

(* The call before its write, and the handler, which moves no byte.        *)
LEMMA TurnInside ==
  ASSUME Inv, NEW m \in Message,
         \/ Call(m) \/ Lock(m) \/ Scan(m) \/ Take(m) \/ Emplace(m)
         \/ Serialize(m) \/ Prepend(m) \/ OnWrite(m) \/ Release(m),
         NEW p, NEW n \in Nat, InTurn(p, n)
  PROVE  InTurn(p, n)'
<1> USE DEF Inv
<1>1. Step(m) /\ UNCHANGED <<order, wire, queue>>
  BY DEF Call, Lock, Scan, Take, Emplace, Serialize, Prepend, OnWrite, Handled, Release,
         socketVars, Step, SendStep, WriteStep
<1>2. CASE \/ Call(m) \/ Lock(m) \/ Scan(m) \/ Take(m) \/ Emplace(m)
           \/ Serialize(m) \/ Prepend(m)
  <2>1. pc[m] \notin Begun /\ pc'[m] \notin Begun
    BY <1>2 DEF Call, Lock, Scan, Take, Emplace, Serialize, Prepend, Goto,
                TypeOK, Begun
  <2>2. ~ HalfSent(m) /\ ~ HalfSent(m)' /\ \A l : ~ Waits(m, l)
    BY <2>1 DEF HalfSent, Waits, Begun
  <2>3. QED BY <1>1, <2>2, TurnQuiet
<1>3. CASE OnWrite(m)
  <2>1. pc[m] = "written" /\ pc'[m] = "retrieved" /\ Kept(m)' = Kept(m)
    BY <1>3, HandlerKeeps
  <2>2. QED BY <1>1, <2>1, TurnQuiet DEF HalfSent, Waits
<1>4. CASE Release(m)
  <2>1. /\ pc[m] = "retrieved" /\ pc'[m] = "done" /\ Kept(m) = <<>>
    BY <1>4 DEF Release, Goto, TypeOK, Kept
  <2>2. ~ HalfSent(m) /\ ~ HalfSent(m)'
    BY <2>1 DEF HalfSent
  <2>3. ASSUME NEW l \in Nat, Waits(m, l) PROVE FALSE
    <3>1. l \in 0 .. FrameLen(m) /\ l # FrameLen(m)
      BY <2>3, BytesOfFrame, SMTT(30) DEF Waits
    <3>2. Kept(m) = SubSeq(Frame(m), l + 1, FrameLen(m))
      BY <2>3 DEF Waits
    <3>3. QED BY <2>1, <3>1, <3>2, RestLength
  <2>4. QED BY <1>1, <2>2, <2>3, TurnQuiet
<1>5. QED BY <1>2, <1>3, <1>4

(* The handler that finds a rest writes again: nobody has come between.    *)
LEMMA TurnResubmit ==
  ASSUME Inv, NEW m \in Message, Resubmit(m), NEW n \in Nat,
         NEW p \in 0 .. Len(order), InTurn(p, n)
  PROVE  InTurn(p, n)'
<1> USE DEF Inv
<1>1. /\ pc[m] = "retrieved" /\ pc'[m] = "queued" /\ Kept(m)' = Kept(m)
      /\ Kept(m) # <<>> /\ order' = order /\ wire' = wire
      /\ queue' = Append(queue, m) /\ Step(m)
  BY DEF Resubmit, AsyncWriteSome, Goto, TypeOK, Kept, Buf, Step, WriteStep
<1>2. HalfSent(m) /\ ~ HalfSent(m)'
  BY <1>1 DEF HalfSent
<1>3. /\ p + 1 = Len(order) /\ m = order[p + 1] /\ queue = <<>>
      /\ \A x \in Message : x # m => ~ HalfSent(x)
  BY <1>2 DEF InTurn
<1>4. ASSUME NEW x \in Message
      PROVE  /\ \A l \in Nat : Waits(x, l) => Waits(x, l)'
             /\ ~ HalfSent(x)'
  <2>1. CASE x = m
    BY <1>1, <1>2, <2>1 DEF Waits
  <2>2. CASE x # m
    BY <1>1, <1>3, <2>2, OthersWait
  <2>3. QED BY <2>1, <2>2
<1>5. queue' = SubSeq(order', p + 1, Len(order'))
  <2>1. queue' = <<m>>
    BY <1>1, <1>3
  <2>2. SubSeq(order, p + 1, p + 1) = <<order[p + 1]>>
    <3> DEFINE k == p + 1
    <3>1. k \in 1 .. Len(order) /\ order \in Seq(Message)
      BY <1>3 DEF TypeOK
    <3> HIDE DEF k
    <3>2. k + 1 \in Int /\ k < k + 1 /\ k \in k .. Len(order)
      BY <3>1 DEF TypeOK
    <3>3. SubSeq(order, k, k) = <<order[k]>> \o SubSeq(order, k + 1, k)
      BY <3>1, <3>2, SubSeqRecursiveFirst
    <3>4. SubSeq(order, k + 1, k) = <<>>
      BY <3>1, <3>2, SubSeqEmpty
    <3>5. <<order[k]>> \in Seq(Message) /\ <<order[k]>> \o <<>> = <<order[k]>>
      BY <3>1
    <3>6. QED BY <3>3, <3>4, <3>5 DEF k
  <2>3. QED BY <1>1, <1>3, <2>1, <2>2
<1>6. \A k \in p + 1 .. Len(order'), x \in Message :
         x = order'[k] => Waits(x, IF k = p + 1 THEN n ELSE 0)'
  BY <1>1, <1>4 DEF InTurn
<1>7. wire' = Sent(order', p, n) /\ (p = Len(order') => n = 0)
  BY <1>1 DEF InTurn
<1>8. QED BY <1>4, <1>5, <1>6, <1>7 DEF InTurn

(* The last part of a longer sequence.                                     *)
LEMMA SubAppend ==
  ASSUME NEW S, NEW s \in Seq(S), NEW e \in S, NEW p \in 0 .. Len(s)
  PROVE  SubSeq(Append(s, e), p + 1, Len(Append(s, e))) =
           Append(SubSeq(s, p + 1, Len(s)), e)
<1> DEFINE t == Append(s, e)
           u == SubSeq(s, p + 1, Len(s))
           v == SubSeq(t, p + 1, Len(t))
           d == Len(s) - p
<1>1. /\ t \in Seq(S) /\ Len(t) = Len(s) + 1 /\ t[Len(s) + 1] = e
      /\ \A i \in 1 .. Len(s) : t[i] = s[i]
  BY AppendProperties
<1>2. d \in Nat /\ p \in Nat /\ p + d = Len(s) /\ Len(s) \in Nat
  OBVIOUS
<1> HIDE DEF d, t
<1>3. /\ u \in Seq(S) /\ Len(u) = d
      /\ \A i \in 1 .. d : u[i] = s[p + i]
  BY <1>2
<1>4. /\ v \in Seq(S) /\ Len(v) = d + 1
      /\ \A i \in 1 .. d + 1 : v[i] = t[p + i]
  BY <1>1, <1>2
<1> HIDE DEF u, v
<1>5. /\ Append(u, e) \in Seq(S) /\ Len(Append(u, e)) = d + 1
      /\ Append(u, e)[d + 1] = e
      /\ \A i \in 1 .. d : Append(u, e)[i] = u[i]
  <2>1. /\ Append(u, e) \in Seq(S) /\ Len(Append(u, e)) = Len(u) + 1
        /\ Append(u, e)[Len(u) + 1] = e
        /\ \A i \in 1 .. Len(u) : Append(u, e)[i] = u[i]
    <3>1. u \in Seq(S)
      BY <1>3
    <3>2. QED BY <3>1
  <2>2. QED BY <1>3, <2>1
<1>6. ASSUME NEW i \in 1 .. d + 1 PROVE v[i] = Append(u, e)[i]
  <2>1. CASE i = d + 1
    <3>1. p + i = Len(s) + 1
      BY <1>2, <2>1
    <3>2. v[i] = t[p + i]
      BY <1>4
    <3>3. QED BY <1>1, <1>5, <2>1, <3>1, <3>2
  <2>2. CASE i # d + 1
    <3>1. i \in 1 .. d /\ p + i \in 1 .. Len(s)
      BY <1>2, <2>2
    <3>2. QED BY <1>1, <1>3, <1>4, <1>5, <3>1
  <2>3. QED BY <2>1, <2>2
<1>7. v = Append(u, e)
  BY <1>4, <1>5, <1>6, SeqEqual
<1>8. QED BY <1>7 DEF u, v, t

(* A write is begun while no rest waits for its handler: it is the last.   *)
LEMMA TurnSubmit ==
  ASSUME Inv, Whole, Ordered, NEW m \in Message, Submit(m), ~ overlap',
         NEW n \in Nat, NEW p \in 0 .. Len(order), InTurn(p, n)
  PROVE  InTurn(p, n)'
<1> USE DEF Inv
<1>1. /\ pc[m] = "submit" /\ pc'[m] = "queued" /\ Kept(m)' = Kept(m)
      /\ order' = Append(order, m) /\ wire' = wire
      /\ queue' = Append(queue, m) /\ Step(m)
      /\ \A x \in Message : ~ HalfSent(x)
  BY DEF Submit, AsyncWriteSome, Goto, TypeOK, Kept, Buf, Step, SendStep
<1>2. Waits(m, 0)'
  <2>1. Kept(m) = SubSeq(Frame(m), 0 + 1, FrameLen(m))
    BY <1>1 DEF Whole, Rest, Begun, Complete
  <2>2. QED BY <1>1, <2>1, BytesOfFrame DEF Waits
<1>3. ASSUME NEW x \in Message
      PROVE  /\ x # m => \A l \in Nat : Waits(x, l) => Waits(x, l)'
             /\ ~ HalfSent(x)'
  <2>1. ~ HalfSent(m)'
    BY <1>1 DEF HalfSent
  <2>2. QED BY <1>1, <2>1, OthersWait
<1>4. /\ Len(order) \in Nat /\ Len(order') = Len(order) + 1 /\ p \in Nat
      /\ p <= Len(order) /\ order'[Len(order) + 1] = m
      /\ \A k \in 1 .. Len(order) : order'[k] = order[k]
      /\ order \in Seq(Message)
  BY <1>1, SMTT(30) DEF TypeOK
<1>5. \A k \in 1 .. Len(order) : order[k] # m
  BY <1>1, OrderBegun DEF Begun
<1>6. ASSUME NEW k \in p + 1 .. Len(order'), NEW x \in Message, x = order'[k]
      PROVE  Waits(x, IF k = p + 1 THEN n ELSE 0)'
  <2>1. CASE k = Len(order) + 1
    <3>1. x = m /\ (k = p + 1 => n = 0)
      BY <1>4, <1>6, <2>1 DEF InTurn
    <3>2. (IF k = p + 1 THEN n ELSE 0) = 0
      BY <3>1
    <3>3. QED BY <1>2, <3>1, <3>2
  <2>2. CASE k # Len(order) + 1
    <3>1. k \in p + 1 .. Len(order) /\ k \in 1 .. Len(order)
      BY <1>4, <2>2
    <3>2. x = order[k] /\ x # m
      BY <1>4, <1>5, <1>6, <3>1
    <3>3. Waits(x, IF k = p + 1 THEN n ELSE 0)
      BY <3>1, <3>2 DEF InTurn
    <3>4. QED BY <1>3, <3>2, <3>3
  <2>3. QED BY <2>1, <2>2
<1>7. wire' = Sent(order', p, n)
  <2>1. All(order', p) = All(order, p)
    <3>1. p \in Nat /\ \A i \in 1 .. p : order'[i] = order[i]
      BY <1>4
    <3>2. QED BY <3>1, AllSame
  <2>2. n # 0 => order'[p + 1] = order[p + 1]
    BY <1>4 DEF InTurn
  <2>3. wire = Sent(order, p, n)
    BY DEF InTurn
  <2>4. QED BY <1>1, <2>1, <2>2, <2>3 DEF Sent
<1>8. queue' = SubSeq(order', p + 1, Len(order'))
  <2>1. queue = SubSeq(order, p + 1, Len(order))
    BY <1>1 DEF InTurn
  <2>2. Append(SubSeq(order, p + 1, Len(order)), m) =
          SubSeq(order', p + 1, Len(order'))
    BY <1>1, <1>4, SubAppend
  <2>3. QED BY <1>1, <2>1, <2>2
<1>9. p = Len(order') => n = 0
  BY <1>4
<1>10. QED BY <1>3, <1>6, <1>7, <1>8, <1>9 DEF InTurn

(* What is queued, when the socket performs a write, is what has not left, *)
(* in its order: the write is that of the next message.                    *)
LEMMA NextInTurn ==
  ASSUME Inv, NEW m \in Message, queue # <<>>, Head(queue) = m,
         NEW n \in Nat, NEW p \in 0 .. Len(order), InTurn(p, n)
  PROVE  /\ p < Len(order) /\ order[p + 1] = m /\ Waits(m, n)
         /\ queue = SubSeq(order, p + 1, Len(order))
         /\ Tail(queue) = SubSeq(order, p + 2, Len(order))
         /\ Len(queue) = Len(order) - p
         /\ \A x \in Message : ~ HalfSent(x)
<1>1. /\ queue = SubSeq(order, p + 1, Len(order))
      /\ \A x \in Message : ~ HalfSent(x)
  BY DEF InTurn
<1>2. order \in Seq(Message) /\ Len(order) \in Nat /\ p \in Nat
  BY DEF Inv, TypeOK
<1> DEFINE a == p + 1
           b == Len(order)
<1>3. p < Len(order)
  <2>1. CASE b < a
    <3>1. a \in Int /\ b \in Int
      BY <1>2
    <3> HIDE DEF a, b
    <3>2. SubSeq(order, a, b) = <<>>
      BY <2>1, <3>1, SubSeqEmpty
    <3>3. QED BY <1>1, <3>2 DEF a, b
  <2>2. CASE ~ (b < a)
    BY <1>2, <2>2
  <2>3. QED BY <2>1, <2>2
<1>4. a \in 1 .. Len(order) /\ b \in a .. Len(order) /\ a + 1 = p + 2
  BY <1>2, <1>3
<1>5. queue = SubSeq(order, a, b)
  BY <1>1
<1>6. b - a + 1 = Len(order) - p /\ a <= b /\ a \in Int /\ b \in Int
  BY <1>2, <1>3
<1> HIDE DEF a, b
<1>7. Head(queue) = order[a] /\ Tail(queue) = SubSeq(order, a + 1, b)
  BY <1>2, <1>4, <1>5, HeadTailOfSubSeq
<1>8. Len(queue) = b - a + 1
  <2>1. \A i \in a .. b : order[i] \in Message
    BY <1>2, <1>4 DEF b
  <2>2. QED BY <1>5, <1>6, <2>1, SubSeqProperties
<1>9. order[p + 1] = m /\ Tail(queue) = SubSeq(order, p + 2, Len(order))
      /\ Len(queue) = Len(order) - p
  BY <1>4, <1>6, <1>7, <1>8 DEF a, b
<1>10. Waits(m, n)
  <2>1. p + 1 \in p + 1 .. Len(order)
    BY <1>2, <1>3
  <2>2. QED BY <1>9, <2>1 DEF InTurn
<1>11. QED BY <1>1, <1>3, <1>9, <1>10

(* The socket moves a part of the rest: there is nobody behind it.         *)
LEMMA TurnPart ==
  ASSUME Inv, NEW m \in Message, NEW j \in 1 .. Len(region[m]),
         Transfer(m, j), ~ overlap', j < Len(region[m]),
         NEW n \in Nat, NEW p \in 0 .. Len(order), InTurn(p, n)
  PROVE  InTurn(p, n + j)'
<1> USE DEF Inv
<1>1. /\ order' = order /\ queue' = Tail(queue) /\ Step(m)
      /\ ~ (Len(queue) > 1) /\ queue # <<>> /\ Head(queue) = m
  BY DEF Transfer, Step, WriteStep
<1>2. /\ p < Len(order) /\ order[p + 1] = m /\ Waits(m, n)
      /\ Tail(queue) = SubSeq(order, p + 2, Len(order))
      /\ Len(queue) = Len(order) - p
      /\ \A x \in Message : ~ HalfSent(x)
  BY <1>1, NextInTurn
<1>3. /\ Len(order) \in Nat /\ p \in Nat /\ p + 1 = Len(order)
      /\ Len(order) < p + 2
  BY <1>1, <1>2, SMTT(30) DEF TypeOK
<1>4. n \in 0 .. FrameLen(m) /\ Kept(m) = SubSeq(Frame(m), n + 1, FrameLen(m))
  BY <1>2, BytesOfFrame DEF Waits
<1>5. /\ j \in 1 .. FrameLen(m) - n /\ Len(region[m]) = FrameLen(m) - n
      /\ wire' = wire \o SubSeq(Frame(m), n + 1, n + j)
      /\ Kept(m)' = SubSeq(Frame(m), n + j + 1, FrameLen(m))
      /\ pc'[m] = "written"
  BY <1>4, Moves
<1>6. /\ FrameLen(m) \in Nat /\ n + j \in 0 .. FrameLen(m)
      /\ n + j < FrameLen(m) /\ n + j # 0 /\ j \in Nat
  <2>1. FrameLen(m) \in Nat
    BY BytesOfFrame
  <2>2. j \in Nat /\ j >= 1 /\ j < FrameLen(m) - n
    BY <1>5, <2>1
  <2>3. QED BY <2>1, <2>2
<1>7. Waits(m, n + j)' /\ HalfSent(m)'
  <2>1. Kept(m)' # <<>>
    <3> DEFINE k == n + j
               r == SubSeq(Frame(m), k + 1, FrameLen(m))
    <3>1. k \in 0 .. FrameLen(m) /\ k # FrameLen(m) /\ Kept(m)' = r
      BY <1>5, <1>6
    <3> HIDE DEF k
    <3>2. r # <<>>
      BY <3>1, RestLength
    <3>3. QED BY <3>1, <3>2
  <2>2. QED BY <1>5, <1>6, <2>1 DEF Waits, HalfSent
<1>8. \A x \in Message : x # m => ~ HalfSent(x)'
  BY <1>1, <1>2, OthersWait
<1>9. queue' = <<>>
  BY <1>1, <1>2, <1>3, SubSeqEmpty
<1>10. wire' = Sent(order', p, n + j)
  <2>1. All(order, p) \in Seq(Byte)
    BY AllFrames DEF TypeOK
  <2>2. /\ 0 \in 0 .. FrameLen(m) /\ n \in 0 .. FrameLen(m) /\ 0 + 1 = 1
        /\ n + j \in n .. FrameLen(m)
    BY <1>4, <1>6
  <2>3. /\ SubSeq(Frame(m), 1, n) \in Seq(Byte)
        /\ SubSeq(Frame(m), n + 1, n + j) \in Seq(Byte)
        /\ SubSeq(Frame(m), 1, n) \o SubSeq(Frame(m), n + 1, n + j) =
             SubSeq(Frame(m), 1, n + j)
    BY <2>2, Parts, PartsJoin DEF Byte
  <2>4. CASE n = 0
    <3>1. wire = All(order, p) /\ n + 1 = 1
      BY <2>4 DEF InTurn, Sent
    <3>2. wire' = All(order, p) \o SubSeq(Frame(m), 1, n + j)
      BY <1>5, <3>1
    <3>3. QED BY <1>1, <1>2, <1>6, <3>2 DEF Sent
  <2>5. CASE n # 0
    <3> DEFINE a == All(order, p)
               s == SubSeq(Frame(m), 1, n)
               t == SubSeq(Frame(m), n + 1, n + j)
    <3>1. wire = a \o s
      BY <1>2, <2>5 DEF InTurn, Sent
    <3>2. wire' = (a \o s) \o t
      BY <1>5, <3>1
    <3>3. (a \o s) \o t = a \o (s \o t)
      <4>1. a \in Seq(Byte) /\ s \in Seq(Byte) /\ t \in Seq(Byte)
        BY <2>1, <2>3
      <4> HIDE DEF a, s, t
      <4>2. Associates(a, s, t)
        BY <4>1, Associative
      <4>3. QED BY <4>2, Zenon DEF Associates
    <3>4. wire' = All(order, p) \o SubSeq(Frame(m), 1, n + j)
      BY <2>3, <3>2, <3>3
    <3>5. QED BY <1>1, <1>2, <1>6, <3>4 DEF Sent
  <2>6. QED BY <2>4, <2>5
<1>11. \A k \in p + 1 .. Len(order'), x \in Message :
         x = order'[k] => Waits(x, IF k = p + 1 THEN n + j ELSE 0)'
  <2>1. \A k \in p + 1 .. Len(order) : k = p + 1
    BY <1>3
  <2>2. QED BY <1>1, <1>2, <1>7, <2>1
<1>12. p # Len(order')
  BY <1>1, <1>2, <1>3
<1>13. \A x \in Message :
         HalfSent(x)' => p + 1 = Len(order') /\ x = order'[p + 1]
  BY <1>1, <1>2, <1>3, <1>8
<1>14. QED BY <1>7, <1>9, <1>10, <1>11, <1>12, <1>13 DEF InTurn

(* The socket moves the whole rest: the next message is at its turn.       *)
LEMMA TurnAll ==
  ASSUME Inv, Ordered, NEW m \in Message, NEW j \in 1 .. Len(region[m]),
         Transfer(m, j), j = Len(region[m]),
         NEW n \in Nat, NEW p \in 0 .. Len(order), InTurn(p, n)
  PROVE  p + 1 \in 0 .. Len(order) /\ InTurn(p + 1, 0)'
<1> USE DEF Inv
<1>1. /\ order' = order /\ queue' = Tail(queue) /\ Step(m)
      /\ queue # <<>> /\ Head(queue) = m
  BY DEF Transfer, Step, WriteStep
<1>2. /\ p < Len(order) /\ order[p + 1] = m /\ Waits(m, n)
      /\ Tail(queue) = SubSeq(order, p + 2, Len(order))
      /\ \A x \in Message : ~ HalfSent(x)
  BY <1>1, NextInTurn
<1>3. /\ Len(order) \in Nat /\ p \in Nat /\ p + 1 \in 0 .. Len(order)
      /\ (p + 1) + 1 = p + 2 /\ p + 1 \in 1 .. Len(order)
  <2>1. Len(order) \in Nat
    BY DEF TypeOK
  <2>2. QED BY <1>2, <2>1
<1>4. n \in 0 .. FrameLen(m) /\ Kept(m) = SubSeq(Frame(m), n + 1, FrameLen(m))
  BY <1>2, BytesOfFrame DEF Waits
<1>5. /\ Len(region[m]) = FrameLen(m) - n
      /\ wire' = wire \o SubSeq(Frame(m), n + 1, n + j)
      /\ Kept(m)' = SubSeq(Frame(m), n + j + 1, FrameLen(m))
      /\ pc'[m] = "written"
  BY <1>4, Moves
<1>6. n + j = FrameLen(m) /\ FrameLen(m) \in Nat
  BY <1>4, <1>5, BytesOfFrame
<1>7. ~ HalfSent(m)'
  <2>1. Kept(m)' = <<>>
    <3>1. FrameLen(m) \in 0 .. FrameLen(m)
          /\ Kept(m)' = SubSeq(Frame(m), FrameLen(m) + 1, FrameLen(m))
      <4>1. SubSeq(Frame(m), n + j + 1, FrameLen(m)) =
              SubSeq(Frame(m), FrameLen(m) + 1, FrameLen(m))
        BY <1>6
      <4>2. FrameLen(m) \in 0 .. FrameLen(m)
        BY <1>6
      <4>3. Kept(m)' = SubSeq(Frame(m), n + j + 1, FrameLen(m))
        BY <1>5
      <4>4. QED BY <4>1, <4>2, <4>3
    <3>2. SubSeq(Frame(m), FrameLen(m) + 1, FrameLen(m)) = <<>>
      BY <3>1, RestLength
    <3>3. QED BY <3>1, <3>2
  <2>2. QED BY <2>1 DEF HalfSent
<1>8. \A x \in Message : ~ HalfSent(x)'
  BY <1>1, <1>2, <1>7, OthersWait
<1>9. wire' = Sent(order', p + 1, 0)
  <2>1. All(order, p) \in Seq(Byte) /\ order \in Seq(Message)
    BY AllFrames DEF TypeOK
  <2>2. /\ 0 \in 0 .. FrameLen(m) /\ n \in 0 .. FrameLen(m) /\ 0 + 1 = 1
        /\ FrameLen(m) \in n .. FrameLen(m)
    BY <1>4, <1>6
  <2>3. /\ SubSeq(Frame(m), 1, n) \in Seq(Byte)
        /\ SubSeq(Frame(m), n + 1, FrameLen(m)) \in Seq(Byte)
        /\ SubSeq(Frame(m), 1, n) \o SubSeq(Frame(m), n + 1, FrameLen(m)) =
             SubSeq(Frame(m), 1, FrameLen(m))
    BY <2>2, Parts, PartsJoin DEF Byte
  <2>4. SubSeq(Frame(m), 1, FrameLen(m)) = Frame(m)
    BY BytesOfFrame, SubSeqFull
  <2>5. All(order, p + 1) = All(order, p) \o Frame(m)
    BY <1>2, <2>1, AllNext
  <2>6. CASE n = 0
    <3>1. wire = All(order, p) /\ n + 1 = 1
      BY <2>6 DEF InTurn, Sent
    <3>2. wire' = All(order, p) \o SubSeq(Frame(m), 1, FrameLen(m))
      BY <1>5, <1>6, <3>1
    <3>3. QED BY <1>1, <2>4, <2>5, <3>2 DEF Sent
  <2>7. CASE n # 0
    <3> DEFINE a == All(order, p)
               s == SubSeq(Frame(m), 1, n)
               t == SubSeq(Frame(m), n + 1, FrameLen(m))
    <3>1. wire = a \o s
      BY <1>2, <2>7 DEF InTurn, Sent
    <3>2. wire' = (a \o s) \o t
      BY <1>5, <1>6, <3>1
    <3>3. (a \o s) \o t = a \o (s \o t)
      <4>1. a \in Seq(Byte) /\ s \in Seq(Byte) /\ t \in Seq(Byte)
        BY <2>1, <2>3
      <4> HIDE DEF a, s, t
      <4>2. Associates(a, s, t)
        BY <4>1, Associative
      <4>3. QED BY <4>2, Zenon DEF Associates
    <3>4. wire' = All(order, p) \o Frame(m)
      BY <2>3, <2>4, <3>2, <3>3
    <3>5. QED BY <1>1, <2>5, <3>4 DEF Sent
  <2>8. QED BY <2>6, <2>7
<1>10. ASSUME NEW k \in p + 2 .. Len(order), NEW x \in Message, x = order[k]
       PROVE  Waits(x, 0)'
  <2>1. k \in p + 1 .. Len(order) /\ k # p + 1 /\ k \in 1 .. Len(order)
    BY <1>3
  <2>2. x # m
    BY <1>2, <1>3, <1>10, <2>1, OrderBegun DEF Ordered, IsInjective
  <2>3. Waits(x, 0)
    BY <1>10, <2>1 DEF InTurn
  <2>4. QED BY <1>1, <2>2, <2>3, OthersWait
<1>11. \A k \in (p + 1) + 1 .. Len(order'), x \in Message :
         x = order'[k] => Waits(x, IF k = (p + 1) + 1 THEN 0 ELSE 0)'
  <2>1. \A k : (IF k = (p + 1) + 1 THEN 0 ELSE 0) = 0
    OBVIOUS
  <2>2. QED BY <1>1, <1>3, <1>10, <2>1
<1>12. queue' = SubSeq(order', (p + 1) + 1, Len(order'))
  BY <1>1, <1>2, <1>3
<1>13. QED BY <1>3, <1>8, <1>9, <1>11, <1>12 DEF InTurn

(* Whatever the step, the messages stay at their turns.                    *)
LEMMA TurnKept ==
  ASSUME Inv, Whole, Ordered, NEW m \in Message, Step(m), ~ overlap', up,
         NEW n \in Nat, NEW p \in 0 .. Len(order), InTurn(p, n)
  PROVE  \E q \in 0 .. Len(order') : \E l \in Nat : InTurn(q, l)'
<1>0. Len(order) \in Nat
  BY DEF Inv, TypeOK
<1>1. CASE \/ Call(m) \/ Lock(m) \/ Scan(m) \/ Take(m) \/ Emplace(m)
           \/ Serialize(m) \/ Prepend(m) \/ OnWrite(m) \/ Release(m)
  <2>1. order' = order
    BY <1>1 DEF Call, Lock, Scan, Take, Emplace, Serialize, Prepend, OnWrite, Handled,
                Release, socketVars
  <2>2. QED BY <1>1, <2>1, TurnInside
<1>2. CASE Submit(m)
  <2>1. p \in 0 .. Len(order')
    BY <1>0, <1>2 DEF Submit, Inv, TypeOK
  <2>2. QED BY <1>2, <2>1, TurnSubmit
<1>3. CASE Resubmit(m)
  <2>1. order' = order
    BY <1>3 DEF Resubmit
  <2>2. QED BY <1>3, <2>1, TurnResubmit
<1>4. ASSUME NEW j \in 1 .. Len(region[m]), Transfer(m, j)
      PROVE  \E q \in 0 .. Len(order') : \E l \in Nat : InTurn(q, l)'
  <2>1. order' = order /\ Len(region[m]) \in Nat /\ n + j \in Nat
    BY <1>4 DEF Transfer, Inv, TypeOK
  <2>2. CASE j < Len(region[m])
    BY <1>4, <2>1, <2>2, TurnPart
  <2>3. CASE j = Len(region[m])
    BY <1>4, <2>1, <2>3, TurnAll
  <2>4. QED BY <2>1, <2>2, <2>3
<1>5. ~ OnWriteError(m)
  BY DEF OnWriteError
<1>6. QED BY <1>1, <1>2, <1>3, <1>4, <1>5 DEF Step, SendStep, WriteStep

(* While they are at their turns, the wire is the beginning of the frames. *)
LEMMA TurnFollows ==
  ASSUME Inv, NEW n \in Nat, NEW p \in 0 .. Len(order), InTurn(p, n)
  PROVE  Follows
<1>1. order \in Seq(Message) /\ Len(order) \in Nat /\ p \in Nat
  BY DEF Inv, TypeOK
<1>2. ASSUME p < Len(order)
      PROVE  n < FrameLen(order[p + 1])
  <2>1. p + 1 \in p + 1 .. Len(order) /\ order[p + 1] \in Message
    BY <1>1, <1>2
  <2>2. QED BY <2>1 DEF InTurn, Waits
<1>3. \E t \in Seq(Byte) : All(order, Len(order)) = Sent(order, p, n) \o t
  BY <1>1, <1>2, SentFollows DEF InTurn
<1>4. QED BY <1>3 DEF InTurn, Follows

(* Nothing more leaves when the connection is gone; calls that are under   *)
(* way still add their frames to those that should.                        *)
LEMMA FollowsKept ==
  ASSUME Inv, Follows, ~ up, NEW m \in Message, Step(m)
  PROVE  Follows'
<1> USE DEF Inv
<1>1. PICK t \in Seq(Byte) : All(order, Len(order)) = wire \o t
  BY DEF Follows
<1>2. CASE Submit(m)
  <2>1. /\ order' = Append(order, m) /\ wire' = wire /\ order \in Seq(Message)
        /\ wire \in Seq(Byte)
    BY <1>2 DEF Submit, TypeOK, Byte
  <2>2. /\ Len(order') = Len(order) + 1 /\ Len(order) \in Nat
        /\ order' \in Seq(Message) /\ order'[Len(order) + 1] = m
        /\ \A i \in 1 .. Len(order) : order'[i] = order[i]
    BY <2>1
  <2> DEFINE L == Len(order)
  <2>3. L \in 0 .. Len(order') /\ L < Len(order') /\ L \in Nat
    BY <2>2
  <2>4. All(order', L + 1) = All(order', L) \o Frame(order'[L + 1])
    BY <2>2, <2>3, AllNext
  <2>5. All(order', L) = All(order, L)
    BY <2>2, AllSame
  <2>6. All(order', Len(order')) = (wire \o t) \o Frame(m)
    BY <1>1, <2>2, <2>4, <2>5
  <2>7. Frame(m) \in Seq(Byte)
    BY BytesOfFrame DEF Byte
  <2>8. t \o Frame(m) \in Seq(Byte)
    BY <2>7, ConcatProperties
  <2>9. (wire \o t) \o Frame(m) = wire \o (t \o Frame(m))
    <3>1. Associates(wire, t, Frame(m))
      BY <2>1, <2>7, Associative
    <3>2. QED BY <3>1, Zenon DEF Associates
  <2>10. QED BY <2>1, <2>6, <2>8, <2>9 DEF Follows
<1>3. CASE ~ Submit(m)
  <2>1. order' = order /\ wire' = wire
    BY <1>3 DEF Step, SendStep, WriteStep, Call, Lock, Scan, Take, Emplace,
         Serialize, Prepend, Transfer, OnWriteError, OnWrite, Handled, Resubmit,
         Release, socketVars
  <2>2. QED BY <2>1 DEF Follows
<1>4. QED BY <1>2, <1>3

LEMMA FlowKept ==
  ASSUME Inv, Whole, Ordered, Flow, [Next]_vars
  PROVE  Flow'
<1> SUFFICES ASSUME ~ overlap'
             PROVE  IF up' THEN \E p \in 0 .. Len(order') : \E n \in Nat : InTurn(p, n)'
                    ELSE Follows'
  BY DEF Flow
<1>1. CASE UNCHANGED vars
  <2>1. \A p, n : InTurn(p, n)' <=> InTurn(p, n)
    BY <1>1 DEF vars, InTurn, Waits, HalfSent, Kept, Buf
  <2>2. order' = order /\ up' = up /\ overlap' = overlap /\ wire' = wire
    BY <1>1 DEF vars
  <2>3. QED BY <2>1, <2>2 DEF Flow, Follows
<1>2. CASE Break
  <2>1. /\ up /\ ~ up' /\ ~ overlap /\ order' = order /\ wire' = wire
    BY <1>2 DEF Break
  <2>2. PICK p \in 0 .. Len(order) : \E n \in Nat : InTurn(p, n)
    BY <2>1 DEF Flow
  <2>3. Follows
    BY <2>2, TurnFollows
  <2>4. QED BY <2>1, <2>3 DEF Follows
<1>3. ASSUME NEW m \in Message, Step(m)
      PROVE  IF up' THEN \E p \in 0 .. Len(order') : \E n \in Nat : InTurn(p, n)'
             ELSE Follows'
  <2>1. up' = up /\ (overlap => overlap')
    <3>1. CASE Submit(m) \/ \E j \in 1 .. Len(region[m]) : Transfer(m, j)
      BY <3>1, Zenon DEF Submit, Transfer
    <3>2. CASE \/ Call(m) \/ Lock(m) \/ Scan(m) \/ Take(m) \/ Emplace(m)
               \/ Serialize(m) \/ Prepend(m)
      <4>1. CASE Call(m) \/ Lock(m) \/ Scan(m)
        BY <4>1 DEF Call, Lock, Scan, socketVars
      <4>2. CASE Take(m) \/ Emplace(m)
        BY <4>2 DEF Take, Emplace, socketVars
      <4>3. CASE Serialize(m)
        BY <4>3, SMTT(30) DEF Serialize, socketVars
      <4>4. CASE Prepend(m)
        BY <4>4, SMTT(30) DEF Prepend, socketVars
      <4>5. QED BY <3>2, <4>1, <4>2, <4>3, <4>4
    <3>3. CASE OnWriteError(m) \/ OnWrite(m) \/ Resubmit(m) \/ Release(m)
      BY <3>3 DEF OnWriteError, OnWrite, Handled, Resubmit, Release, socketVars
    <3>4. QED BY <1>3, <3>1, <3>2, <3>3, Zenon DEF Step, SendStep, WriteStep
  <2>2. CASE up
    <3>1. PICK p \in 0 .. Len(order) : \E n \in Nat : InTurn(p, n)
      BY <2>1, <2>2 DEF Flow
    <3>2. PICK n \in Nat : InTurn(p, n)
      BY <3>1
    <3>3. QED BY <1>3, <2>1, <2>2, <3>2, TurnKept
  <2>3. CASE ~ up
    <3>1. Follows
      BY <2>1, <2>3 DEF Flow
    <3>2. QED BY <1>3, <2>1, <2>3, <3>1, FollowsKept
  <2>4. QED BY <2>2, <2>3
<1>4. QED BY <1>1, <1>2, <1>3 DEF Next, Step

LEMMA FlowBegins == Init => Ordered /\ Flow
<1> SUFFICES ASSUME Init PROVE Ordered /\ Flow
  OBVIOUS
<1>1. /\ order = <<>> /\ Len(order) = 0 /\ wire = <<>> /\ queue = <<>> /\ up
      /\ \A m \in Message : pc[m] = "idle"
  BY DEF Init
<1>2. Ordered
  BY <1>1 DEF Ordered, IsInjective, ToSet, Begun
<1>3. InTurn(0, 0)
  <2>1. All(order, 0) = <<>>
    BY DEF All, FlattenSeq
  <2>2. SubSeq(order, 0 + 1, Len(order)) = <<>>
    BY <1>1, SubSeqEmpty
  <2>3. \A m \in Message : ~ HalfSent(m)
    BY <1>1 DEF HalfSent
  <2>4. QED BY <1>1, <2>1, <2>2, <2>3 DEF InTurn, Sent
<1>4. Flow
  BY <1>1, <1>3 DEF Flow
<1>5. QED BY <1>2, <1>4

(* Frames leave one behind the other, in the order of their first writes,  *)
(* as long as no write of another message comes between the parts of one:  *)
(* this, and nothing else, is what keeps frames apart.                     *)
THEOREM WireContiguous == Spec => []Contiguous
<1>1. Init => Whole /\ Ordered /\ Flow
  BY WholeBegins, FlowBegins
<1>2. Inv /\ Whole /\ Ordered /\ Flow /\ [Next]_vars => (Whole /\ Ordered /\ Flow)'
  BY WholeKept, OrderedKept, FlowKept
<1>3. Inv /\ Flow => Contiguous
  <2> SUFFICES ASSUME Inv, Flow, ~ overlap
               PROVE  IsPrefix(wire, FlattenSeq([i \in 1 .. Len(order) |-> Frame(order[i])]))
    BY DEF Contiguous
  <2>1. Follows
    BY TurnFollows DEF Flow
  <2>2. QED BY <2>1, FollowsPrefix DEF Inv
<1>4. QED BY <1>1, <1>2, <1>3, Invariance, PTL DEF Spec

-----------------------------------------------------------------------------
(* The receiving half, whatever the frames and however they are cut.       *)
(* The bytes of the peer, and what rpcCallback_ is called with.            *)
Place == Nat \X Nat
Answer == [frame : Nat, error : {"kNoError", "kChecksumError"}]

Peer ==
  /\ framing \in {"rpc", "chat", "asio"}
  /\ frames \in Seq([payload : Nat, intact : BOOLEAN])
  /\ framing # "rpc" => \A j \in 1 .. Len(frames) : frames[j].intact

LEMMA PeerFrame ==
  ASSUME Peer, NEW j \in 1 .. Len(frames)
  PROVE  /\ LengthField(frames[j]) \in Nat
         /\ FrameSize(frames[j]) =
              SizeofInt32 + LengthField(frames[j])
         /\ FrameSize(frames[j]) \in Nat \ {0}
         /\ FrameBytes(j) \in Seq(Place)
         /\ Len(FrameBytes(j)) = FrameSize(frames[j])
         /\ \A i \in 1 .. FrameSize(frames[j]) :
              FrameBytes(j)[i] = <<j, i>>
<1>1. SizeofInt32 \in Nat \ {0} /\ frames[j].payload \in Nat /\ j \in Nat
  <2>1. frames \in Seq([payload : Nat, intact : BOOLEAN])
    BY DEF Peer
  <2>2. Len(frames) \in Nat /\ j \in Nat
    BY <2>1
  <2>3. frames[j] \in [payload : Nat, intact : BOOLEAN]
    BY <2>1, ElementOfSeq
  <2>4. QED BY <2>2, <2>3, ReceiveAssumption
<1>2. LengthField(frames[j]) \in Nat
  BY <1>1 DEF LengthField
<1> DEFINE L == FrameSize(frames[j])
<1>3. L = SizeofInt32 + LengthField(frames[j])
  BY DEF FrameSize
<1>4. L \in Nat \ {0}
  BY <1>1, <1>2, <1>3
<1>5. FrameBytes(j) = [i \in 1 .. L |-> <<j, i>>]
  BY DEF FrameBytes
<1> HIDE DEF L
<1>6. \A i \in 1 .. L : <<j, i>> \in Place
  BY <1>1, <1>4 DEF Place
<1>7. FrameBytes(j) \in Seq(Place) /\ Len(FrameBytes(j)) = L
  BY <1>4, <1>5, <1>6, IsASeq
<1>8. QED BY <1>2, <1>3, <1>4, <1>5, <1>7 DEF L

LEMMA SameFlatten == \A s : FlattenSeq(s) = FlattenSeq(s)
BY DEF FlattenSeq, FlattenSeq

(* What the peer sends from the j-th frame on.                             *)
LEMMA StreamParts ==
  ASSUME Peer, NEW j \in 1 .. Len(frames) + 1
  PROVE  /\ Stream(j) \in Seq(Place)
         /\ j = Len(frames) + 1 => Stream(j) = <<>>
         /\ j <= Len(frames) =>
              Stream(j) = FrameBytes(j) \o Stream(j + 1)
<1> DEFINE N == Len(frames)
           P(a) == [k \in 1 .. N - a + 1 |-> FrameBytes(a + k - 1)]
<1>1. N \in Nat
  BY DEF Peer
<1>2. ASSUME NEW a \in 1 .. N + 1
      PROVE  P(a) \in Seq(Seq(Place)) /\ Len(P(a)) = N - a + 1
  <2>1. N - a + 1 \in Nat /\ \A k \in 1 .. N - a + 1 : a + k - 1 \in 1 .. N
    BY <1>1
  <2>2. \A k \in 1 .. N - a + 1 : FrameBytes(a + k - 1) \in Seq(Place)
    BY <2>1, PeerFrame
  <2>3. QED BY <2>1, <2>2, IsASeq
<1>3. ASSUME NEW a
      PROVE  Stream(a) = FlattenSeq(P(a))
  BY SameFlatten DEF Stream
<1>4. Stream(j) \in Seq(Place)
  BY <1>2, <1>3, FlattenType
<1>5. ASSUME j = N + 1
      PROVE  Stream(j) = <<>>
  <2>1. N - j + 1 = 0
    BY <1>1, <1>5
  <2>2. P(j) = <<>>
    BY <2>1
  <2>3. QED BY <1>3, <2>2 DEF FlattenSeq
<1>6. ASSUME j <= N
      PROVE  Stream(j) = FrameBytes(j) \o Stream(j + 1)
  <2>1. j \in Nat /\ j + 1 \in 1 .. N + 1 /\ N - (j + 1) + 1 = N - j
        /\ N - j \in Nat /\ 1 \in 1 .. N - j + 1 /\ j + 1 - 1 = j
    BY <1>1, <1>6
  <2>2. OneMore(P(j + 1), P(j))
    <3>1. Len(P(j)) = Len(P(j + 1)) + 1
      BY <1>2, <2>1
    <3>2. ASSUME NEW i \in 1 .. Len(P(j + 1)) PROVE P(j)[i + 1] = P(j + 1)[i]
      <4>1. i \in 1 .. N - j /\ i + 1 \in 1 .. N - j + 1
        BY <1>2, <2>1
      <4>2. j + (i + 1) - 1 = (j + 1) + i - 1
        BY <2>1, <4>1
      <4>3. P(j)[i + 1] = FrameBytes(j + (i + 1) - 1)
        BY <4>1
      <4>4. P(j + 1)[i] = FrameBytes((j + 1) + i - 1)
        BY <2>1, <4>1
      <4>5. QED BY <4>2, <4>3, <4>4
    <3>3. QED BY <3>1, <3>2 DEF OneMore
  <2>3. P(j)[1] = FrameBytes(j)
    BY <2>1
  <2>4. P(j) \in Seq(Seq(Place)) /\ P(j + 1) \in Seq(Seq(Place))
    BY <1>2, <2>1
  <2> HIDE DEF P
  <2>5. FlattenSeq(P(j)) = P(j)[1] \o FlattenSeq(P(j + 1))
    BY <2>2, <2>4, FlattenFirst
  <2>6. QED BY <1>3, <2>3, <2>5
<1>7. QED BY <1>4, <1>5, <1>6

(* The input is at the start of the j-th frame: the first bytes are its    *)
(* length, and if there are enough of them they are the frame.             *)
LEMMA FirstByte ==
  ASSUME Peer, NEW j \in 1 .. Len(frames) + 1, NEW b \in Seq(Place),
         NEW r \in Seq(Place), b \o r = Stream(j), b # <<>>
  PROVE  /\ j \in 1 .. Len(frames)
         /\ b[1] = <<j, 1>>
         /\ peekInt32(b) = LengthField(frames[j])
<1>1. b \o r # <<>> /\ (b \o r)[1] = b[1] /\ Len(frames) \in Nat
  BY DEF Peer
<1>2. j \in 1 .. Len(frames)
  <2>1. j # Len(frames) + 1
    BY <1>1, StreamParts
  <2>2. QED BY <1>1, <2>1
<1> DEFINE f == FrameBytes(j)
           t == Stream(j + 1)
<1>3. b \o r = f \o t
  <2>1. j \in 1 .. Len(frames) + 1 /\ j <= Len(frames)
    BY <1>2
  <2>2. QED BY <2>1, StreamParts
<1>4. /\ f \in Seq(Place) /\ Len(f) \in Nat \ {0} /\ f[1] = <<j, 1>>
      /\ t \in Seq(Place)
  <2>1. j + 1 \in 1 .. Len(frames) + 1
    BY <1>1, <1>2
  <2>2. QED BY <1>2, <2>1, PeerFrame, StreamParts
<1> HIDE DEF f, t
<1>5. (f \o t)[1] = f[1]
  BY <1>4
<1>6. b[1] = <<j, 1>>
  BY <1>1, <1>3, <1>4, <1>5
<1>7. QED BY <1>2, <1>6 DEF peekInt32

LEMMA CutFrame ==
  ASSUME Peer, NEW j \in 1 .. Len(frames), NEW b \in Seq(Place),
         NEW r \in Seq(Place), b \o r = Stream(j),
         FrameSize(frames[j]) <= Len(b)
  PROVE  LET L == FrameSize(frames[j])
         IN  /\ \A i \in 1 .. L : b[i] = FrameBytes(j)[i]
             /\ SubSeq(b, L + 1, Len(b)) \in Seq(Place)
             /\ Len(SubSeq(b, L + 1, Len(b))) = Len(b) - L
             /\ SubSeq(b, L + 1, Len(b)) \o r = Stream(j + 1)
<1> DEFINE f == FrameBytes(j)
           t == Stream(j + 1)
           L == FrameSize(frames[j])
           u == SubSeq(b, L + 1, Len(b))
           v == SubSeq(b, 1, L)
<1>1. /\ f \in Seq(Place) /\ Len(f) = L /\ L \in Nat \ {0} /\ t \in Seq(Place)
  <2>1. j + 1 \in 1 .. Len(frames) + 1
    BY DEF Peer
  <2>2. QED BY <2>1, PeerFrame, StreamParts
<1>2. b \o r = f \o t
  <2>1. j \in 1 .. Len(frames) + 1 /\ j <= Len(frames)
    BY DEF Peer
  <2>2. QED BY <2>1, StreamParts
<1>3. L <= Len(b)
  OBVIOUS
<1> HIDE DEF f, t, L
<1>4. \A i \in 1 .. L : b[i] = f[i]
  <2>1. ASSUME NEW i \in 1 .. L PROVE b[i] = f[i]
    <3>1. i \in 1 .. Len(b) /\ i \in 1 .. Len(f)
      BY <1>1, <1>3
    <3>2. (b \o r)[i] = b[i] /\ (f \o t)[i] = f[i]
      BY <1>1, <3>1
    <3>3. QED BY <1>2, <3>2
  <2>2. QED BY <2>1
<1>5. /\ u \in Seq(Place) /\ Len(u) = Len(b) - L
      /\ v \in Seq(Place) /\ Len(v) = L /\ \A i \in 1 .. L : v[i] = b[i]
  BY <1>1, <1>3
<1>6. v \o u = b
  <2>1. /\ L \in 1 - 1 .. Len(b) /\ Len(b) \in L .. Len(b)
        /\ 1 \in 1 .. Len(b) + 1
    BY <1>1, <1>3
  <2>2. v \o u = SubSeq(b, 1, Len(b))
    BY <2>1, ConcatAdjacentSubSeq DEF u, v
  <2>3. QED BY <2>2, SubSeqFull
<1> HIDE DEF u, v
<1>7. v = f
  BY <1>1, <1>4, <1>5, SeqEqual
<1>8. f \o (u \o r) = f \o t
  <2>1. (f \o u) \o r = f \o (u \o r)
    <3>1. Associates(f, u, r)
      BY <1>1, <1>5, Associative
    <3>2. QED BY <3>1, Zenon DEF Associates
  <2>2. QED BY <1>2, <1>6, <1>7, <2>1
<1>9. u \o r = t
  <2>1. u \o r \in Seq(Place)
    BY <1>5, ConcatProperties
  <2>2. QED BY <1>1, <1>8, <2>1, ConcatSimplifications
<1>10. QED BY <1>4, <1>5, <1>9 DEF u, f, t, L

(* The loop after some turns, when d frames were delivered before it and r *)
(* is still to come: it has delivered the frames behind them and is at the *)
(* start of the next.                                                      *)
InTime(d, r, s) ==
  /\ s.input \in Seq(Place)
  /\ s.calls \in Seq(Answer)
  /\ d + Len(s.calls) <= Len(frames)
  /\ s.input \o r = Stream(d + Len(s.calls) + 1)
  /\ \A k \in 1 .. Len(s.calls) :
       /\ s.calls[k].frame = d + k
       /\ s.calls[k].error = "kNoError" <=> frames[d + k].intact

LEMMA ShortestFrame ==
  ASSUME Peer
  PROVE  kMinMessageLen[framing] \in Nat \ {0}
BY ReceiveAssumption DEF Peer, kMinMessageLen

(* The checksum is looked at in the right place.                           *)
LEMMA ChecksumOf ==
  ASSUME Peer, NEW j \in 1 .. Len(frames), NEW b \in Seq(Place),
         FrameSize(frames[j]) <= Len(b),
         \A i \in 1 .. FrameSize(frames[j]) : b[i] = FrameBytes(j)[i]
  PROVE  LET len == LengthField(frames[j])
         IN  validate_checksum(j, SubSeq(b, SizeofInt32 + 1, SizeofInt32 + len), len)
               <=> frames[j].intact
<1> DEFINE len == LengthField(frames[j])
           f == FrameBytes(j)
           lo == SizeofInt32 + 1
           hi == SizeofInt32 + len
<1>1. /\ SizeofInt32 \in Nat \ {0} /\ len \in Nat
      /\ hi = FrameSize(frames[j]) /\ f \in Seq(Place) /\ Len(f) = hi
  BY PeerFrame, ReceiveAssumption
<1>2. \A i \in 1 .. hi : b[i] = f[i]
  BY <1>1
<1>3. lo \in 1 .. hi + 1 /\ lo \in Nat /\ hi \in Nat /\ hi <= Len(b)
  BY <1>1
<1> HIDE DEF len, f, lo, hi
<1>4. SubSeq(b, lo, hi) = SubSeq(f, lo, hi)
  <2>1. SubSeq(b, lo, hi) = [i \in 1 .. hi - lo + 1 |-> b[i + lo - 1]]
    BY <1>3
  <2>2. SubSeq(f, lo, hi) = [i \in 1 .. hi - lo + 1 |-> f[i + lo - 1]]
    BY <1>1, <1>3
  <2>3. \A i \in 1 .. hi - lo + 1 : i + lo - 1 \in 1 .. hi
    BY <1>3
  <2>4. \A i \in 1 .. hi - lo + 1 : b[i + lo - 1] = f[i + lo - 1]
    BY <1>2, <2>3
  <2>5. QED BY <2>1, <2>2, <2>4
<1>5. QED BY <1>4 DEF len, f, lo, hi, validate_checksum

LEMMA TurnInTime ==
  ASSUME Peer, NEW d \in Nat, NEW r \in Seq(Place), NEW s,
         InTime(d, r, s), HasFrame(s.input)
  PROVE  /\ InTime(d, r, Turn(s))
         /\ Len(Turn(s).input) < Len(s.input)
<1> DEFINE b == s.input
           c == Len(s.calls)
           j == d + c + 1
           len == LengthField(frames[j])
           L == FrameSize(frames[j])
           body == SubSeq(b, SizeofInt32 + 1, SizeofInt32 + len)
           error == IF framing # "rpc" \/ validate_checksum(j, body, len)
                    THEN "kNoError" ELSE "kChecksumError"
           u == SubSeq(b, L + 1, Len(b))
           call == [frame |-> j, error |-> error]
<1>1. /\ b \in Seq(Place) /\ s.calls \in Seq(Answer) /\ c \in Nat
      /\ Len(frames) \in Nat /\ j \in 1 .. Len(frames) + 1
      /\ b \o r = Stream(j)
  BY DEF InTime, Peer
<1>2. /\ Len(b) >= kMinMessageLen[framing]
      /\ Len(b) >= SizeofInt32 + peekInt32(b)
  BY DEF HasFrame
<1>3. b # <<>>
  BY <1>1, <1>2, ShortestFrame
<1>4. /\ j \in 1 .. Len(frames) /\ b[1] = <<j, 1>>
      /\ peekInt32(b) = len
  <2> HIDE DEF j, b, len
  <2>1. QED BY <1>1, <1>3, FirstByte DEF len
<1>5. L = SizeofInt32 + len /\ L \in Nat \ {0} /\ L <= Len(b)
  BY <1>2, <1>4, PeerFrame
<1>6. /\ \A i \in 1 .. L : b[i] = FrameBytes(j)[i]
      /\ u \in Seq(Place) /\ Len(u) = Len(b) - L
      /\ u \o r = Stream(j + 1)
  <2> HIDE DEF j, b
  <2>1. QED BY <1>1, <1>4, <1>5, CutFrame
<1>7. Turn(s) = [input |-> u, calls |-> Append(s.calls, call)]
  <2>1. s.input[1][1] = j /\ peekInt32(s.input) = len
    BY <1>4
  <2>2. SizeofInt32 + len + 1 = L + 1
    BY <1>5
  <2> HIDE DEF j, len, L
  <2>3. QED BY <2>1, <2>2 DEF Turn
<1>8. error = "kNoError" <=> frames[j].intact
  <2>1. validate_checksum(j, body, len) <=> frames[j].intact
    <3> HIDE DEF j, b
    <3>1. QED BY <1>1, <1>4, <1>5, <1>6, ChecksumOf
  <2>2. framing # "rpc" => frames[j].intact
    BY <1>4 DEF Peer
  <2> HIDE DEF j, body, len
  <2>3. QED BY <2>1, <2>2
<1>9. call \in Answer /\ call.frame = j /\ call.error = error
  <2>1. error \in {"kNoError", "kChecksumError"} /\ j \in Nat
    BY <1>4
  <2> HIDE DEF error, j
  <2>2. QED BY <2>1 DEF Answer
<1> DEFINE calls == Append(s.calls, call)
<1> HIDE DEF call, error, u, L, len, body
<1>10. /\ calls \in Seq(Answer) /\ Len(calls) = c + 1 /\ calls[c + 1] = call
       /\ \A k \in 1 .. c : calls[k] = s.calls[k]
  BY <1>1, <1>9, AppendProperties
<1> HIDE DEF calls
<1>11. ASSUME NEW k \in 1 .. Len(calls)
       PROVE  /\ calls[k].frame = d + k
              /\ calls[k].error = "kNoError" <=> frames[d + k].intact
  <2>1. CASE k = c + 1
    <3>1. d + k = j /\ calls[k] = call
      BY <1>1, <1>10, <2>1
    <3> HIDE DEF j
    <3>2. QED BY <1>8, <1>9, <3>1
  <2>2. CASE k # c + 1
    <3>1. k \in 1 .. c
      BY <1>1, <1>10, <2>2
    <3>2. QED BY <1>10, <3>1 DEF InTime
  <2>3. QED BY <2>1, <2>2
<1>12. d + Len(calls) <= Len(frames) /\ d + Len(calls) + 1 = j + 1
  BY <1>1, <1>4, <1>10
<1>13. Turn(s).input = u /\ Turn(s).calls = calls
  BY <1>7 DEF calls
<1>14. Len(u) < Len(b)
  <2>1. Len(u) = Len(b) - L /\ L \in Nat \ {0} /\ Len(b) \in Nat
    <3>1. b \in Seq(Place)
      BY <1>1
    <3> HIDE DEF b, j
    <3>2. Len(b) \in Nat
      BY <3>1
    <3>3. QED BY <1>5, <1>6, <3>2
  <2> HIDE DEF b
  <2>2. QED BY <2>1
<1> HIDE DEF j
<1>15. QED BY <1>6, <1>10, <1>11, <1>12, <1>13, <1>14 DEF InTime

(* When the loop stops, there is less than a frame.                        *)
LEMMA StopsInTime ==
  ASSUME Peer, NEW d \in Nat, NEW r \in Seq(Place), NEW s,
         InTime(d, r, s), ~ HasFrame(s.input), s.input # <<>>
  PROVE  LET f == frames[d + Len(s.calls) + 1]
         IN  \/ Len(s.input) < FrameSize(f)
             \/ /\ framing = "chat" /\ f.payload = 0
                /\ Len(s.input) = SizeofInt32
<1> DEFINE b == s.input
           j == d + Len(s.calls) + 1
<1>1. /\ b \in Seq(Place) /\ Len(s.calls) \in Nat
      /\ Len(frames) \in Nat /\ j \in 1 .. Len(frames) + 1
      /\ b \o r = Stream(j) /\ b # <<>>
  BY DEF InTime, Peer
<1> DEFINE len == LengthField(frames[j])
<1>2. j \in 1 .. Len(frames) /\ peekInt32(b) = len
  <2> HIDE DEF j, b
  <2>1. QED BY <1>1, FirstByte
<1>3. \/ Len(b) < kMinMessageLen[framing]
      \/ Len(b) < SizeofInt32 + len
  <2>1. /\ kMinMessageLen[framing] \in Nat /\ Len(b) \in Nat
        /\ SizeofInt32 + peekInt32(b) \in Nat
    <3>1. kMinMessageLen[framing] \in Nat
      BY ShortestFrame
    <3>2. len \in Nat /\ SizeofInt32 \in Nat
      <4> HIDE DEF j
      <4>1. QED BY <1>2, PeerFrame, ReceiveAssumption
    <3> HIDE DEF j, b, len
    <3>3. QED BY <1>1, <1>2, <3>1, <3>2
  <2>2. \/ ~ (Len(b) >= kMinMessageLen[framing])
        \/ ~ (Len(b) >= SizeofInt32 + peekInt32(b))
    BY Zenon DEF HasFrame
  <2> HIDE DEF j, b, len
  <2>3. QED BY <1>2, <2>1, <2>2
<1> HIDE DEF j
<1>4. /\ FrameSize(frames[j]) = SizeofInt32 + len
      /\ len = frames[j].payload + (IF framing = "rpc" THEN SizeofInt32 ELSE 0)
      /\ SizeofInt32 \in Nat \ {0} /\ frames[j].payload \in Nat
  <2>1. frames[j] \in [payload : Nat, intact : BOOLEAN]
    BY <1>2, ElementOfSeq DEF Peer
  <2>2. QED BY <1>2, <2>1, PeerFrame, ReceiveAssumption DEF LengthField
<1> HIDE DEF len
<1>5. framing \in {"rpc", "chat", "asio"}
  BY DEF Peer
<1>6. CASE Len(b) >= SizeofInt32 + len
  <2>1. /\ kMinMessageLen["rpc"] = SizeofInt32 + SizeofInt32
        /\ kMinMessageLen["chat"] = SizeofInt32 + 1
        /\ kMinMessageLen["asio"] = SizeofInt32
    BY DEF kMinMessageLen
  <2>2. Len(b) \in Nat
    BY <1>1
  <2> HIDE DEF b
  <2>3. /\ Len(b) < kMinMessageLen[framing]
        /\ Len(b) >= SizeofInt32 + len
    BY <1>3, <1>4, <1>6, <2>2
  <2>4. ASSUME framing = "rpc" PROVE FALSE
    <3>1. len = frames[j].payload + SizeofInt32
      BY <1>4, <2>4
    <3>2. Len(b) < SizeofInt32 + SizeofInt32
      BY <2>1, <2>3, <2>4
    <3>3. QED BY <1>4, <2>2, <2>3, <3>1, <3>2
  <2>5. ASSUME framing = "asio" PROVE FALSE
    <3>1. len = frames[j].payload
      BY <1>4, <2>5
    <3>2. Len(b) < SizeofInt32
      BY <2>1, <2>3, <2>5
    <3>3. QED BY <1>4, <2>2, <2>3, <3>1, <3>2
  <2>6. ASSUME framing = "chat"
        PROVE  frames[j].payload = 0 /\ Len(b) = SizeofInt32
    <3>1. len = frames[j].payload
      BY <1>4, <2>6
    <3>2. Len(b) < SizeofInt32 + 1
      BY <2>1, <2>3, <2>6
    <3>3. QED BY <1>4, <2>2, <2>3, <3>1, <3>2
  <2>7. QED BY <1>5, <2>4, <2>5, <2>6 DEF j, b
<1>7. CASE ~ (Len(b) >= SizeofInt32 + len)
  <2>1. Len(b) < FrameSize(frames[j])
    BY <1>1, <1>4, <1>7
  <2>2. QED BY <2>1 DEF j
<1>8. QED BY <1>6, <1>7

-----------------------------------------------------------------------------
(* f[k] is what n turns of the loop or fewer have come to.                 *)
Turns(f, a, n) ==
  f = [k \in 0 .. n |->
         IF k = 0 THEN [input |-> a, calls |-> <<>>]
         ELSE IF HasFrame(f[k - 1].input) THEN Turn(f[k - 1])
         ELSE f[k - 1]]

LEMMA TurnAt ==
  ASSUME NEW f, NEW a, NEW n, Turns(f, a, n), NEW k \in 0 .. n
  PROVE  f[k] = IF k = 0 THEN [input |-> a, calls |-> <<>>]
                ELSE IF HasFrame(f[k - 1].input)
                THEN Turn(f[k - 1])
                ELSE f[k - 1]
BY DEF Turns

(* There is such a function: the definition of Deframe has a meaning.      *)
LEMMA TurnsExist ==
  ASSUME NEW a, NEW n \in Nat
  PROVE  \E f : Turns(f, a, n)
<1> DEFINE T == {k \in Nat : \E f : Turns(f, a, k)}
           After(s) == IF HasFrame(s.input) THEN Turn(s) ELSE s
<1>1. 0 \in T
  <2> DEFINE h == [k \in 0 .. 0 |-> [input |-> a, calls |-> <<>>]]
  <2>1. \A k \in 0 .. 0 : k = 0
    OBVIOUS
  <2>2. Turns(h, a, 0)
    BY <2>1 DEF Turns
  <2>3. QED BY <2>2
<1>2. ASSUME NEW k \in 1 .. n, k - 1 \in T
      PROVE  k \in T
  <2>1. PICK g : Turns(g, a, k - 1)
    BY <1>2
  <2>2. DEFINE h == [i \in 0 .. k |-> IF i = k THEN After(g[k - 1]) ELSE g[i]]
  <2>3. ASSUME NEW i \in 0 .. k
        PROVE  h[i] = IF i = 0 THEN [input |-> a, calls |-> <<>>]
                      ELSE IF HasFrame(h[i - 1].input)
                      THEN Turn(h[i - 1])
                      ELSE h[i - 1]
    <3>1. CASE i = k
      <4>1. i # 0 /\ i - 1 \in 0 .. k /\ i - 1 # k
        BY <3>1
      <4>2. h[i] = After(g[k - 1]) /\ h[i - 1] = g[k - 1]
        BY <3>1, <4>1
      <4> HIDE DEF h
      <4>3. QED BY <4>1, <4>2
    <3>2. CASE i # k
      <4>1. i \in 0 .. k - 1
        BY <3>2
      <4>2. h[i] = g[i]
        BY <3>2
      <4>3. i # 0 => h[i - 1] = g[i - 1]
        <5>1. i # 0 => i - 1 \in 0 .. k /\ i - 1 # k
          BY <4>1
        <5>2. QED BY <5>1
      <4>4. g[i] = IF i = 0 THEN [input |-> a, calls |-> <<>>]
                   ELSE IF HasFrame(g[i - 1].input)
                   THEN Turn(g[i - 1])
                   ELSE g[i - 1]
        BY <2>1, <4>1, TurnAt
      <4> HIDE DEF h
      <4>5. QED BY <4>2, <4>3, <4>4
    <3>3. QED BY <3>1, <3>2
  <2>4. Turns(h, a, k)
    BY <2>3, Zenon DEF Turns
  <2>5. QED BY <1>2, <2>4
<1>3. n \in T
  <2> HIDE DEF T
  <2>1. QED BY <1>1, <1>2, ByInduction
<1>4. QED BY <1>3

LEMMA DeframeTurns ==
  ASSUME NEW a, Len(a) \in Nat
  PROVE  \E f : Turns(f, a, Len(a)) /\ Deframe(a) = f[Len(a)]
<1> DEFINE f == CHOOSE g : Turns(g, a, Len(a))
<1>1. Turns(f, a, Len(a))
  BY TurnsExist
<1>2. Deframe(a) = f[Len(a)]
  BY DEF Deframe, Turns
<1>3. QED BY <1>1, <1>2

(* The loop: every turn takes a byte at least, so that it has stopped.     *)
LEMMA DeframeInTime ==
  ASSUME Peer, NEW d \in Nat, d <= Len(frames), NEW a \in Seq(Place),
         NEW r \in Seq(Place), a \o r = Stream(d + 1)
  PROVE  /\ InTime(d, r, Deframe(a))
         /\ ~ HasFrame(Deframe(a).input)
<1> DEFINE n == Len(a)
<1>1. n \in Nat /\ Len(frames) \in Nat
  BY DEF Peer
<1>2. PICK f : Turns(f, a, n) /\ Deframe(a) = f[n]
  BY <1>1, DeframeTurns
<1> DEFINE T == {k \in Nat : k <= n =>
                   /\ InTime(d, r, f[k])
                   /\ \/ ~ HasFrame(f[k].input)
                      \/ Len(f[k].input) + k <= n}
<1>3. 0 \in T
  <2>1. f[0] = [input |-> a, calls |-> <<>>]
    BY <1>1, <1>2, TurnAt
  <2>2. f[0].input = a /\ f[0].calls = <<>>
    BY <2>1
  <2>3. <<>> \in Seq(Answer) /\ Len(<<>>) = 0 /\ d + 0 = d /\ n + 0 <= n
    BY <1>1
  <2>4. InTime(d, r, f[0])
    BY <2>2, <2>3 DEF InTime
  <2>5. QED BY <2>2, <2>3, <2>4
<1>4. ASSUME NEW k \in 1 .. n, k - 1 \in T
      PROVE  k \in T
  <2> DEFINE s == f[k - 1]
  <2>1. k \in Nat /\ k \in 0 .. n /\ k # 0 /\ k - 1 \in Nat /\ k - 1 <= n
    BY <1>1
  <2>2. /\ InTime(d, r, s)
        /\ ~ HasFrame(s.input) \/ Len(s.input) + (k - 1) <= n
    BY <1>4, <2>1
  <2>3. f[k] = IF HasFrame(s.input) THEN Turn(s) ELSE s
    BY <1>2, <2>1, TurnAt
  <2> HIDE DEF T, n, s
  <2>4. CASE HasFrame(s.input)
    <3>1. /\ InTime(d, r, f[k]) /\ Len(f[k].input) < Len(s.input)
      BY <2>2, <2>3, <2>4, TurnInTime
    <3>2. Len(f[k].input) \in Nat /\ Len(s.input) \in Nat
      <4>1. f[k].input \in Seq(Place) /\ s.input \in Seq(Place)
        BY <2>2, <3>1, Zenon DEF InTime
      <4>2. QED BY <4>1
    <3>3. Len(f[k].input) + k <= n
      <4>1. Len(s.input) + (k - 1) <= n
        BY <2>2, <2>4
      <4>2. PICK p \in Nat, q \in Nat :
              p = Len(f[k].input) /\ q = Len(s.input)
        BY <3>2
      <4> HIDE DEF n
      <4>3. p < q /\ q + (k - 1) <= n
        BY <3>1, <4>1, <4>2
      <4>4. p + k <= n
        BY <1>1, <2>1, <4>3
      <4>5. QED BY <4>2, <4>4
    <3>4. QED BY <2>1, <3>1, <3>3 DEF T
  <2>5. CASE ~ HasFrame(s.input)
    BY <2>1, <2>2, <2>3, <2>5 DEF T
  <2>6. QED BY <2>4, <2>5
<1>5. n \in T
  <2> HIDE DEF T, n
  <2>1. QED BY <1>1, <1>3, <1>4, ByInduction
<1>6. /\ InTime(d, r, f[n])
      /\ ~ HasFrame(f[n].input) \/ Len(f[n].input) + n <= n
  BY <1>1, <1>5
<1>7. ASSUME HasFrame(f[n].input) PROVE FALSE
  <2> HIDE DEF n
  <2>1. Len(f[n].input) \in Nat
    BY <1>6 DEF InTime
  <2>2. Len(f[n].input) = 0
    BY <1>1, <1>6, <1>7, <2>1
  <2>3. Len(f[n].input) >= kMinMessageLen[framing]
    BY <1>7, Zenon DEF HasFrame
  <2>4. QED BY <2>2, <2>3, ShortestFrame
<1>8. QED BY <1>2, <1>6, <1>7

-----------------------------------------------------------------------------
(* Between reads the loop has stopped, in time with the peer.              *)
Received == [input |-> inputBuffer_, calls |-> delivered]

Reads ==
  /\ Peer /\ arriving \in Seq(Place)
  /\ InTime(0, arriving, Received)
  /\ ~ HasFrame(inputBuffer_)

LEMMA ReadsInit ==
  ASSUME ReadInit
  PROVE  Reads
<1> DEFINE Frames == [payload : Nat, intact : BOOLEAN]
<1>1. PICK n \in 0 .. MaxFrames :
        frames \in [1 .. n ->
                     [payload : Payloads,
                      intact : IF framing = "rpc" THEN BOOLEAN ELSE {TRUE}]]
  BY DEF ReadInit
<1>2. n \in Nat /\ DOMAIN frames = 1 .. n
  BY <1>1
<1>3. \A j \in 1 .. n :
        frames[j] \in Frames /\ (framing # "rpc" => frames[j].intact)
  BY <1>1, ReceiveAssumption
<1>4. frames \in Seq(Frames) /\ Len(frames) = n
  <2>1. frames = [j \in 1 .. n |-> frames[j]]
    BY <1>1
  <2> HIDE DEF Frames
  <2>2. QED BY <1>2, <1>3, <2>1, IsASeq
<1>5. Peer
  BY <1>3, <1>4 DEF Peer, ReadInit
<1>6. Stream(1) \in Seq(Place)
  BY <1>2, <1>4, <1>5, StreamParts
<1>7. /\ arriving = Stream(1) /\ inputBuffer_ = <<>>
      /\ delivered = <<>>
  BY DEF ReadInit
<1>8. InTime(0, arriving, Received)
  <2>1. Received.input = <<>> /\ Received.calls = <<>>
    BY <1>7 DEF Received
  <2>2. /\ <<>> \in Seq(Place) /\ <<>> \in Seq(Answer) /\ Len(<<>>) = 0
        /\ 0 + 0 = 0 /\ 0 + 1 = 1 /\ 0 <= Len(frames)
    BY <1>2, <1>4
  <2>3. <<>> \o arriving = Stream(1)
    BY <1>6, <1>7, ConcatEmptySeq
  <2>4. QED BY <2>1, <2>2, <2>3 DEF InTime
<1>9. ~ HasFrame(inputBuffer_)
  <2>1. ~ (0 >= kMinMessageLen[framing])
    BY <1>5, ShortestFrame
  <2>2. QED BY <1>7, <2>1 DEF HasFrame
<1>10. QED BY <1>5, <1>6, <1>7, <1>8, <1>9 DEF Reads

LEMMA ReadsKept ==
  ASSUME Reads, NEW bytes \in Nat, bytes <= Len(arriving),
         on_read(bytes)
  PROVE  Reads'
<1> DEFINE x == SubSeq(arriving, 1, bytes)
           y == SubSeq(arriving, bytes + 1, Len(arriving))
           a == inputBuffer_ \o x
           s == Deframe(a)
           d == Len(delivered)
<1>1. /\ inputBuffer_' = s.input /\ delivered' = delivered \o s.calls
      /\ arriving' = y /\ framing' = framing /\ frames' = frames
  BY DEF on_read
<1>2. /\ inputBuffer_ \in Seq(Place) /\ delivered \in Seq(Answer)
      /\ d \in Nat /\ d <= Len(frames)
      /\ inputBuffer_ \o arriving = Stream(d + 1)
      /\ \A k \in 1 .. d :
           /\ delivered[k].frame = k
           /\ delivered[k].error = "kNoError" <=> frames[k].intact
  <2>1. Received.input = inputBuffer_ /\ Received.calls = delivered
    BY DEF Received
  <2>2. /\ inputBuffer_ \in Seq(Place) /\ delivered \in Seq(Answer)
        /\ d \in Nat
    BY <2>1 DEF Reads, InTime
  <2>3. 0 + d = d /\ \A k \in 1 .. d : 0 + k = k
    BY <2>2
  <2>4. QED BY <2>1, <2>2, <2>3 DEF Reads, InTime
<1>3. x \in Seq(Place) /\ y \in Seq(Place) /\ x \o y = arriving
  <2>1. arriving \in Seq(Place) /\ Len(arriving) \in Nat
    BY DEF Reads
  <2>2. x \in Seq(Place) /\ y \in Seq(Place)
    BY <2>1
  <2>3. /\ bytes \in 1 - 1 .. Len(arriving)
        /\ Len(arriving) \in bytes .. Len(arriving)
        /\ 1 \in 1 .. Len(arriving) + 1
    BY <2>1
  <2>4. x \o y = SubSeq(arriving, 1, Len(arriving))
    BY <2>1, <2>3, ConcatAdjacentSubSeq
  <2>5. QED BY <2>1, <2>2, <2>4, SubSeqFull
<1> HIDE DEF x, y
<1>4. a \in Seq(Place)
  BY <1>2, <1>3, ConcatProperties
<1>5. a \o y = Stream(d + 1)
  <2>1. Associates(inputBuffer_, x, y)
    BY <1>2, <1>3, Associative
  <2>2. (inputBuffer_ \o x) \o y = inputBuffer_ \o (x \o y)
    BY <2>1, Zenon DEF Associates
  <2>3. QED BY <1>2, <1>3, <2>2
<1>6. Peer
  BY DEF Reads
<1> HIDE DEF a, d
<1>7. InTime(d, y, s) /\ ~ HasFrame(s.input)
  BY <1>2, <1>3, <1>4, <1>5, <1>6, DeframeInTime
<1> HIDE DEF s
<1> DEFINE all == delivered \o s.calls
           m == Len(s.calls)
<1>8. /\ s.input \in Seq(Place) /\ s.calls \in Seq(Answer) /\ m \in Nat
      /\ d + m <= Len(frames)
      /\ s.input \o y = Stream(d + m + 1)
      /\ \A k \in 1 .. m :
           /\ s.calls[k].frame = d + k
           /\ s.calls[k].error = "kNoError" <=> frames[d + k].intact
  BY <1>7 DEF InTime
<1>9. /\ all \in Seq(Answer) /\ Len(all) = d + m
      /\ \A k \in 1 .. d + m :
           all[k] = IF k <= d THEN delivered[k] ELSE s.calls[k - d]
  BY <1>2, <1>8, ConcatProperties, SMTT(30) DEF d
<1> HIDE DEF all, m
<1>10. ASSUME NEW k \in 1 .. d + m
       PROVE  /\ all[k].frame = k
              /\ all[k].error = "kNoError" <=> frames[k].intact
  <2>1. CASE k <= d
    <3>1. k \in 1 .. d
      BY <1>2, <2>1
    <3>2. QED BY <1>2, <1>9, <2>1, <3>1
  <2>2. CASE ~ k <= d
    <3>1. k - d \in 1 .. m /\ d + (k - d) = k
      BY <1>2, <1>8, <2>2
    <3>2. all[k] = s.calls[k - d]
      BY <1>9, <2>2
    <3>3. QED BY <1>8, <3>1, <3>2
  <2>3. QED BY <2>1, <2>2
<1>11. InTime(0, arriving, Received)'
  <2>1. Received'.input = s.input /\ Received'.calls = all
    BY <1>1 DEF Received, all
  <2>2. /\ Len(all) = d + m /\ 0 + (d + m) = d + m
        /\ \A k \in 1 .. d + m : 0 + k = k
    BY <1>2, <1>8, <1>9
  <2>3. PICK j \in Nat : j = d + m
    BY <1>2, <1>8
  <2>4. Stream(j + 1)' = Stream(j + 1)
    BY <1>1 DEF Stream, FrameBytes, FrameSize,
                LengthField
  <2>5. /\ Received'.input \in Seq(Place) /\ Received'.calls \in Seq(Answer)
        /\ Len(Received'.calls) = j /\ 0 + j = j /\ 0 + j <= Len(frames')
        /\ Received'.input \o arriving' = Stream(j + 1)'
    <3>1. s.input \o y = Stream(j + 1)
      BY <1>8, <2>3
    <3>2. Received'.input \o arriving' = Stream(j + 1)'
      BY <1>1, <2>1, <2>4, <3>1, Zenon
    <3>3. 0 + j = j /\ 0 + j <= Len(frames') /\ Len(all) = j
      BY <1>1, <1>8, <1>9, <2>3
    <3>4. QED BY <1>8, <1>9, <2>1, <3>2, <3>3
  <2>6. ASSUME NEW k \in 1 .. j
        PROVE  /\ Received'.calls[k].frame = 0 + k
               /\ Received'.calls[k].error = "kNoError" <=> frames'[0 + k].intact
    <3>1. k \in 1 .. d + m /\ 0 + k = k
      BY <2>3
    <3>2. QED BY <1>1, <1>10, <2>1, <3>1
  <2>7. QED
    BY <2>5, <2>6 DEF InTime
<1>12. Peer' /\ arriving' \in Seq(Place)
  BY <1>1, <1>3, <1>6 DEF Peer
<1>13. ~ HasFrame(inputBuffer_)'
  BY <1>1, <1>7 DEF HasFrame, kMinMessageLen,
                    peekInt32, LengthField
<1>14. QED BY <1>11, <1>12, <1>13 DEF Reads

LEMMA ReadsInvariant == ReadSpec => []Reads
<1>1. ReadInit => Reads
  BY ReadsInit
<1>2. Reads /\ [ReadNext]_readVars => Reads'
  <2> SUFFICES ASSUME Reads, [ReadNext]_readVars PROVE Reads'
    OBVIOUS
  <2>1. CASE ReadNext
    <3>1. PICK bytes \in 1 .. ReadSize :
            bytes <= Len(arriving) /\ on_read(bytes)
      BY <2>1 DEF ReadNext
    <3>2. bytes \in Nat
      BY <3>1
    <3>3. QED BY <3>1, <3>2, ReadsKept
  <2>2. CASE UNCHANGED readVars
    <3>1. /\ framing' = framing /\ frames' = frames /\ arriving' = arriving
          /\ inputBuffer_' = inputBuffer_ /\ delivered' = delivered
      BY <2>2 DEF readVars
    <3>2. Reads' = Reads
      BY <3>1 DEF Reads, Peer, Received, InTime, Stream,
         FrameBytes, FrameSize, LengthField,
         HasFrame, kMinMessageLen, peekInt32
    <3>3. QED BY <3>2
  <2>3. QED BY <2>1, <2>2
<1>3. QED BY <1>1, <1>2, PTL DEF ReadSpec

LEMMA ReadsOrder == ASSUME Reads PROVE InOrder
<1>1. /\ delivered \in Seq(Answer) /\ 0 + Len(delivered) <= Len(frames)
      /\ \A k \in 1 .. Len(delivered) :
           /\ delivered[k].frame = 0 + k
           /\ delivered[k].error = "kNoError" <=> frames[0 + k].intact
  BY DEF Reads, InTime, Received
<1>2. /\ Len(delivered) \in Nat /\ DOMAIN delivered = 1 .. Len(delivered)
      /\ 0 + Len(delivered) = Len(delivered)
      /\ \A k \in 1 .. Len(delivered) : 0 + k = k
  BY <1>1
<1>3. QED BY <1>1, <1>2 DEF InOrder

LEMMA ReadsPrompt == ASSUME Reads PROVE Prompt
<1>1. Received.input = inputBuffer_ /\ Received.calls = delivered
  BY DEF Received
<1>2. /\ Peer /\ arriving \in Seq(Place) /\ InTime(0, arriving, Received)
      /\ ~ HasFrame(Received.input) /\ delivered \in Seq(Answer)
  BY <1>1 DEF Reads, InTime
<1>3. 0 + Len(delivered) + 1 = Len(delivered) + 1
  BY <1>2
<1>4. inputBuffer_ \o arriving = Stream(Len(delivered) + 1)
  BY <1>1, <1>2, <1>3 DEF InTime
<1> DEFINE f == frames[Len(delivered) + 1]
<1>5. inputBuffer_ # <<>> =>
        \/ Len(inputBuffer_) < FrameSize(f)
        \/ framing = "chat" /\ f.payload = 0 /\ Len(inputBuffer_) = SizeofInt32
  <2> SUFFICES ASSUME inputBuffer_ # <<>>
               PROVE  \/ Len(inputBuffer_) < FrameSize(f)
                      \/ /\ framing = "chat" /\ f.payload = 0
                         /\ Len(inputBuffer_) = SizeofInt32
    OBVIOUS
  <2>1. LET g == frames[0 + Len(Received.calls) + 1]
        IN  \/ Len(Received.input) < FrameSize(g)
            \/ /\ framing = "chat" /\ g.payload = 0
               /\ Len(Received.input) = SizeofInt32
    <3>1. Received.input # <<>> /\ 0 \in Nat
      BY <1>1
    <3> HIDE DEF f
    <3>2. QED BY <1>2, <3>1, StopsInTime
  <2>2. frames[0 + Len(Received.calls) + 1] = f
    BY <1>1, <1>3
  <2> HIDE DEF f
  <2>3. QED BY <1>1, <2>1, <2>2
<1>6. QED BY <1>4, <1>5 DEF Prompt

(* However TCP cuts the stream of the peer into reads, whatever frames it  *)
(* is made of and whatever the shortest of them: rpcCallback_ is called    *)
(* about every frame in turn, with an error just when it is damaged.       *)
THEOREM FramesInOrder == ReadSpec => []InOrder
<1>1. Reads => InOrder
  BY ReadsOrder
<1>2. QED BY <1>1, ReadsInvariant, PTL

(* Between reads the input buffer is at the start of the next frame and    *)
(* holds less than all of it, but for an empty message of the chat.        *)
THEOREM FramesPrompt == ReadSpec => []Prompt
<1>1. Reads => Prompt
  BY ReadsPrompt
<1>2. QED BY <1>1, ReadsInvariant, PTL

=============================================================================
