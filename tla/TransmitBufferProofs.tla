------------------------- MODULE TransmitBufferProofs -------------------------
(***************************************************************************)
(* What TransmitBuffer promises, for a buffer and messages of any size: the *)
(* flush ends, recv() is never called without room, and the bytes parsed as *)
(* the content of a message are that content.                              *)
(***************************************************************************)
EXTENDS TransmitBuffer, TLAPS

------------------------------------------------------------------------------
(* The inductive invariant. *)

\* What each step of recvBuffer() has established when the next begins.
Stages ==
  /\ copied <= Length
  /\ copied > 0 => pc = "flush"
  /\ pc = "flush" => want <= Size /\ Length < want /\ start > 0
  /\ pc = "recv" => Length < want /\ want - Length <= Size - end
  /\ pc = "pull" => want <= Length
  /\ stage = "size" /\ pc # "idle" => want = HeaderSize
  /\ stage = "content" => pc # "idle"
  /\ stage = "content" /\ pc = "check" => start > 0

\* The window is the stretch of the stream that was received and not pulled,
\* and the next message begins where the bytes wanted end.
Stretch ==
  /\ Length = received - pulled
  /\ stage = "content" => boundary = pulled + want
  /\ stage = "size" /\ ~failed => boundary = pulled

\* The window holds the bytes of that stretch.
Bytes ==
  ~overwritten =>
    \A i \in 0..(Length - 1) : buffer[Place(i)] = pulled + i + 1

IInv == TypeOK /\ Stages /\ Stretch /\ Bytes

------------------------------------------------------------------------------
(* The bytes that two of the loops move. *)

\* One memcpy of flushBuffer() moves at least one byte when there is one to
\* move, and no more than are left or than keep source and target apart.
LEMMA LesserBounds ==
  ASSUME NEW a \in Nat, NEW b \in Nat
  PROVE  /\ Lesser(a, b) \in Nat
         /\ Lesser(a, b) <= a /\ Lesser(a, b) <= b
         /\ a > 0 /\ b > 0 => Lesser(a, b) > 0
  BY DEF Lesser

\* A call of flushBuffer() starts only with something pulled before the window:
\* either the size of the message was, or fewer bytes than a size remain at the
\* end of a buffer that holds almost two.
LEMMA FlushHasRoom ==
  ASSUME IInv, Misses
  PROVE  pc' = "flush" => start > 0
  BY TransmitBufferAssumption
     DEF IInv, TypeOK, Stages, Misses, Goes, Crowded, Length

------------------------------------------------------------------------------
(* Every step preserves the invariant. *)

\* The initial state satisfies the invariant.
LEMMA InitIInv == Init => IInv
<1> SUFFICES ASSUME Init PROVE IInv
  OBVIOUS
<1>1. Length = 0
  BY DEF Init, Length
<1>2. TypeOK
  <2>1. buffer \in [Offsets -> Nat \union {Foreign}]
    BY DEF Init
  <2>2. failed \in BOOLEAN /\ overwritten \in BOOLEAN
    BY DEF Init
  <2> QED BY <2>1, <2>2, TransmitBufferAssumption DEF Init, TypeOK
<1>3. Stages /\ Stretch
  BY <1>1 DEF Init, Stages, Stretch
<1>4. Bytes
  BY <1>1 DEF Init, Bytes
<1> QED BY <1>2, <1>3, <1>4 DEF IInv

\* A memcpy of flushBuffer() preserves it: the bytes behind the copied ones are
\* still where they were.
LEMMA FlushCopyIInv ==
  ASSUME IInv, FlushCopy
  PROVE  IInv'
<1> DEFINE n == Lesser(Length - copied, start)
<1>1. /\ copied < Length /\ Length \in Nat /\ start \in Nat /\ start > 0
      /\ copied \in Nat /\ start + Length = end /\ end <= Size /\ Size \in Nat
  BY TransmitBufferAssumption
     DEF IInv, TypeOK, Stages, FlushCopy, Length
<1>2. n \in Nat /\ n > 0 /\ n <= Length - copied /\ n <= start
  <2>1. Length - copied \in Nat /\ Length - copied > 0
    BY <1>1
  <2> QED BY <1>1, <2>1, LesserBounds
<1>3. /\ buffer' = [o \in Offsets |-> IF o \in copied..(copied + n - 1)
                                      THEN buffer[o + start] ELSE buffer[o]]
      /\ copied' = copied + n
      /\ pc = "flush"
      /\ UNCHANGED <<start, end, pc, stage, want, received, pulled, boundary,
                     failed, overwritten>>
  BY DEF FlushCopy, historyVars
<1> HIDE DEF n
<1>4. TypeOK'
  <2>1. buffer' \in [Offsets -> Nat \union {Foreign}]
    <3>1. \A o \in copied..(copied + n - 1) : o + start \in Offsets
      BY <1>1, <1>2 DEF Offsets
    <3> QED BY <1>3, <3>1 DEF IInv, TypeOK
  <2>2. copied' \in Nat
    BY <1>1, <1>2, <1>3
  <2> QED BY <1>3, <2>1, <2>2 DEF IInv, TypeOK
<1>5. Stages'
  BY <1>1, <1>2, <1>3 DEF IInv, Stages, Length
<1>6. Stretch'
  BY <1>3 DEF IInv, Stretch, Length
<1>7. Bytes'
  <2> SUFFICES ASSUME ~overwritten, NEW i \in 0..(Length - 1)
               PROVE  buffer'[Place(i)'] = pulled + i + 1
    BY <1>3 DEF Bytes, Length
  <2>1. buffer[Place(i)] = pulled + i + 1
    BY DEF IInv, Bytes
  <2>2. i \in Offsets /\ start + i \in Offsets
    BY <1>1 DEF Offsets
  <2>3. CASE i < copied
    BY <1>1, <1>2, <1>3, <2>1, <2>2, <2>3 DEF Place
  <2>4. CASE copied <= i /\ i < copied + n
    BY <1>1, <1>2, <1>3, <2>1, <2>2, <2>4 DEF Place
  <2>5. CASE copied + n <= i
    BY <1>1, <1>2, <1>3, <2>1, <2>2, <2>5 DEF Place
  <2> QED BY <1>1, <1>2, <2>3, <2>4, <2>5
<1> QED BY <1>4, <1>5, <1>6, <1>7 DEF IInv

\* recv() preserves it: the bytes it brings follow those that are there.
LEMMA RecvIInv ==
  ASSUME IInv, NEW k \in 1..Size, Recv(k)
  PROVE  IInv'
<1>1. /\ Length \in Nat /\ start \in Nat /\ start + Length = end
      /\ end \in Nat /\ end + k <= Size /\ Size \in Nat /\ copied = 0
      /\ received \in Nat /\ pulled \in Nat /\ received = pulled + Length
      /\ k \in Nat /\ k > 0 /\ want \in Nat
  BY TransmitBufferAssumption
     DEF IInv, TypeOK, Stages, Stretch, Recv, Goes, Length
<1>2. /\ buffer' = [o \in Offsets |-> IF o \in end..(end + k - 1)
                                      THEN received + (o - end) + 1
                                      ELSE buffer[o]]
      /\ received' = received + k
      /\ end' = end + k
      /\ pc = "recv"
      /\ pc' = IF Length + k < want THEN "recv" ELSE "pull"
      /\ UNCHANGED <<start, stage, want, copied, pulled, boundary, failed,
                     overwritten>>
  BY DEF Recv, Reads, Goes
<1>3. Length' = Length + k
  BY <1>1, <1>2 DEF Length
<1>4. TypeOK'
  <2>1. buffer' \in [Offsets -> Nat \union {Foreign}]
    <3>1. \A o \in end..(end + k - 1) : received + (o - end) + 1 \in Nat
      BY <1>1
    <3> QED BY <1>2, <3>1 DEF IInv, TypeOK
  <2>2. end' \in 0..Size /\ start' <= end' /\ received' \in Nat
    BY <1>1, <1>2
  <2>3. pc' \in {"idle", "check", "flush", "recv", "pull"}
    BY <1>2
  <2> QED BY <1>2, <2>1, <2>2, <2>3 DEF IInv, TypeOK
<1>5. Stages'
  <2>1. copied' <= Length' /\ ~(copied' > 0)
    BY <1>1, <1>2, <1>3
  <2>2. pc' = "recv" => Length' < want' /\ want' - Length' <= Size - end'
    BY <1>1, <1>2, <1>3 DEF IInv, Stages
  <2>3. pc' = "pull" => want' <= Length'
    BY <1>1, <1>2, <1>3
  <2> QED BY <1>2, <2>1, <2>2, <2>3 DEF IInv, Stages
<1>6. Stretch'
  BY <1>1, <1>2, <1>3 DEF IInv, Stretch
<1>7. Bytes'
  <2> SUFFICES ASSUME ~overwritten, NEW i \in 0..(Length' - 1)
               PROVE  buffer'[Place(i)'] = pulled + i + 1
    <3>1. pulled' = pulled /\ overwritten' = overwritten
      BY <1>2
    <3> QED BY <3>1 DEF Bytes
  <2>1. /\ i \in 0..(Length + k - 1)
        /\ Place(i)' = start + i /\ start + i \in Offsets
    BY <1>1, <1>2, <1>3 DEF Place, Offsets
  <2>2. CASE i < Length
    <3>1. buffer[start + i] = pulled + i + 1
      BY <1>1, <2>1, <2>2 DEF IInv, Bytes, Place
    <3> QED BY <1>1, <1>2, <2>1, <2>2, <3>1
  <2>3. CASE i >= Length
    <3>1. start + i \in end..(end + k - 1)
      BY <1>1, <2>1, <2>3
    <3>2. \A o \in Offsets : o \in end..(end + k - 1)
                               => buffer'[o] = received + (o - end) + 1
      BY <1>2
    <3>3. buffer'[start + i] = received + ((start + i) - end) + 1
      BY <2>1, <3>1, <3>2
    <3> QED BY <1>1, <2>1, <3>3
  <2> QED BY <1>1, <2>1, <2>2, <2>3
<1> QED BY <1>4, <1>5, <1>6, <1>7 DEF IInv

\* The end of flushBuffer() preserves it: the window is where it was moved.
LEMMA FlushedIInv ==
  ASSUME IInv, Flushed
  PROVE  IInv'
<1>1. /\ Length \in Nat /\ copied = Length /\ Length <= Size
      /\ want <= Size /\ Length < want /\ want \in Nat /\ Size \in Nat
      /\ start \in Nat /\ end \in Nat
  BY TransmitBufferAssumption
     DEF IInv, TypeOK, Stages, Flushed, Goes, Length
<1>2. /\ pc = "flush" /\ pc' = "recv"
      /\ start' = 0 /\ end' = Length /\ copied' = 0
      /\ UNCHANGED <<buffer, stage, want, historyVars>>
  BY DEF Flushed, Goes
<1>3. Length' = Length
  BY <1>1, <1>2 DEF Length
<1>4. TypeOK'
  BY <1>1, <1>2 DEF IInv, TypeOK, historyVars
<1>5. Stages'
  BY <1>1, <1>2, <1>3 DEF IInv, Stages
<1>6. Stretch'
  BY <1>2, <1>3 DEF IInv, Stretch, historyVars
<1>7. Bytes'
  <2>1. \A i \in 0..(Length - 1) : Place(i) = i /\ Place(i)' = i
    BY <1>1, <1>2 DEF Place
  <2> QED BY <1>2, <1>3, <2>1 DEF IInv, Bytes, historyVars
<1> QED BY <1>4, <1>5, <1>6, <1>7 DEF IInv

\* pullBuffer() preserves it: the window is shortened by what is pulled.
LEMMA PullIInv ==
  ASSUME IInv, PullSize \/ RefuseSize \/ PullContent
  PROVE  IInv'
<1>1. /\ pc = "pull" /\ copied = 0 /\ Length \in Nat /\ start + Length = end
      /\ want \in Nat /\ want <= Length /\ start \in Nat /\ end \in 0..Size
      /\ stage = "size" => want = HeaderSize
      /\ pulled \in Nat /\ HeaderSize \in Nat /\ HeaderSize > 0
      /\ received = pulled + Length
  <2>1. pc = "pull"
    BY DEF PullSize, RefuseSize, PullContent, Goes, Fails
  <2> QED BY <2>1, TransmitBufferAssumption
          DEF IInv, TypeOK, Stages, Stretch, Length
<1>2. /\ start' = start + want /\ pulled' = pulled + want
      /\ UNCHANGED <<buffer, end, copied, received, overwritten>>
  BY <1>1 DEF PullSize, RefuseSize, PullContent, Pulls
<1>3. Length' = Length - want
  BY <1>1, <1>2 DEF Length
<1>4. start' \in 0..Size /\ start' <= end' /\ pulled' \in Nat
  BY <1>1, <1>2, TransmitBufferAssumption
<1>5. Bytes'
  <2> SUFFICES ASSUME ~overwritten, NEW i \in 0..(Length - want - 1)
               PROVE  buffer[Place(i)'] = pulled + want + i + 1
    BY <1>2, <1>3 DEF IInv, Bytes
  <2>1. i + want \in 0..(Length - 1)
    BY <1>1
  <2>2. Place(i)' = Place(i + want)
    BY <1>1, <1>2 DEF Place
  <2>3. buffer[Place(i + want)] = pulled + (i + want) + 1
    BY <2>1 DEF IInv, Bytes
  <2> QED BY <1>1, <2>2, <2>3
<1>6. CASE PullSize
  <2>1. PICK m \in Contents :
          /\ stage' = "content" /\ want' = m
          /\ boundary' = pulled + HeaderSize + m
    BY <1>6 DEF PullSize, Wants
  <2>2. m \in Nat
    BY TransmitBufferAssumption
  <2>3. pc' = "check" /\ failed' = failed /\ want = HeaderSize
    BY <1>1, <1>6 DEF PullSize, Goes
  <2>4. TypeOK'
    BY <1>1, <1>2, <1>4, <2>1, <2>2, <2>3 DEF IInv, TypeOK
  <2>5. Stages'
    BY <1>1, <1>2, <1>3, <2>1, <2>3 DEF Stages
  <2>6. Stretch'
    BY <1>1, <1>2, <1>3, <2>1, <2>2, <2>3 DEF Stretch
  <2> QED BY <1>5, <2>4, <2>5, <2>6 DEF IInv
<1>7. CASE RefuseSize
  <2>1. /\ pc' = "idle" /\ failed' = TRUE /\ stage' = "size" /\ want' = 0
        /\ boundary' = boundary
    BY <1>7 DEF RefuseSize, Fails, Goes, Wants
  <2>2. TypeOK'
    BY <1>1, <1>2, <1>4, <2>1 DEF IInv, TypeOK
  <2>3. Stages'
    BY <1>1, <1>2, <1>3, <2>1 DEF Stages
  <2>4. Stretch'
    BY <1>1, <1>2, <1>3, <2>1 DEF Stretch
  <2> QED BY <1>5, <2>2, <2>3, <2>4 DEF IInv
<1>8. CASE PullContent
  <2>1. /\ pc' = "idle" /\ failed' \in {failed, TRUE} /\ stage' = "size"
        /\ want' = 0 /\ boundary' = boundary /\ stage = "content"
    BY <1>8 DEF PullContent, Goes, Wants
  <2>2. TypeOK'
    BY <1>1, <1>2, <1>4, <2>1 DEF IInv, TypeOK
  <2>3. Stages'
    BY <1>1, <1>2, <1>3, <2>1 DEF Stages
  <2>4. Stretch'
    BY <1>1, <1>2, <1>3, <2>1 DEF IInv, Stretch
  <2> QED BY <1>5, <2>2, <2>3, <2>4 DEF IInv
<1> QED BY <1>6, <1>7, <1>8

\* The steps of unserialize() that leave the buffer alone preserve it.
LEMMA CheckIInv ==
  ASSUME IInv, Unserialize \/ Buffered \/ TooLarge \/ Misses \/ RecvFails
  PROVE  IInv'
<1>1. /\ UNCHANGED <<bufferVars, copied, received, pulled, boundary,
                     overwritten>>
      /\ failed' \in {failed, TRUE}
  BY DEF Unserialize, Buffered, TooLarge, Misses, RecvFails, Fails,
         historyVars, IInv, TypeOK
<1>2. /\ Length' = Length /\ Length \in Nat /\ copied = 0
      /\ Size \in Nat /\ HeaderSize \in Nat /\ want \in Nat
  BY <1>1, TransmitBufferAssumption
     DEF Length, bufferVars, IInv, TypeOK, Stages, Unserialize, Buffered,
         TooLarge, Misses, RecvFails, Fails, Goes
<1>3. Bytes'
  BY <1>1, <1>2 DEF IInv, Bytes, Place, bufferVars
<1>4. CASE Unserialize
  BY <1>1, <1>2, <1>3, <1>4
     DEF Unserialize, Goes, Wants, IInv, TypeOK, Stages, Stretch, bufferVars,
         historyVars
<1>5. CASE Buffered
  BY <1>1, <1>2, <1>3, <1>5
     DEF Buffered, Goes, IInv, TypeOK, Stages, Stretch, bufferVars,
         historyVars
<1>6. CASE TooLarge \/ RecvFails
  BY <1>1, <1>2, <1>3, <1>6
     DEF TooLarge, RecvFails, Fails, Goes, Wants, IInv, TypeOK, Stages,
         Stretch, bufferVars
<1>7. CASE Misses
  <2>1. /\ pc = "check" /\ pc' = IF Crowded THEN "flush" ELSE "recv"
        /\ Length < want /\ want <= Size
        /\ UNCHANGED <<stage, want, failed>>
    BY <1>7 DEF Misses, Goes, historyVars
  <2>2. TypeOK'
    BY <1>1, <2>1 DEF IInv, TypeOK, bufferVars
  <2>3. pc' = "flush" => start' > 0
    BY <1>1, <1>7, FlushHasRoom DEF bufferVars
  <2>4. pc' = "recv" => want' - Length' <= Size - end'
    BY <1>1, <1>2, <2>1 DEF Crowded, bufferVars, IInv, TypeOK
  <2>5. Stages'
    BY <1>1, <1>2, <2>1, <2>3, <2>4 DEF IInv, Stages
  <2>6. Stretch'
    BY <1>1, <1>2, <2>1 DEF IInv, Stretch
  <2> QED BY <1>3, <2>2, <2>5, <2>6 DEF IInv
<1> QED BY <1>4, <1>5, <1>6, <1>7

\* serialize() preserves it: bytes it writes over are no longer promised.
LEMMA SerializeIInv ==
  ASSUME IInv, NEW n \in 1..Size, Serialize(n)
  PROVE  IInv'
<1>1. /\ UNCHANGED <<start, end, pc, stage, want, copied, received, pulled,
                     boundary, failed>>
      /\ buffer' = [o \in Offsets |-> IF o < n THEN Foreign ELSE buffer[o]]
      /\ overwritten' = (overwritten \/ Length > 0)
      /\ Length' = Length /\ Length \in Int
  BY DEF Serialize, Length, IInv, TypeOK
<1>2. TypeOK'
  BY <1>1 DEF IInv, TypeOK
<1>3. Stages' /\ Stretch'
  BY <1>1 DEF IInv, Stages, Stretch
<1>4. Bytes'
  <2>1. ~overwritten' => ~(Length > 0)
    BY <1>1
  <2>2. ~overwritten' => 0..(Length' - 1) = {}
    BY <1>1, <2>1
  <2> QED BY <2>2 DEF Bytes
<1> QED BY <1>2, <1>3, <1>4 DEF IInv

\* Every behaviour keeps the invariant.
THEOREM BufferInvariant == Spec => []IInv
<1>1. IInv /\ [Next]_vars => IInv'
  <2> SUFFICES ASSUME IInv, [Next]_vars
               PROVE  IInv'
    OBVIOUS
  <2>1. CASE Next
    BY <2>1, CheckIInv, FlushCopyIInv, FlushedIInv, RecvIInv, PullIInv, SerializeIInv
       DEF Next, Steps
  <2>2. CASE UNCHANGED vars
    BY <2>2 DEF vars, IInv, TypeOK, Stages, Stretch, Bytes, Length, Place
  <2> QED BY <2>1, <2>2
<1> QED BY <1>1, InitIInv, PTL DEF Spec

------------------------------------------------------------------------------
(* What follows. *)

\* Positions stay within the buffer, whatever its size and the messages'.
THEOREM BufferTypes == Spec => []TypeOK
<1>1. IInv => TypeOK
  BY DEF IInv
<1> QED BY <1>1, BufferInvariant, PTL

\* flushBuffer() never loops without moving a byte.
THEOREM BufferFlushEnds == Spec => []FlushProgresses
<1>1. IInv => FlushProgresses
  BY DEF IInv, Stages, FlushProgresses
<1> QED BY <1>1, BufferInvariant, PTL

\* recv() is never asked for no bytes.
THEOREM BufferHasRoom == Spec => []RoomToReceive
<1>1. IInv => RoomToReceive
  BY TransmitBufferAssumption
     DEF IInv, TypeOK, Stages, RoomToReceive, Length
<1> QED BY <1>1, BufferInvariant, PTL

\* The offsets stay in the buffer, and recv() has room behind them.
THEOREM BufferConsistent == Spec => []Consistent
<1>1. TypeOK /\ RoomToReceive => Consistent
  BY DEF Consistent
<1> QED BY <1>1, BufferTypes, BufferHasRoom, PTL

\* Received bytes are kept, in order, until they are pulled.
THEOREM BufferOrder == Spec => []InOrder
<1>1. IInv => InOrder
  BY DEF IInv, Stretch, Bytes, InOrder
<1> QED BY <1>1, BufferInvariant, PTL

\* The content parsed is the one whose size was read.
THEOREM BufferContent == Spec => []ContentWhole
<1>1. ASSUME IInv PROVE ContentWhole
  <2> SUFFICES ASSUME pc = "pull", stage = "content", ~overwritten,
                      NEW i \in 0..(want - 1)
               PROVE  buffer[start + i] = boundary - want + i + 1
    BY DEF ContentWhole
  <2>1. /\ want \in Nat /\ want <= Length /\ Length \in Nat /\ copied = 0
        /\ pulled \in Nat /\ boundary = pulled + want
    BY <1>1 DEF IInv, TypeOK, Stages, Stretch, Length
  <2>2. i \in 0..(Length - 1) /\ Place(i) = start + i
    BY <2>1 DEF Place
  <2>3. buffer[start + i] = pulled + i + 1
    BY <1>1, <2>2 DEF IInv, Bytes
  <2> QED BY <2>1, <2>3
<1> QED BY <1>1, BufferInvariant, PTL

\* Without a failure a call begins at the beginning of a message.
THEOREM BufferInStep == Spec => []InStep
<1>1. IInv => InStep
  BY DEF IInv, TypeOK, Stages, Stretch, InStep
<1> QED BY <1>1, BufferInvariant, PTL

==============================================================================
