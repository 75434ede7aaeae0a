--------------------------- MODULE TransmitBuffer ----------------------------
(***************************************************************************)
(* The receive buffer of a transmission object on a stream (lib/transmit:  *)
(* unserialize, recvBuffer, pullBuffer, flushBuffer). A byte of the stream *)
(* is its number, from 1; what a byte says is left open, so that the size  *)
(* of a message is any size when its two bytes are read. Message content   *)
(* that does not parse is an error like any other.                         *)
(*                                                                         *)
(* serialize() builds what it sends in the same buffer, from its start, and *)
(* may run at any moment: the hub's TX thread sends on the object its RX   *)
(* thread receives on.                                                     *)
(***************************************************************************)
EXTENDS Integers

CONSTANTS
  Size,          \* iBufferSize
  HeaderSize,    \* bytes of a message's size
  Contents,      \* the sizes of message content a peer may announce
  MaxSent,       \* bound of the model: the size of the stream
  Foreign        \* content of the buffer that is not from the stream

ASSUME TransmitBufferAssumption ==
  /\ HeaderSize \in Nat \ {0}
  /\ Size \in Nat /\ Size >= 2 * HeaderSize - 1
  /\ Contents \subseteq Nat
  /\ MaxSent \in Nat
  /\ Foreign \notin Nat

VARIABLES
  buffer,        \* pucBuffer
  start,         \* iBufferDataStart
  end,           \* iBufferDataEnd
  pc,            \* where unserialize() is
  stage,         \* the part of the message it is after
  want,          \* _iSize of recvBuffer()
  copied,        \* __iBufferCopied of flushBuffer()
  received,      \* history: bytes taken from the stream
  pulled,        \* history: bytes pulled from the buffer
  boundary,      \* history: where in the stream the next message begins
  failed,        \* history: whether a call returned an error
  overwritten    \* history: whether serialize() found received bytes

bufferVars == <<buffer, start, end>>
historyVars == <<received, pulled, boundary, failed, overwritten>>
vars == <<buffer, start, end, pc, stage, want, copied, received, pulled,
          boundary, failed, overwritten>>

Offsets == 0..(Size - 1)
Length == end - start

------------------------------------------------------------------------------
(* Types and initial state. *)

TypeOK ==
  /\ buffer \in [Offsets -> Nat \union {Foreign}]
  /\ start \in 0..Size /\ end \in 0..Size /\ start <= end
  /\ pc \in {"idle", "check", "flush", "recv", "pull"}
  /\ stage \in {"size", "content"}
  /\ want \in Nat
  /\ copied \in Nat
  /\ received \in Nat /\ pulled \in Nat /\ boundary \in Nat
  /\ failed \in BOOLEAN /\ overwritten \in BOOLEAN

Init ==
  /\ buffer = [o \in Offsets |-> Foreign]
  /\ start = 0 /\ end = 0
  /\ pc = "idle" /\ stage = "size" /\ want = 0 /\ copied = 0
  /\ received = 0 /\ pulled = 0 /\ boundary = 0
  /\ failed = FALSE /\ overwritten = FALSE

------------------------------------------------------------------------------
(* unserialize(). *)

Goes(from, to) ==
  /\ pc = from
  /\ pc' = to

\* recvBuffer(_iSize), at some stage of a message.
Wants(s, n) ==
  /\ stage' = s
  /\ want' = n

Unserialize ==
  /\ Goes("idle", "check")
  /\ Wants("size", HeaderSize)
  /\ UNCHANGED <<bufferVars, copied, historyVars>>

\* The call returns an error. What was pulled remains pulled, what was
\* received remains in the buffer.
Fails(from) ==
  /\ Goes(from, "idle")
  /\ failed' = TRUE
  /\ Wants("size", 0)

------------------------------------------------------------------------------
(* recvBuffer() and flushBuffer(). *)

Buffered ==
  /\ Goes("check", "pull")
  /\ Length >= want
  /\ UNCHANGED <<bufferVars, stage, want, copied, historyVars>>

TooLarge ==
  /\ Length < want
  /\ want > Size
  /\ Fails("check")
  /\ UNCHANGED <<bufferVars, copied, received, pulled, boundary,
                 overwritten>>

\* Mutant: the buffer is flushed in any case.
AlwaysCrowded == TRUE

\* Mutant: the buffer is never flushed.
NeverCrowded == FALSE

\* What is wanted does not fit behind what is there.
Crowded == Size - end < want

Misses ==
  /\ Length < want
  /\ want <= Size
  /\ Goes("check", IF Crowded THEN "flush" ELSE "recv")
  /\ UNCHANGED <<bufferVars, stage, want, copied, historyVars>>

Lesser(a, b) == IF a <= b THEN a ELSE b

\* memcpy moves no more at once than keeps source and target apart.
FlushCopy ==
  LET n == Lesser(Length - copied, start)
  IN /\ pc = "flush"
     /\ copied < Length
     /\ buffer' = [o \in Offsets |->
                     IF o \in copied..(copied + n - 1)
                     THEN buffer[o + start] ELSE buffer[o]]
     /\ copied' = copied + n
     /\ UNCHANGED <<start, end, pc, stage, want, historyVars>>

\* Mutant: the end stays where it was.
FlushedKeepsEnd ==
  /\ Goes("flush", "recv")
  /\ copied >= Length
  /\ start' = 0
  /\ copied' = 0
  /\ UNCHANGED <<buffer, end, stage, want, historyVars>>

Flushed ==
  /\ Goes("flush", "recv")
  /\ copied >= Length
  /\ start' = 0
  /\ end' = Length
  /\ copied' = 0
  /\ UNCHANGED <<buffer, stage, want, historyVars>>

\* The next k bytes of the stream, from some offset on.
Reads(k, offset) ==
  /\ buffer' = [o \in Offsets |->
                  IF o \in offset..(offset + k - 1)
                  THEN received + (o - offset) + 1 ELSE buffer[o]]
  /\ received' = received + k

\* Mutant: whatever was received is enough.
RecvOnce(k) ==
  /\ k \in 1..(Size - end) /\ received + k <= MaxSent
  /\ Goes("recv", "pull")
  /\ Reads(k, end)
  /\ end' = end + k
  /\ UNCHANGED <<start, stage, want, copied, pulled, boundary, failed,
                 overwritten>>

\* recv() returns as much as has come, at most what there is room for, until
\* there is enough.
Recv(k) ==
  /\ k \in 1..(Size - end) /\ received + k <= MaxSent
  /\ Goes("recv", IF Length + k < want THEN "recv" ELSE "pull")
  /\ Reads(k, end)
  /\ end' = end + k
  /\ UNCHANGED <<start, stage, want, copied, pulled, boundary, failed,
                 overwritten>>

\* recv() fails, times out, or finds the end of the stream.
RecvFails ==
  /\ Fails("recv")
  /\ UNCHANGED <<bufferVars, copied, received, pulled, boundary,
                 overwritten>>

------------------------------------------------------------------------------
(* pullBuffer(). *)

Pulls(n) ==
  /\ start' = start + n
  /\ pulled' = pulled + n

\* The size of the content, and so the end of the message.
PullSize ==
  /\ stage = "size"
  /\ Goes("pull", "check")
  /\ Pulls(HeaderSize)
  /\ \E n \in Contents :
       /\ Wants("content", n)
       /\ boundary' = pulled + HeaderSize + n
  /\ UNCHANGED <<buffer, end, copied, received, failed, overwritten>>

\* The size exceeds _iMaxSize.
RefuseSize ==
  /\ stage = "size"
  /\ Fails("pull")
  /\ Pulls(HeaderSize)
  /\ UNCHANGED <<buffer, end, copied, received, boundary,
                 overwritten>>

\* Mutant: the content is parsed where it lies.
PeekContent ==
  /\ stage = "content"
  /\ Goes("pull", "idle")
  /\ Wants("size", 0)
  /\ failed' \in {failed, TRUE}
  /\ UNCHANGED <<buffer, start, end, copied, received, pulled,
                 boundary, overwritten>>

\* The content is parsed, or does not parse.
PullContent ==
  /\ stage = "content"
  /\ Goes("pull", "idle")
  /\ Pulls(want)
  /\ Wants("size", 0)
  /\ failed' \in {failed, TRUE}
  /\ UNCHANGED <<buffer, end, copied, received, boundary,
                 overwritten>>

------------------------------------------------------------------------------
(* serialize(), on the same object. *)

\* The payload is built at the start of the buffer, and sent from there.
Serialize(n) ==
  /\ buffer' = [o \in Offsets |-> IF o < n THEN Foreign ELSE buffer[o]]
  /\ overwritten' = (overwritten \/ Length > 0)
  /\ UNCHANGED <<start, end, pc, stage, want, copied, received, pulled,
                 boundary, failed>>

------------------------------------------------------------------------------
(* The specification. *)

Steps ==
  \/ Buffered \/ TooLarge \/ Misses \/ FlushCopy \/ Flushed
  \/ \E k \in 1..Size : Recv(k)
  \/ RecvFails
  \/ PullSize \/ RefuseSize \/ PullContent

Next ==
  \/ Unserialize \/ Steps
  \/ \E n \in 1..Size : Serialize(n)

Spec == Init /\ [][Next]_vars

\* A thread that is in unserialize() gets on: the peer sends, or recv() ends
\* by the timeout or with the connection.
FairSpec == Spec /\ WF_vars(Steps)

------------------------------------------------------------------------------
(* Properties. *)

\* Where byte i of the window is: flushBuffer() may be moving it.
Place(i) == IF i < copied THEN i ELSE start + i

\* The bytes received and not pulled yet are in the buffer, all of them, in the
\* order of the stream, in the middle of a flush too, unless serialize() has
\* come between.
InOrder ==
  /\ Length = received - pulled
  /\ ~overwritten =>
       \A i \in 0..(Length - 1) : buffer[Place(i)] = pulled + i + 1

\* flushBuffer() always has room to move a byte to: it ends.
FlushProgresses == pc = "flush" /\ copied < Length => start > 0

\* There is room for what recv() is to bring: were there none, recv() would
\* return 0, and the connection be taken for closed.
RoomToReceive == pc = "recv" => end < Size

\* The offsets stay in the buffer, with room behind them.
Consistent == TypeOK /\ RoomToReceive

\* What is parsed is the content that belongs to the size read before it: all
\* of it, and nothing else.
ContentWhole ==
  pc = "pull" /\ stage = "content" /\ ~overwritten
  => \A i \in 0..(want - 1) : buffer[start + i] = boundary - want + i + 1

\* As long as no call failed, a call begins where a message begins.
InStep == pc = "idle" /\ ~failed => pulled = boundary

\* A call returns.
CallReturns == pc # "idle" ~> pc = "idle"

==============================================================================
