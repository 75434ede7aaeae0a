---------------------------- MODULE UtilityProofs ----------------------------
(***************************************************************************)
(* Proofs about Utility, for any number of messages: what any of the       *)
(* utilities writes is what it read, whatever signal, failure or end of a  *)
(* connection comes between two of its steps; after a signal it writes one *)
(* message more at most; and it ends for a cause.                          *)
(***************************************************************************)
EXTENDS Utility, SequenceTheorems, TLAPS

------------------------------------------------------------------------------
(* The invariant. *)

Increasing(s) == \A i, j \in 1 .. Len(s) : i < j => s[i] < s[j]

\* The input is in its order, and what was taken came before what waits.
Input ==
  /\ Increasing(taken)
  /\ \A i \in 1 .. Len(taken) : i <= taken[i] /\ taken[i] <= brought
  /\ \A i \in 1 .. Len(waiting) : waiting[i] \in Nat =>
       /\ waiting[i] <= brought
       /\ \A j \in 1 .. Len(taken) : taken[j] < waiting[i]
  /\ \A i, j \in 1 .. Len(waiting) :
       i < j /\ waiting[i] \in Nat /\ waiting[j] \in Nat => waiting[i] < waiting[j]

HasGot == pc \in {"got", "block", "write"}

\* What is in hand is the last message taken, and none like it is written.
Output ==
  /\ Increasing(written)
  /\ \A i \in 1 .. Len(written) : \E j \in 1 .. Len(taken) : taken[j] = written[i]
  /\ HasGot => got # Nothing
  /\ pc \in {"block", "write"} => got \in Nat
  /\ HasGot /\ got \in Nat =>
       /\ Len(taken) > 0 /\ got = taken[Len(taken)]
       /\ \A i \in 1 .. Len(written) : written[i] < got

\* Messages taken, and neither written, failed on nor left out.
Missing(n) == Len(taken) = Len(written) + failures + unfit + n

Balance ==
  /\ dangling => utility.out = "destroyed stream"
  /\ utility.out = "destroyed stream" => written = <<>> /\ failures = 0 /\ unfit = 0
  /\ unfit > 0 => utility.passes # "all"
  /\ ~dangling /\ InHand => Missing(1)
  /\ ~dangling /\ ~InHand =>
       Missing(0) \/ (Missing(1) /\ interrupted /\ pc \in {"drop", "outer", "done"})

\* Signals are blocked around an output, and one that came meanwhile is looked at
\* before the next message is read.
Signals ==
  /\ pc # "killed" => (blocked <=> pc \in {"write", "written"})
  /\ pending => pc \in {"write", "written", "killed"}
  /\ late \in 0 .. 1 /\ late <= Len(written)
  /\ late = 1 => /\ interrupted \/ pending
                 /\ pc \in {"written", "check", "drop", "outer", "done"}

\* An output that failed was counted.
Unsent == pc = "written" /\ ~sent => failures > 0

\* What ended the loop stays to be seen.
Piped == broken /\ ~IgnoresPipe
CouldNotStart == pc = "done" /\ taken = <<>> /\ got = Nothing
Cause ==
  /\ interrupted => signalled \/ Piped \/ exit # "none"
  /\ pending => signalled \/ Piped
  /\ exit # "none" => /\ pc \in {"drop", "outer", "done"}
                      /\ interrupted \/ pc = "done"
  /\ exit = "ended" =>
       got = EndOfInput /\ (utility.in = "file" \/ utility = Udp2Sgctp)
  /\ exit = "error" =>
       \/ CouldNotStart
       \/ got = Malformed /\ (utility.in = "file" \/ utility = Hub2Sgctp)
       \/ failures > 0 /\ utility.session # "connect"
  /\ pc \in {"setup", "open"} => taken = <<>> /\ got = Nothing
  /\ pc \in {"connect", "accept"} => utility.session = pc
  /\ pc \in {"outer", "drop", "sleep"} => HasSession
  /\ pc = "done" =>
       signalled \/ Piped \/ exit # "none" \/ deaf

\* The inductive invariant.
IInv ==
  TypeOK /\ Input /\ Output /\ Balance /\ Signals /\ Unsent /\ Cause

------------------------------------------------------------------------------
(* The utilities, and the places of exec(). *)

\* What the proofs use of the utilities: which of them end with their input or with
\* an output that fails, and that only a session connects, accepts or drops.
LEMMA UtilityFacts ==
  ASSUME utility \in Utilities
  PROVE  /\ utility.session \in {"none", "connect", "accept"}
         /\ utility.unsent \in {"stop", "drop", "next"}
         /\ utility.ended \in {"stop", "drop"}
         /\ utility.failed \in {"stop", "drop", "next"}
         /\ utility.ended = "stop" => utility.in = "file" \/ utility = Udp2Sgctp
         /\ utility.failed = "stop" => utility.in = "file" \/ utility = Hub2Sgctp
         /\ utility.unsent = "stop" => utility.session # "connect"
         /\ utility.passes # "all" =>
              /\ utility \in {SgctpFilter, Sgctp2Gpx}
              /\ utility.out # "destroyed stream"
         /\ "drop" \in {utility.ended, utility.failed, utility.unsent} => HasSession
<1> USE DEF HasSession
<1>1. utility \in {Sgctp2Tcp, Hub2Sgctp, Tcp2Sgctp, Sgctp2Udp, Udp2Sgctp,
                   SgctpFilter, Sgctp2Dsv, Sgctp2Gpx, ToFile(Sgctp2Dsv)}
  BY DEF Utilities, Sgctp2Xml
<1>2. CASE utility = Sgctp2Tcp
  BY <1>2 DEF Sgctp2Tcp
<1>3. CASE utility = Hub2Sgctp
  BY <1>3 DEF Hub2Sgctp
<1>4. CASE utility = Tcp2Sgctp
  BY <1>4 DEF Tcp2Sgctp
<1>5. CASE utility = Sgctp2Udp
  BY <1>5 DEF Sgctp2Udp
<1>6. CASE utility = Udp2Sgctp
  BY <1>6 DEF Udp2Sgctp
<1>7. CASE utility = SgctpFilter
  BY <1>7 DEF SgctpFilter
<1>8. CASE utility = Sgctp2Dsv
  BY <1>8 DEF Sgctp2Dsv
<1>9. CASE utility = ToFile(Sgctp2Dsv)
  BY <1>9 DEF ToFile, Sgctp2Dsv
<1>10. CASE utility = Sgctp2Gpx
  BY <1>10 DEF Sgctp2Gpx, Sgctp2Dsv
<1> QED
  BY <1>1, <1>2, <1>3, <1>4, <1>5, <1>6, <1>7, <1>8, <1>9, <1>10

\* The messages taken and written are sequences of numbers, and there are no more
\* taken than the input brought, nor more written or failed on than taken.
LEMMA Bounds ==
  ASSUME IInv
  PROVE  /\ Len(taken) \in Nat /\ Len(written) \in Nat
         /\ Len(taken) <= brought /\ brought <= MaxMessages
         /\ Len(written) + failures + unfit <= Len(taken)
         /\ InHand /\ ~dangling => Len(written) + failures + unfit + 1 <= Len(taken)
         /\ late <= Len(written)
<1> DEFINE t == Len(taken)
           w == Len(written)
<1>0. taken \in Seq(1 .. MaxMessages) /\ written \in Seq(1 .. MaxMessages)
  BY DEF IInv, TypeOK
<1>1. t \in Nat /\ w \in Nat /\ failures \in Nat /\ unfit \in Nat /\ brought \in Nat
      /\ brought <= MaxMessages /\ MaxMessages \in Nat
  BY UtilityAssumption DEF IInv, TypeOK
<1>2. t <= brought
  <2>1. CASE t = 0
    BY <1>1, <2>1
  <2>2. CASE t # 0
    <3>1. t \in 1 .. Len(taken)
      BY <1>1, <2>2
    <3>2. t <= taken[t] /\ taken[t] <= brought
      BY <3>1, Zenon DEF IInv, Input
    <3>3. taken[t] \in 1 .. MaxMessages
      BY <1>0, <3>1, ElementOfSeq
    <3> HIDE DEF t
    <3> QED
      BY <1>1, <3>2, <3>3
  <2> QED
    BY <2>1, <2>2
<1>3. w + failures + unfit <= t
  <2>1. CASE dangling
    <3>1. w = 0 /\ failures = 0 /\ unfit = 0
      BY <2>1 DEF IInv, Balance
    <3> QED
      BY <1>1, <3>1
  <2>2. CASE ~dangling
    <3>1. t = w + failures + unfit + 0 \/ t = w + failures + unfit + 1
      BY <2>2, Zenon DEF IInv, Balance, Missing
    <3> HIDE DEF t, w
    <3> QED
      BY <1>1, <3>1
  <2> QED
    BY <2>1, <2>2
<1>4. ASSUME InHand, ~dangling
      PROVE  w + failures + unfit + 1 <= t
  <2>1. t = w + failures + unfit + 1
    BY <1>4, Zenon DEF IInv, Balance, Missing
  <2> HIDE DEF t, w
  <2> QED
    BY <1>1, <2>1
<1>5. late <= w
  BY DEF IInv, Signals
<1> QED
  BY <1>1, <1>2, <1>3, <1>4, <1>5

------------------------------------------------------------------------------
(* The steps, taken apart. *)

Units == 1 .. MaxMessages \union {EndOfInput, Malformed}

\* A unit that is read is gone from the input, unless it is the end of it.
LEMMA ReadCases ==
  ASSUME TypeOK, Read
  PROVE  /\ pc = "read" /\ pc' = "got"
         /\ waiting # <<>> /\ Len(waiting) \in Nat /\ Len(waiting) > 0
         /\ got' = waiting[1] /\ got' \in Units
         /\ \/ waiting' = waiting
            \/ waiting' = Tail(waiting)
         /\ waiting' = waiting => got' = EndOfInput
         /\ \/ got' \in Nat /\ taken' = Append(taken, got')
            \/ got' \notin Nat /\ taken' = taken
         /\ UNCHANGED <<utility, interrupted, blocked, pending, sent, exit, peer,
                        brought, signalled, broken, written, failures, unfit, late,
                        dangling, deaf>>
<1>1. waiting \in Seq(Units)
  BY DEF TypeOK, Units
<1>2. waiting # <<>>
  BY DEF Read
<1>3. /\ Len(waiting) \in Nat /\ Len(waiting) > 0 /\ Head(waiting) = waiting[1]
      /\ waiting[1] \in Units
  BY <1>1, <1>2, EmptySeq, ElementOfSeq
<1>4. Len(Tail(waiting)) # Len(waiting)
  BY <1>1, <1>2, HeadTailProperties
<1>5. waiting' = waiting => got' = EndOfInput
  BY <1>4 DEF Read
<1> QED
  BY <1>2, <1>3, <1>5 DEF Read

\* What was read leads on to an output, or to what the utility makes of an end or
\* of a failure.
LEMMA GotCases ==
  ASSUME Got
  PROVE  /\ pc = "got"
         /\ UNCHANGED <<utility, blocked, got, sent, pending, waiting, peer,
                        brought, signalled, broken, taken, written, failures, unfit, late, dangling, deaf>>
         /\ \/ interrupted /\ pc' = Leave /\ UNCHANGED <<interrupted, exit>>
            \/ ~interrupted /\ got = EndOfInput /\ Then(utility.ended, "ended")
            \/ ~interrupted /\ got = Malformed /\ Then(utility.failed, "error")
            \/ /\ ~interrupted /\ got # EndOfInput /\ got # Malformed
               /\ pc' = "block" /\ UNCHANGED <<interrupted, exit>>
<1>1. CASE interrupted
  BY <1>1, Zenon DEF Got, environmentVars, historyVars
<1>2. CASE ~interrupted /\ got = EndOfInput
  BY <1>2, Zenon DEF Got, environmentVars, historyVars
<1>3. CASE ~interrupted /\ got # EndOfInput /\ got = Malformed
  BY <1>3, Zenon DEF Got, environmentVars, historyVars
<1>4. CASE ~interrupted /\ got # EndOfInput /\ got # Malformed
  BY <1>4, Zenon DEF Got, environmentVars, historyVars
<1> QED
  BY <1>1, <1>2, <1>3, <1>4

\* An output takes a message, fails on it, or is none.
LEMMA WriteCases ==
  ASSUME Write
  PROVE  /\ pc = "write"
         /\ UNCHANGED <<utility, interrupted, blocked, got, exit, waiting, peer,
                        brought, signalled, taken, unfit, deaf>>
         /\ \/ /\ utility.out # "destroyed stream" /\ Wrote
               /\ pc' = "written" /\ UNCHANGED dangling
            \/ /\ utility.out # "destroyed stream" /\ Failed
               /\ pc' = "written" /\ UNCHANGED dangling
            \/ /\ utility.out = "destroyed stream" /\ dangling' = TRUE
               /\ sent' = TRUE /\ pc' \in {"written", "killed"}
               /\ UNCHANGED <<written, late, failures, broken, pending>>
  BY Zenon DEF Write, environmentVars

\* A message that is left out is dropped before the output or in it.
LEMMA LeftOutCases ==
  ASSUME Unfit \/ NotDumped
  PROVE  /\ \/ /\ pc = "got" /\ ~interrupted /\ got \notin {EndOfInput, Malformed}
               /\ pc' = "check" /\ sent' = sent
            \/ pc = "write" /\ pc' = "written" /\ sent' = TRUE
         /\ utility.passes # "all" /\ unfit' = unfit + 1
         /\ UNCHANGED <<utility, interrupted, blocked, pending, got, exit, waiting,
                        peer, brought, signalled, broken, taken, written,
                        failures, late, dangling, deaf>>
<1>1. CASE Unfit
  BY <1>1 DEF Unfit, environmentVars
<1>2. CASE NotDumped
  BY <1>2 DEF NotDumped, environmentVars
<1> QED
  BY <1>1, <1>2

\* A signal kills, waits for sigUnblock(), or raises the flag.
LEMMA SignalCases ==
  ASSUME Signals, Signal
  PROVE  /\ pc \notin {"done", "killed"} /\ ~signalled /\ signalled' = TRUE
         /\ UNCHANGED <<utility, blocked, sent, exit, waiting, peer, brought,
                        broken, taken, written, failures, unfit, late, dangling, deaf>>
         /\ \/ /\ pc = "setup" /\ pc' = "killed"
               /\ UNCHANGED <<interrupted, pending, got>>
            \/ /\ pc # "setup" /\ blocked /\ pending' = TRUE
               /\ UNCHANGED <<pc, interrupted, got>>
            \/ /\ pc # "setup" /\ ~blocked /\ interrupted' = TRUE
               /\ UNCHANGED pending
               /\ \/ pc' = pc /\ UNCHANGED got
                  \/ pc = "read" /\ pc' = "got" /\ got' = Malformed
                  \/ pc = "accept" /\ pc' = "done" /\ UNCHANGED got
                  \/ pc \in {"connect", "accept"} /\ pc' = "drop" /\ UNCHANGED got
                  \/ pc = "sleep" /\ pc' = "outer" /\ UNCHANGED got
<1>1. /\ pc \notin {"done", "killed"} /\ ~signalled /\ signalled' = TRUE
      /\ UNCHANGED <<utility, blocked, sent, exit, waiting, peer, brought,
                     broken, taken, written, failures, unfit, late, dangling, deaf>>
  BY Zenon DEF Signal, environmentVars
<1>2. CASE pc = "setup"
  <2>1. ~blocked
    BY <1>2 DEF Signals
  <2> QED
    BY <1>1, <1>2, <2>1, Zenon DEF Signal
<1>3. CASE pc # "setup" /\ blocked
  BY <1>1, <1>3, Zenon DEF Signal
<1>4. CASE pc # "setup" /\ ~blocked
  BY <1>1, <1>4, Zenon DEF Signal
<1> QED
  BY <1>2, <1>3, <1>4

\* The input brings a message or something else.
LEMMA ArrivesCases ==
  ASSUME Arrives
  PROVE  /\ UNCHANGED <<utility, pc, interrupted, blocked, pending, got, sent,
                        exit, peer, signalled, broken, taken, written, failures, unfit, late, dangling, deaf>>
         /\ \/ /\ brought < MaxMessages /\ brought' = brought + 1
               /\ waiting' = Append(waiting, brought + 1)
            \/ /\ waiting' \in {Append(waiting, EndOfInput),
                                Append(waiting, Malformed)}
               /\ brought' = brought
  BY Zenon DEF Arrives, processVars, historyVars

------------------------------------------------------------------------------
(* The types. *)

Places ==
  /\ utility \in Utilities
  /\ pc \in LoopStates \union
        {"setup", "open", "outer", "connect", "accept", "drop", "sleep", "done", "killed"}
  /\ exit \in {"none", "ended", "error"}
  /\ got \in Units \union {Nothing}

Flags ==
  /\ interrupted \in BOOLEAN /\ blocked \in BOOLEAN /\ pending \in BOOLEAN
  /\ sent \in BOOLEAN /\ peer \in BOOLEAN /\ signalled \in BOOLEAN
  /\ broken \in BOOLEAN /\ dangling \in BOOLEAN /\ deaf \in BOOLEAN

Counts ==
  /\ brought \in 0 .. MaxMessages
  /\ failures \in 0 .. MaxMessages /\ unfit \in 0 .. MaxMessages
  /\ late \in 0 .. MaxMessages

Queues ==
  /\ waiting \in Seq(Units)
  /\ taken \in Seq(1 .. MaxMessages) /\ written \in Seq(1 .. MaxMessages)

\* The types are those of the four kinds of variables.
LEMMA TypesByKind == TypeOK <=> Places /\ Flags /\ Counts /\ Queues
<1>1. 1 .. MaxMessages \union {EndOfInput, Malformed, Nothing} = Units \union {Nothing}
  BY DEF Units
<1> QED
  BY <1>1 DEF TypeOK, Places, Flags, Counts, Queues, Units

\* The same of the next state.
LEMMA TypesByKindNext == Places' /\ Flags' /\ Counts' /\ Queues' => TypeOK'
BY TypesByKind, PTL

\* What a step writes is of the types, the counters within their bounds.
LEMMA TypeStep ==
  ASSUME IInv, [Next]_vars
  PROVE  TypeOK'
<1> USE UtilityAssumption DEF processVars, environmentVars, historyVars, vars
<1>1. TypeOK /\ Places /\ Flags /\ Counts /\ Queues /\ Signals
  BY TypesByKind DEF IInv
<1>2. /\ utility.session \in {"none", "connect", "accept"}
      /\ Leave \in {"drop", "done"}
  BY <1>1, UtilityFacts DEF Leave, Places
<1>3. ASSUME Places', UNCHANGED <<blocked, pending, sent, peer, signalled,
                                  dangling, brought, failures, unfit, late,
                                  waiting, taken, written>>,
             interrupted' \in BOOLEAN, broken' \in BOOLEAN, deaf' \in BOOLEAN
      PROVE  TypeOK'
  BY <1>1, <1>3, TypesByKindNext DEF Flags, Counts, Queues
<1>a. CASE Refused
  <2>1. Places' /\ interrupted' = interrupted
    BY <1>1, <1>a DEF Refused, Places
  <2> QED
    BY <1>1, <1>3, <1>a, <2>1 DEF Refused, Flags
<1>b. CASE SetUp
  <2>1. Places' /\ interrupted' = interrupted
    BY <1>1, <1>b DEF SetUp, Places
  <2> QED
    BY <1>1, <1>3, <1>b, <2>1 DEF SetUp, Flags
<1>c. CASE Open
  <2>1. /\ pc' \in {"outer", "check", "done"} /\ exit' \in {exit, "error"}
        /\ interrupted' \in BOOLEAN
    BY <1>1, <1>c DEF Open, Break, Flags
  <2>2. Places'
    BY <1>1, <1>c, <2>1 DEF Open, Places, LoopStates
  <2> QED
    BY <1>1, <1>3, <1>c, <2>1, <2>2 DEF Open, Flags
<1>d. CASE Outer
  <2>1. pc' = "done" \/ pc' = utility.session
    BY <1>d DEF Outer
  <2>2. utility.session # "none"
    BY <1>d DEF Outer, IInv, Cause, HasSession
  <2>3. pc' \in {"done", "connect", "accept"}
    BY <1>2, <2>1, <2>2
  <2>4. Places' /\ interrupted' = interrupted
    BY <1>1, <1>d, <2>3 DEF Outer, Places
  <2> QED
    BY <1>1, <1>3, <1>d, <2>4 DEF Outer, Flags
<1>e. CASE Connected
  <2>1. Places' /\ Flags' /\ Counts'
    BY <1>1, <1>e DEF Connected, Places, Flags, Counts, LoopStates
  <2>2. Queues'
    <3>1. waiting' \in Seq(Units)
      BY <1>1, <1>e, EmptySeq DEF Connected, Queues
    <3> QED
      BY <1>1, <1>e, <3>1 DEF Connected, Queues
  <2> QED
    BY <2>1, <2>2, TypesByKindNext
<1>f. CASE NotConnected
  <2>1. Places'
    BY <1>1, <1>f DEF NotConnected, Places
  <2>2. interrupted' \in BOOLEAN /\ broken' \in BOOLEAN /\ deaf' \in BOOLEAN
    BY <1>1, <1>f, Zenon DEF NotConnected, Flags
  <2> QED
    BY <1>3, <1>f, <2>1, <2>2 DEF NotConnected
<1>g. CASE Drop
  <2>1. Places' /\ interrupted' = interrupted
    BY <1>1, <1>g DEF Drop, Places
  <2> QED
    BY <1>1, <1>3, <1>g, <2>1 DEF Drop, Flags
<1>h. CASE WakeUp
  <2>1. Places' /\ interrupted' = interrupted
    BY <1>1, <1>h DEF WakeUp, Places
  <2> QED
    BY <1>1, <1>3, <1>h, <2>1 DEF WakeUp, Flags
<1>i. CASE Check
  <2>1. Places' /\ interrupted' = interrupted
    BY <1>1, <1>2, <1>i DEF Check, Places, LoopStates
  <2> QED
    BY <1>1, <1>3, <1>i, <2>1 DEF Check, Flags
<1>j. CASE Read
  <2>1. waiting' \in Seq(Units) /\ got' \in Units
    BY <1>1, <1>j, ReadCases, HeadTailProperties DEF Queues
  <2>2. taken' \in Seq(1 .. MaxMessages)
    <3>1. got' \in Nat => got' \in 1 .. MaxMessages
      BY <2>1 DEF Units
    <3>2. taken \in Seq(1 .. MaxMessages)
      BY <1>1 DEF Queues
    <3>3. CASE got' \in Nat /\ taken' = Append(taken, got')
      BY <3>1, <3>2, <3>3, AppendProperties
    <3>4. CASE got' \notin Nat /\ taken' = taken
      BY <3>2, <3>4
    <3> QED
      BY <1>1, <1>j, <3>3, <3>4, ReadCases
  <2>3. /\ pc' = "got"
        /\ UNCHANGED <<utility, interrupted, blocked, pending, sent, exit, peer,
                       brought, signalled, broken, written, failures, unfit, late,
                       dangling, deaf>>
    BY <1>1, <1>j, ReadCases
  <2>4. Places' /\ Flags' /\ Counts'
    BY <1>1, <2>1, <2>3 DEF Places, Flags, Counts, LoopStates
  <2>5. Queues'
    BY <1>1, <2>1, <2>2, <2>3 DEF Queues
  <2> QED
    BY <2>4, <2>5, TypesByKindNext
<1>k. CASE Got
  <2>1. /\ pc' \in {"drop", "done", "check", "block"}
        /\ exit' \in {exit, "ended", "error"} /\ interrupted' \in BOOLEAN
    BY <1>1, <1>2, <1>k, GotCases DEF Then, Break, Flags
  <2>2. UNCHANGED <<utility, blocked, got, sent, pending, waiting, peer,
                    brought, signalled, broken, taken, written, failures, unfit, late, dangling, deaf>>
    BY <1>k, GotCases
  <2>3. Places'
    BY <1>1, <2>1, <2>2 DEF Places, LoopStates
  <2> QED
    BY <1>1, <1>3, <2>1, <2>2, <2>3 DEF Flags
<1>l. CASE Block
  <2>1. Places' /\ Flags' /\ Counts'
    BY <1>1, <1>l DEF Block, Places, Flags, Counts, LoopStates
  <2>2. Queues'
    BY <1>1, <1>l DEF Block, Queues
  <2> QED
    BY <2>1, <2>2, TypesByKindNext
<1>m. CASE Write
  <2>1. /\ pc' \in {"written", "killed"} /\ sent' \in BOOLEAN
        /\ pending' \in BOOLEAN /\ broken' \in BOOLEAN /\ dangling' \in BOOLEAN
    BY <1>1, <1>m, WriteCases DEF Wrote, Failed, Flags
  <2>2. UNCHANGED <<utility, interrupted, blocked, got, exit, waiting, peer,
                    brought, signalled, taken, unfit, deaf>>
    BY <1>m, WriteCases
  <2>3. Places' /\ Flags'
    BY <1>1, <2>1, <2>2 DEF Places, Flags, LoopStates
  <2>4. got \in 1 .. MaxMessages /\ got \notin {EndOfInput, Malformed}
    BY <1>1, <1>m, WriteCases DEF IInv, Output, Places, Units
  <2>5. dangling => utility.out = "destroyed stream"
    BY DEF IInv, Balance
  <2>6. /\ Len(written) \in Nat /\ Len(taken) \in Nat /\ Len(taken) <= MaxMessages
        /\ ~dangling => Len(written) + failures + unfit + 1 <= Len(taken)
        /\ late <= Len(written)
    <3>1. InHand
      BY <1>m, <2>4, WriteCases DEF InHand
    <3>2. /\ Len(taken) \in Nat /\ Len(taken) <= brought /\ brought <= MaxMessages
          /\ brought \in Nat
      BY <1>1, Bounds DEF Counts
    <3> DEFINE t == Len(taken)
    <3>3. t <= MaxMessages
      <4>1. t \in Nat /\ t <= brought
        BY <3>2
      <4> HIDE DEF t
      <4> QED
        BY <3>2, <4>1
    <3> QED
      BY <3>1, <3>2, <3>3, Bounds
  <2>7. /\ failures' \in 0 .. MaxMessages /\ late' \in 0 .. MaxMessages
    <3> DEFINE t == Len(taken)
               w == Len(written)
    <3>1. /\ w \in Nat /\ t \in Nat /\ t <= MaxMessages /\ late <= w
          /\ ~dangling => w + failures + unfit + 1 <= t
          /\ unfit \in Nat /\ failures \in Nat /\ late \in Nat
      BY <1>1, <2>6 DEF Counts
    <3>2. \/ ~dangling /\ failures' \in {failures, failures + 1}
             /\ late' \in {late, late + 1}
          \/ failures' = failures /\ late' = late
      BY <1>m, <2>5, WriteCases DEF Wrote, Failed
    <3> HIDE DEF t, w
    <3>3. CASE ~dangling /\ failures' \in {failures, failures + 1}
               /\ late' \in {late, late + 1}
      BY <3>1, <3>3
    <3>4. CASE failures' = failures /\ late' = late
      BY <1>1, <3>4 DEF Counts
    <3> QED
      BY <3>2, <3>3, <3>4
  <2>8. written' \in Seq(1 .. MaxMessages)
    <3>1. written' = written \/ written' = Append(written, got)
      BY <1>m, WriteCases DEF Wrote, Failed
    <3>2. written \in Seq(1 .. MaxMessages)
      BY <1>1 DEF Queues
    <3>3. Append(written, got) \in Seq(1 .. MaxMessages)
      BY <2>4, <3>2, AppendProperties
    <3> QED
      BY <3>1, <3>2, <3>3
  <2>9. Queues' /\ Counts'
    BY <1>1, <2>2, <2>7, <2>8 DEF Queues, Counts
  <2> QED
    BY <2>3, <2>9, TypesByKindNext
<1>n. CASE Written
  <2>1. /\ pc' \in {"drop", "done", "check"} /\ exit' \in {exit, "error"}
        /\ interrupted' \in BOOLEAN /\ blocked' = FALSE /\ pending' = FALSE
        /\ UNCHANGED <<utility, got, sent, waiting, peer, brought, signalled,
                       broken, taken, written, failures, unfit, late, dangling, deaf>>
    BY <1>1, <1>2, <1>n DEF Written, Break, Flags
  <2>2. Places' /\ Flags'
    BY <1>1, <2>1 DEF Places, Flags, LoopStates
  <2>3. Counts' /\ Queues'
    BY <1>1, <2>1 DEF Counts, Queues
  <2> QED
    BY <2>2, <2>3, TypesByKindNext
<1>o. CASE Arrives
  <2>1. waiting' \in Seq(Units) /\ brought' \in 0 .. MaxMessages
    <3>1. waiting \in Seq(Units) /\ brought \in 0 .. MaxMessages
      BY <1>1 DEF Queues, Counts
    <3>2. CASE /\ brought < MaxMessages /\ brought' = brought + 1
               /\ waiting' = Append(waiting, brought + 1)
      <4>1. brought' \in 1 .. MaxMessages
        BY <3>1, <3>2
      <4>2. brought + 1 \in Units
        BY <3>2, <4>1 DEF Units
      <4> QED
        BY <3>1, <3>2, <4>1, <4>2, AppendProperties
    <3>3. CASE /\ waiting' \in {Append(waiting, EndOfInput),
                                Append(waiting, Malformed)}
               /\ brought' = brought
      BY <3>1, <3>3, AppendProperties DEF Units
    <3> QED
      BY <1>o, <3>2, <3>3, ArrivesCases
  <2>2. UNCHANGED <<utility, pc, interrupted, blocked, pending, got, sent,
                    exit, peer, signalled, broken, taken, written, failures, unfit, late, dangling, deaf>>
    BY <1>o, ArrivesCases
  <2>3. Places' /\ Flags'
    BY <1>1, <2>2 DEF Places, Flags
  <2>4. Counts' /\ Queues'
    BY <1>1, <2>1, <2>2 DEF Counts, Queues
  <2> QED
    BY <2>3, <2>4, TypesByKindNext
<1>p. CASE PeerLeaves
  <2>1. /\ peer' \in BOOLEAN
        /\ UNCHANGED <<utility, pc, interrupted, blocked, pending, got, sent,
                       exit, waiting, brought, signalled, broken, taken, written,
                       failures, unfit, late, dangling, deaf>>
    BY <1>p, Zenon DEF PeerLeaves
  <2>2. Places' /\ Flags'
    BY <1>1, <2>1 DEF Places, Flags
  <2>3. Counts' /\ Queues'
    BY <1>1, <2>1 DEF Counts, Queues
  <2> QED
    BY <2>2, <2>3, TypesByKindNext
<1>q. CASE Signal
  <2>1. /\ pc' \in {pc, "killed", "got", "done", "drop", "outer"}
        /\ got' \in {got, Malformed} /\ signalled' = TRUE
        /\ pending' \in BOOLEAN /\ interrupted' \in BOOLEAN
    BY <1>1, <1>q, SignalCases DEF Flags
  <2>2. UNCHANGED <<utility, blocked, sent, exit, waiting, peer, brought,
                    broken, taken, written, failures, unfit, late, dangling, deaf>>
    BY <1>1, <1>q, SignalCases
  <2>3. Places' /\ Flags'
    BY <1>1, <2>1, <2>2 DEF Places, Flags, Units, LoopStates
  <2>4. Counts' /\ Queues'
    BY <1>1, <2>2 DEF Counts, Queues
  <2> QED
    BY <2>3, <2>4, TypesByKindNext
<1>s. CASE Unfit \/ NotDumped
  <2>1. /\ pc' \in {"check", "written"} /\ sent' \in BOOLEAN /\ unfit' = unfit + 1
        /\ UNCHANGED <<utility, interrupted, blocked, pending, got, exit, waiting,
                       peer, brought, signalled, broken, taken, written,
                       failures, late, dangling, deaf>>
    BY <1>1, <1>s, LeftOutCases DEF Flags
  <2>2. Places' /\ Flags' /\ Queues'
    BY <1>1, <2>1 DEF Places, Flags, Queues, LoopStates
  <2>3. InHand /\ ~dangling
    <3>1. InHand
      BY <1>1, <1>s, LeftOutCases DEF IInv, Output, InHand, UtilityAssumption
    <3>2. ~dangling
      BY <1>1, <1>s, LeftOutCases, UtilityFacts DEF IInv, Balance, Places
    <3> QED
      BY <3>1, <3>2
  <2>4. unfit + 1 <= MaxMessages
    <3> DEFINE t == Len(taken)
               w == Len(written)
    <3>1. /\ t \in Nat /\ t <= brought /\ brought <= MaxMessages /\ w \in Nat
          /\ w + failures + unfit + 1 <= t
      BY <2>3, Bounds
    <3>2. brought \in Nat /\ failures \in Nat /\ unfit \in Nat
      BY <1>1 DEF Counts
    <3> HIDE DEF t, w
    <3> QED
      BY <3>1, <3>2
  <2>5. Counts'
    BY <1>1, <2>1, <2>4 DEF Counts
  <2> QED
    BY <2>2, <2>5, TypesByKindNext
<1>r. CASE UNCHANGED vars
  <2>1. Places' /\ interrupted' = interrupted
    BY <1>1, <1>r DEF Places
  <2> QED
    BY <1>1, <1>3, <1>r, <2>1 DEF Flags
<1> QED
  BY <1>a, <1>b, <1>c, <1>d, <1>e, <1>f, <1>g, <1>h, <1>i, <1>j, <1>k, <1>l,
     <1>m, <1>n, <1>o, <1>p, <1>q, <1>r, <1>s DEF Next, Runs, Waits

------------------------------------------------------------------------------
(* The input, and what is read of it. *)

\* Only a new connection, a read and an arrival change the input and what was taken.
LEMMA InputFrame ==
  ASSUME IInv, [Next]_vars
  PROVE  \/ Connected \/ Read \/ Arrives
         \/ UNCHANGED <<taken, waiting, brought>>
<1> USE DEF environmentVars, historyVars, vars
<1>1. CASE Refused \/ SetUp \/ Open \/ Outer \/ NotConnected \/ Drop
  BY <1>1 DEF Refused, SetUp, Open, Outer, NotConnected, Drop
<1>2. CASE WakeUp \/ Check \/ Block \/ Written \/ UNCHANGED vars
  BY <1>2 DEF WakeUp, Check, Block, Written
<1>3. CASE Got \/ Write \/ Unfit \/ NotDumped
  BY <1>3, GotCases, WriteCases, LeftOutCases
<1>4. CASE Signal
  BY <1>4, SignalCases DEF IInv
<1>5. CASE PeerLeaves
  BY <1>5, Zenon DEF PeerLeaves
<1> QED
  BY <1>1, <1>2, <1>3, <1>4, <1>5 DEF Next, Runs, Waits

\* A unit that waits is a message the input brought, or no number.
LEMMA InputStep ==
  ASSUME IInv, [Next]_vars
  PROVE  Input'
<1>1. /\ taken \in Seq(1 .. MaxMessages) /\ waiting \in Seq(Units)
      /\ brought \in Nat /\ Input /\ TypeOK
  BY TypesByKind, UtilityAssumption DEF IInv, Queues, Counts
<1>2. /\ Increasing(taken)
      /\ \A i \in 1 .. Len(taken) : i <= taken[i] /\ taken[i] <= brought
  BY <1>1, Zenon DEF Input
<1>3. \A i \in 1 .. Len(waiting) : waiting[i] \in Nat =>
        /\ waiting[i] <= brought
        /\ \A j \in 1 .. Len(taken) : taken[j] < waiting[i]
  BY <1>1, Zenon DEF Input
<1>4. \A i, j \in 1 .. Len(waiting) :
        i < j /\ waiting[i] \in Nat /\ waiting[j] \in Nat => waiting[i] < waiting[j]
  BY <1>1, Zenon DEF Input
<1>5. \A i \in 1 .. Len(taken) : taken[i] \in Nat
  BY <1>1, ElementOfSeq, UtilityAssumption
<1>6. Len(taken) \in Nat /\ Len(waiting) \in Nat
  BY <1>1, LenProperties
<1>a. CASE Connected
  <2>1. /\ taken' = taken /\ brought' = brought
        /\ waiting' = <<>> \/ waiting' = waiting
    BY <1>a DEF Connected, historyVars
  <2>2. CASE waiting' = waiting
    BY <1>1, <2>1, <2>2 DEF Input, Increasing
  <2>3. CASE waiting' = <<>>
    <3>1. Len(waiting') = 0
      BY <2>3, EmptySeq
    <3>2. Increasing(taken)' /\ (\A i \in 1 .. Len(taken) : i <= taken[i] /\ taken[i] <= brought)'
      BY <1>2, <2>1 DEF Increasing
    <3> QED
      BY <3>1, <3>2 DEF Input
  <2> QED
    BY <2>1, <2>2, <2>3
<1>b. CASE Read
  <2>1. /\ Len(waiting) > 0 /\ got' = waiting[1] /\ brought' = brought
        /\ waiting' = waiting \/ waiting' = Tail(waiting)
        /\ waiting # <<>> /\ (waiting' = waiting => got' = EndOfInput)
        /\ (got' \in Nat /\ taken' = Append(taken, got')) \/ (got' \notin Nat /\ taken' = taken)
    BY <1>1, <1>b, ReadCases
  <2>2. /\ Len(Tail(waiting)) = Len(waiting) - 1
        /\ \A i \in 1 .. Len(Tail(waiting)) : Tail(waiting)[i] = waiting[i + 1]
    BY <1>1, <2>1, HeadTailProperties
  <2>3. CASE got' \notin Nat /\ taken' = taken
    <3>1. Increasing(taken)' /\ (\A i \in 1 .. Len(taken) : i <= taken[i] /\ taken[i] <= brought)'
      BY <1>2, <2>1, <2>3 DEF Increasing
    <3>2. CASE waiting' = waiting
      BY <1>1, <2>1, <2>3, <3>2 DEF Input, Increasing
    <3>3. CASE waiting' = Tail(waiting)
      <4> DEFINE u == waiting'
                 l == Len(u)
                 m == Len(waiting)
      <4>1. l = m - 1 /\ \A i \in 1 .. l : u[i] = waiting[i + 1]
        BY <2>2, <3>3
      <4>2. m \in Nat
        BY <1>6
      <4>3. \A i \in 1 .. m : waiting[i] \in Nat =>
              /\ waiting[i] <= brought
              /\ \A j \in 1 .. Len(taken) : taken[j] < waiting[i]
        BY <1>3
      <4>4. \A i, j \in 1 .. m :
              i < j /\ waiting[i] \in Nat /\ waiting[j] \in Nat => waiting[i] < waiting[j]
        BY <1>4
      <4> HIDE DEF u, l, m
      <4>5. \A i \in 1 .. l : u[i] \in Nat =>
              /\ u[i] <= brought'
              /\ \A j \in 1 .. Len(taken') : taken'[j] < u[i]
        BY <4>1, <4>2, <4>3, <2>1, <2>3
      <4>6. \A i, j \in 1 .. l : i < j /\ u[i] \in Nat /\ u[j] \in Nat => u[i] < u[j]
        BY <4>1, <4>2, <4>4
      <4> QED
        BY <3>1, <4>5, <4>6 DEF Input, u, l
    <3> QED
      BY <2>1, <3>2, <3>3
  <2>4. CASE got' \in Nat /\ taken' = Append(taken, got')
    <3>1. waiting' = Tail(waiting)
      BY <2>1, <2>4, UtilityAssumption
    <3> DEFINE u == waiting'
               l == Len(u)
               m == Len(waiting)
               s == taken'
               k == Len(taken)
               g == got'
               n == Len(s)
    <3>2. l = m - 1 /\ \A i \in 1 .. l : u[i] = waiting[i + 1]
      BY <2>2, <3>1
    <3>3. m \in Nat /\ m > 0 /\ k \in Nat /\ g \in Nat /\ g = waiting[1]
      BY <1>6, <2>1, <2>4
    <3>4. \A i \in 1 .. m : waiting[i] \in Nat =>
            /\ waiting[i] <= brought
            /\ \A j \in 1 .. k : taken[j] < waiting[i]
      BY <1>3
    <3>5. \A i, j \in 1 .. m :
            i < j /\ waiting[i] \in Nat /\ waiting[j] \in Nat => waiting[i] < waiting[j]
      BY <1>4
    <3>6. n = k + 1 /\ s[n] = g /\ \A i \in 1 .. k : s[i] = taken[i]
      <4>1. taken \in Seq(Nat)
        BY <1>1, <1>5
      <4> QED
        BY <2>4, <4>1, AppendProperties
    <3>7. \A i \in 1 .. k : i <= taken[i] /\ taken[i] <= brought /\ taken[i] \in Nat
      BY <1>2, <1>5
    <3>8. \A i, j \in 1 .. k : i < j => taken[i] < taken[j]
      BY <1>2 DEF Increasing
    <3>9. brought' = brought
      BY <2>1
    <3> HIDE DEF u, l, m, s, k, g, n
    <3>10. /\ g <= brought /\ \A j \in 1 .. k : taken[j] < g
           /\ \A i \in 2 .. m : waiting[i] \in Nat => g < waiting[i]
      BY <3>3, <3>4, <3>5
    <3>11. \A i \in 1 .. n : i <= s[i] /\ s[i] <= brought
      <4>1. k + 1 <= g
        <5>1. CASE k = 0
          <6>1. \A i \in 1 .. m : waiting[i] \in Units
            BY <1>1, ElementOfSeq DEF m
          <6> QED
            BY <3>3, <5>1, <6>1, UtilityAssumption DEF Units
        <5>2. CASE k # 0
          <6>1. k \in 1 .. k
            BY <3>3, <5>2
          <6>2. k <= taken[k] /\ taken[k] < g /\ taken[k] \in Nat
            BY <3>7, <3>10, <6>1
          <6> QED
            BY <3>3, <6>2
        <5> QED
          BY <5>1, <5>2
      <4> QED
        BY <3>3, <3>6, <3>7, <3>10, <4>1
    <3>12. \A i, j \in 1 .. n : i < j => s[i] < s[j]
      BY <3>3, <3>6, <3>8, <3>10
    <3>13. \A i \in 1 .. l : u[i] \in Nat =>
             u[i] <= brought /\ \A j \in 1 .. n : s[j] < u[i]
      BY <3>2, <3>3, <3>4, <3>6, <3>10
    <3>14. \A i, j \in 1 .. l : i < j /\ u[i] \in Nat /\ u[j] \in Nat => u[i] < u[j]
      BY <3>2, <3>3, <3>5
    <3> QED
      BY <3>9, <3>11, <3>12, <3>13, <3>14 DEF Input, Increasing, u, l, s, n
  <2> QED
    BY <2>1, <2>3, <2>4
<1>c. CASE Arrives
  <2>1. /\ taken' = taken
        /\ \/ brought' = brought + 1 /\ waiting' = Append(waiting, brought + 1)
           \/ /\ waiting' \in {Append(waiting, EndOfInput), Append(waiting, Malformed)}
              /\ brought' = brought
    BY <1>c, ArrivesCases
  <2>2. \E x \in Units \union Nat :
          /\ waiting' = Append(waiting, x)
          /\ x \in Nat => x = brought + 1 /\ brought' = brought + 1
          /\ brought' \in {brought, brought + 1}
    <3>1. CASE brought' = brought + 1 /\ waiting' = Append(waiting, brought + 1)
      <4>1. brought + 1 \in Units \union Nat
        BY <1>1
      <4> QED
        BY <3>1, <4>1
    <3>2. CASE waiting' = Append(waiting, EndOfInput) /\ brought' = brought
      BY <3>2, UtilityAssumption DEF Units
    <3>3. CASE waiting' = Append(waiting, Malformed) /\ brought' = brought
      BY <3>3, UtilityAssumption DEF Units
    <3> QED
      BY <2>1, <3>1, <3>2, <3>3
  <2> DEFINE u == waiting'
             l == Len(u)
             m == Len(waiting)
  <2>3. PICK x \in Units \union Nat :
          /\ waiting' = Append(waiting, x)
          /\ x \in Nat => x = brought + 1 /\ brought' = brought + 1
          /\ brought' \in {brought, brought + 1}
    BY <2>2
  <2>4. l = m + 1 /\ u[l] = x /\ m \in Nat /\ \A i \in 1 .. m : u[i] = waiting[i]
    <3>1. waiting \in Seq(Units \union Nat)
      BY <1>1, ElementOfSeq
    <3> QED
      BY <1>6, <2>3, <3>1, AppendProperties
  <2>5. \A i \in 1 .. m : waiting[i] \in Nat =>
          /\ waiting[i] <= brought
          /\ \A j \in 1 .. Len(taken) : taken[j] < waiting[i]
    BY <1>3
  <2>6. \A i, j \in 1 .. m :
          i < j /\ waiting[i] \in Nat /\ waiting[j] \in Nat => waiting[i] < waiting[j]
    BY <1>4
  <2> HIDE DEF u, l, m
  <2>7. \A i \in 1 .. l : u[i] \in Nat => u[i] <= brought'
    BY <1>1, <2>3, <2>4, <2>5
  <2>8. ASSUME NEW i \in 1 .. l, u[i] \in Nat, NEW j \in 1 .. Len(taken)
        PROVE  taken[j] < u[i]
    <3>1. CASE i \in 1 .. m
      BY <2>4, <2>5, <2>8, <3>1
    <3>2. CASE i = l
      <4>1. u[i] = brought + 1
        BY <2>3, <2>4, <2>8, <3>2
      <4>2. taken[j] <= brought /\ taken[j] \in Nat
        BY <1>2, <1>5
      <4> QED
        BY <1>1, <4>1, <4>2
    <3> QED
      BY <2>4, <3>1, <3>2
  <2>9. ASSUME NEW i \in 1 .. l, NEW j \in 1 .. l, i < j, u[i] \in Nat, u[j] \in Nat
        PROVE  u[i] < u[j]
    <3>1. i \in 1 .. m /\ u[i] = waiting[i]
      BY <2>4, <2>9
    <3>2. CASE j \in 1 .. m
      BY <2>4, <2>6, <2>9, <3>1, <3>2
    <3>3. CASE j = l
      <4>1. u[j] = brought + 1
        BY <2>3, <2>4, <2>9, <3>3
      <4>2. waiting[i] <= brought /\ waiting[i] \in Nat
        BY <2>5, <2>9, <3>1
      <4> QED
        BY <1>1, <3>1, <4>1, <4>2
    <3> QED
      BY <2>4, <3>2, <3>3
  <2>10. \A i \in 1 .. Len(taken) : i <= taken[i] /\ taken[i] <= brought'
    BY <1>1, <1>2, <1>5, <2>3
  <2> QED
    BY <1>2, <2>1, <2>7, <2>8, <2>9, <2>10 DEF Input, Increasing, u, l
<1>d. CASE UNCHANGED <<taken, waiting, brought>>
  BY <1>1, <1>d DEF Input, Increasing
<1> QED
  BY <1>a, <1>b, <1>c, <1>d, InputFrame

------------------------------------------------------------------------------
(* What is in hand, and what is written. *)

InHands == {"got", "block", "write"}
OnTheWayOut == {"drop", "outer", "done"}

\* The other steps neither take nor write a message, nor come near one in hand; and
\* a utility that was interrupted goes on to its end.
LEMMA OutputFrame ==
  ASSUME IInv, [Next]_vars
  PROVE  \/ Read \/ Got \/ Unfit \/ Block \/ Write \/ NotDumped \/ Signal
         \/ /\ UNCHANGED <<utility, taken, written, failures, unfit, dangling, got>>
            /\ pc' = pc \/ (pc \notin InHands /\ pc' \notin InHands)
            /\ pc \in OnTheWayOut /\ interrupted =>
                 pc' \in OnTheWayOut /\ interrupted'
<1> USE DEF environmentVars, historyVars, processVars, vars, InHands, OnTheWayOut
<1>1. /\ utility.session \in {"none", "connect", "accept"}
      /\ Leave \in {"drop", "done"}
  BY UtilityFacts DEF Leave, IInv, TypeOK
<1>2. CASE Refused \/ SetUp \/ Open
  BY <1>2 DEF Refused, SetUp, Open
<1>3. CASE Outer
  BY <1>1, <1>3 DEF Outer
<1>4. CASE Connected
  BY <1>4 DEF Connected
<1>5. CASE NotConnected \/ WakeUp
  BY <1>5 DEF NotConnected, WakeUp
<1>6. CASE Drop
  BY <1>6 DEF Drop
<1>7. CASE Check
  BY <1>1, <1>7 DEF Check
<1>8. CASE Written
  <2>1. pc = "written" /\ pc' \in {"drop", "check", "done"}
    BY <1>1, <1>8 DEF Written
  <2>2. UNCHANGED <<utility, taken, written, failures, unfit, dangling, got>>
    BY <1>8 DEF Written
  <2> QED
    BY <2>1, <2>2
<1>9. CASE Arrives
  BY <1>9, ArrivesCases, Zenon DEF Arrives
<1>10. CASE PeerLeaves
  BY <1>10, Zenon DEF PeerLeaves
<1>11. CASE UNCHANGED vars
  BY <1>11
<1> QED
  BY <1>2, <1>3, <1>4, <1>5, <1>6, <1>7, <1>8, <1>9, <1>10, <1>11 DEF Next, Runs, Waits

\* What is in hand after a step is what was in hand before it, or what was just read.
LEMMA OutputStep ==
  ASSUME IInv, [Next]_vars
  PROVE  Output'
<1>1. /\ taken \in Seq(1 .. MaxMessages) /\ written \in Seq(1 .. MaxMessages)
      /\ got \in Units \union {Nothing} /\ Output /\ TypeOK /\ Signals
      /\ Increasing(written)
      /\ \A i \in 1 .. Len(written) : \E j \in 1 .. Len(taken) : taken[j] = written[i]
  BY TypesByKind DEF IInv, Queues, Places, Output
<1>2. Len(taken) \in Nat /\ Len(written) \in Nat
  BY <1>1, LenProperties
<1>3. ASSUME UNCHANGED <<taken, written>>,
             HasGot' => got' # Nothing,
             (pc \in {"block", "write"})' => got' \in Nat,
             HasGot' /\ got' \in Nat => HasGot /\ got' = got
      PROVE  Output'
  <2>1. Increasing(written)'
    BY <1>1, <1>3 DEF Increasing
  <2>2. (\A i \in 1 .. Len(written) : \E j \in 1 .. Len(taken) : taken[j] = written[i])'
    BY <1>1, <1>3
  <2>3. HasGot' /\ got' \in Nat =>
          /\ Len(taken') > 0 /\ got' = taken'[Len(taken')]
          /\ \A i \in 1 .. Len(written') : written'[i] < got'
    BY <1>1, <1>3 DEF Output
  <2> QED
    BY <1>3, <2>1, <2>2, <2>3 DEF Output
<1>a. CASE Read
  <2>1. /\ pc' = "got" /\ got' \in Units /\ got' = waiting[1] /\ Len(waiting) > 0
        /\ (got' \in Nat /\ taken' = Append(taken, got')) \/ (got' \notin Nat /\ taken' = taken)
        /\ written' = written
    BY <1>1, <1>a, ReadCases
  <2>2. got' # Nothing
    BY <2>1, UtilityAssumption DEF Units
  <2>3. CASE got' \notin Nat /\ taken' = taken
    BY <1>3, <2>1, <2>2, <2>3
  <2>4. CASE got' \in Nat /\ taken' = Append(taken, got')
    <3> DEFINE s == taken'
               n == Len(s)
               k == Len(taken)
               g == got'
    <3>1. n = k + 1 /\ s[n] = g /\ (\A i \in 1 .. k : s[i] = taken[i]) /\ k \in Nat
      <4>1. got' \in 1 .. MaxMessages
        BY <2>1, <2>4, UtilityAssumption DEF Units
      <4> QED
        BY <1>1, <1>2, <2>4, <4>1, AppendProperties
    <3>2. \A j \in 1 .. k : taken[j] < g
      <4>1. 1 \in 1 .. Len(waiting)
        BY <1>1, <1>a, ReadCases
      <4> QED
        BY <2>1, <2>4, <4>1 DEF IInv, Input
    <3> HIDE DEF s, n, k, g
    <3>3. n > 0 /\ n \in Nat
      BY <3>1
    <3>4. \A i \in 1 .. Len(written) : written[i] < g
      BY <1>1, <3>2 DEF k
    <3>5. \A i \in 1 .. Len(written) : \E j \in 1 .. n : s[j] = written[i]
      <4>1. \A j \in 1 .. k : j \in 1 .. n
        BY <3>1
      <4> QED
        BY <1>1, <3>1, <4>1 DEF k
    <3>6. Increasing(written)'
      BY <1>1, <2>1 DEF Increasing
    <3>7. pc' \notin {"block", "write"}
      BY <2>1
    <3> QED
      BY <2>1, <2>2, <3>1, <3>3, <3>4, <3>5, <3>6, <3>7 DEF Output, s, n, g
  <2> QED
    BY <2>1, <2>3, <2>4
<1>b. CASE Got
  <2>1. pc = "got" /\ UNCHANGED <<taken, written, got>>
    BY <1>b, GotCases
  <2>2. HasGot /\ got # Nothing
    BY <1>1, <2>1 DEF HasGot, Output
  <2>3. \/ pc' \in {"drop", "done", "check"}
        \/ pc' = "block" /\ got # EndOfInput /\ got # Malformed
    BY <1>b, GotCases DEF Then, Leave
  <2>4. pc' \in {"block", "write"} => got \in Nat
    BY <1>1, <2>2, <2>3 DEF Units
  <2> QED
    BY <1>3, <2>1, <2>2, <2>3, <2>4
<1>c. CASE Block
  <2>1. pc = "block" /\ pc' = "write" /\ UNCHANGED <<taken, written, got>>
    BY <1>c DEF Block, historyVars
  <2>2. HasGot /\ got # Nothing /\ got \in Nat
    BY <1>1, <2>1 DEF HasGot, Output
  <2> QED
    BY <1>3, <2>1, <2>2
<1>d. CASE Write
  <2>1. /\ pc = "write" /\ pc' \in {"written", "killed"} /\ taken' = taken
        /\ written' = written \/ written' = Append(written, got)
    BY <1>d, WriteCases DEF Wrote, Failed
  <2>2. ~HasGot' /\ pc' \notin {"block", "write"}
    BY <2>1 DEF HasGot
  <2>3. CASE written' = written
    BY <1>3, <2>1, <2>2, <2>3
  <2>4. CASE written' = Append(written, got)
    <3>1. HasGot /\ got \in Nat
      BY <1>1, <2>1 DEF HasGot, Output
    <3>2. /\ Len(taken) > 0 /\ got = taken[Len(taken)]
          /\ \A i \in 1 .. Len(written) : written[i] < got
      BY <1>1, <3>1 DEF Output
    <3> DEFINE s == written'
               n == Len(s)
               k == Len(written)
    <3>3. n = k + 1 /\ s[n] = got /\ (\A i \in 1 .. k : s[i] = written[i]) /\ k \in Nat
      <4>1. got \in 1 .. MaxMessages
        BY <1>1, <3>1, UtilityAssumption DEF Units
      <4> QED
        BY <1>1, <1>2, <2>4, <4>1, AppendProperties
    <3>4. \A i \in 1 .. k : written[i] < got /\ \E j \in 1 .. Len(taken) : taken[j] = written[i]
      BY <1>1, <3>2
    <3>5. \A i, j \in 1 .. k : i < j => written[i] < written[j]
      BY <1>1 DEF Increasing
    <3>6. Len(taken) \in 1 .. Len(taken)
      BY <1>2, <3>2
    <3> HIDE DEF s, n, k
    <3>7. \A i, j \in 1 .. n : i < j => s[i] < s[j]
      BY <3>3, <3>4, <3>5
    <3>8. ASSUME NEW i \in 1 .. n
          PROVE  \E j \in 1 .. Len(taken) : taken[j] = s[i]
      <4>1. CASE i \in 1 .. k
        BY <3>3, <3>4, <4>1
      <4>2. CASE i = n
        BY <3>2, <3>3, <3>6, <4>2
      <4> QED
        BY <3>3, <4>1, <4>2
    <3> QED
      BY <2>1, <2>2, <3>7, <3>8 DEF Output, Increasing, s, n
  <2> QED
    BY <2>1, <2>3, <2>4
<1>e. CASE Signal
  <2>1. UNCHANGED <<taken, written>>
    BY <1>1, <1>e, SignalCases
  <2>2. \/ pc' = pc /\ got' = got
        \/ pc' = "got" /\ got' = Malformed
        \/ pc' \in {"killed", "done", "drop", "outer"}
    BY <1>1, <1>e, SignalCases
  <2>3. CASE pc' = pc /\ got' = got
    <3>1. HasGot' => HasGot
      BY <2>3 DEF HasGot
    <3>2. (HasGot => got # Nothing) /\ (pc \in {"block", "write"} => got \in Nat)
      BY <1>1 DEF Output
    <3> QED
      BY <1>3, <2>1, <2>3, <3>1, <3>2
  <2>4. CASE pc' = "got" /\ got' = Malformed
    BY <1>3, <2>1, <2>4, UtilityAssumption
  <2>5. CASE pc' \in {"killed", "done", "drop", "outer"}
    BY <1>3, <2>1, <2>5 DEF HasGot
  <2> QED
    BY <2>2, <2>3, <2>4, <2>5
<1>g. CASE Unfit \/ NotDumped
  BY <1>3, <1>g, LeftOutCases DEF HasGot
<1>f. CASE /\ UNCHANGED <<taken, written, got>>
           /\ pc' = pc \/ (pc \notin InHands /\ pc' \notin InHands)
  <2>1. CASE pc' = pc
    <3>1. HasGot' => HasGot
      BY <2>1 DEF HasGot
    <3>2. (HasGot => got # Nothing) /\ (pc \in {"block", "write"} => got \in Nat)
      BY <1>1 DEF Output
    <3> QED
      BY <1>3, <1>f, <2>1, <3>1, <3>2
  <2>2. CASE pc' \notin InHands
    BY <1>3, <1>f, <2>2 DEF HasGot, InHands
  <2> QED
    BY <1>f, <2>1, <2>2
<1> QED
  BY <1>a, <1>b, <1>c, <1>d, <1>e, <1>f, <1>g, OutputFrame

------------------------------------------------------------------------------
(* What is missing. *)

\* Every message taken is written, failed on, in hand, or the one dropped by a utility
\* that was interrupted.
LEMMA BalanceStep ==
  ASSUME IInv, [Next]_vars
  PROVE  Balance'
<1>1. /\ taken \in Seq(1 .. MaxMessages) /\ written \in Seq(1 .. MaxMessages)
      /\ got \in Units \union {Nothing} /\ failures \in Nat /\ unfit \in Nat
      /\ Output /\ Balance /\ TypeOK /\ Signals
  BY TypesByKind, UtilityAssumption DEF IInv, Queues, Places, Counts
<1>2. Len(taken) \in Nat /\ Len(written) \in Nat
  BY <1>1, LenProperties
<1>3. InHand <=> pc \in InHands /\ got \in Nat
  BY <1>1, UtilityAssumption DEF InHand, InHands, Units, Output, HasGot
<1>4. InHand' <=> pc' \in InHands /\ got' \notin {EndOfInput, Malformed}
  BY DEF InHand, InHands
<1>5. ~dangling /\ ~InHand /\ pc \notin OnTheWayOut => Missing(0)
  BY <1>1 DEF Balance, OnTheWayOut
\* A step that leaves what was taken and written alone.
<1>6. ASSUME UNCHANGED <<utility, taken, written, failures, unfit, dangling>>,
             InHand' => InHand,
             InHand /\ ~InHand' => interrupted' /\ pc' \in OnTheWayOut,
             interrupted /\ pc \in OnTheWayOut => interrupted' /\ pc' \in OnTheWayOut
      PROVE  Balance'
  <2>1. (Missing(0)' <=> Missing(0)) /\ (Missing(1)' <=> Missing(1))
    BY <1>6 DEF Missing
  <2>2. ~dangling' /\ InHand' => Missing(1)'
    BY <1>1, <1>6, <2>1 DEF Balance
  <2>3. ASSUME ~dangling', ~InHand'
        PROVE  (Missing(0) \/ (Missing(1) /\ interrupted /\ pc \in {"drop", "outer", "done"}))'
    BY <1>1, <1>6, <2>1, <2>3 DEF Balance, OnTheWayOut
  <2> QED
    BY <1>1, <1>6, <2>2, <2>3 DEF Balance
<1>a. CASE Read
  <2>1. /\ pc = "read" /\ pc' = "got" /\ got' \in Units
        /\ (got' \in Nat /\ taken' = Append(taken, got')) \/ (got' \notin Nat /\ taken' = taken)
        /\ UNCHANGED <<utility, interrupted, written, failures, unfit, dangling>>
    BY <1>1, <1>a, ReadCases
  <2>2. ~InHand
    BY <1>3, <2>1 DEF InHands
  <2>3. CASE got' \notin Nat /\ taken' = taken
    <3>1. ~InHand'
      BY <1>4, <2>1, <2>3 DEF Units
    <3> QED
      BY <1>6, <2>1, <2>2, <2>3, <3>1 DEF OnTheWayOut
  <2>4. CASE got' \in Nat /\ taken' = Append(taken, got')
    <3>1. InHand'
      BY <1>4, <2>1, <2>4, UtilityAssumption DEF InHands
    <3>2. ~dangling => Len(taken) = Len(written) + failures + unfit + 0
      BY <1>5, <2>1, <2>2, Zenon DEF OnTheWayOut, Missing
    <3> DEFINE k == Len(taken)
               n == Len(taken')
               w == Len(written')
               v == Len(written)
    <3>3. n = k + 1
      <4>1. got' \in 1 .. MaxMessages
        BY <2>1, <2>4, UtilityAssumption DEF Units
      <4> QED
        BY <1>1, <2>4, <4>1, AppendProperties
    <3>4. w = v /\ v \in Nat /\ k \in Nat
      BY <1>2, <2>1
    <3>5. ~dangling => k = v + failures + unfit + 0
      BY <3>2
    <3> HIDE DEF k, n, w, v
    <3>6. ~dangling' => n = w + failures' + unfit' + 1
      BY <1>1, <2>1, <3>3, <3>4, <3>5
    <3>7. ~dangling' => Missing(1)'
      BY <3>6 DEF Missing, n, w
    <3> QED
      BY <1>1, <2>1, <3>1, <3>7 DEF Balance
  <2> QED
    BY <2>1, <2>3, <2>4
<1>b. CASE Got
  <2>1. pc = "got" /\ UNCHANGED <<utility, taken, written, failures, unfit, dangling, got>>
    BY <1>b, GotCases
  <2>2. \/ interrupted /\ interrupted' /\ pc' \in OnTheWayOut
        \/ got \in {EndOfInput, Malformed} /\ pc' \notin InHands
        \/ got \notin {EndOfInput, Malformed} /\ pc' = "block"
    BY <1>b, GotCases DEF Then, Leave, OnTheWayOut, InHands
  <2>3. got # Nothing
    BY <1>1, <2>1 DEF Output, HasGot
  <2>4. InHand <=> got \notin {EndOfInput, Malformed}
    BY <2>1 DEF InHand
  <2>5. /\ pc \notin OnTheWayOut
        /\ InHand' => got \notin {EndOfInput, Malformed}
    BY <1>4, <2>1 DEF OnTheWayOut
  <2>6. InHand /\ ~InHand' => interrupted' /\ pc' \in OnTheWayOut
    BY <1>4, <2>1, <2>2, <2>4 DEF InHands
  <2> QED
    BY <1>6, <2>1, <2>4, <2>5, <2>6
<1>c. CASE Block
  <2>1. /\ pc = "block" /\ pc' = "write"
        /\ UNCHANGED <<utility, taken, written, failures, unfit, dangling, got>>
    BY <1>c DEF Block, historyVars
  <2>2. InHand <=> InHand'
    BY <2>1 DEF InHand
  <2> QED
    BY <1>6, <2>1, <2>2 DEF OnTheWayOut
<1>d. CASE Write
  <2>1. /\ pc = "write" /\ pc' \in {"written", "killed"} /\ UNCHANGED <<utility, taken, got, unfit>>
        /\ \/ /\ utility.out # "destroyed stream" /\ dangling' = dangling
              /\ written' = Append(written, got) /\ failures' = failures
           \/ /\ utility.out # "destroyed stream" /\ dangling' = dangling
              /\ written' = written /\ failures' = failures + 1
           \/ /\ utility.out = "destroyed stream" /\ dangling' = TRUE
              /\ written' = written /\ failures' = failures
    BY <1>d, WriteCases DEF Wrote, Failed
  <2>2. /\ InHand /\ ~InHand' /\ got \in Nat
    BY <1>1, <1>3, <1>4, <2>1 DEF InHands, Output
  <2>3. CASE utility.out = "destroyed stream" /\ dangling' = TRUE
             /\ written' = written /\ failures' = failures
    BY <1>1, <2>1, <2>3 DEF Balance
  <2>4. CASE utility.out # "destroyed stream" /\ dangling' = dangling
    <3>1. ~dangling
      BY <1>1, <2>4 DEF Balance
    <3>2. Len(taken) = Len(written) + failures + unfit + 1
      BY <1>1, <2>2, <3>1, Zenon DEF Balance, Missing
    <3> DEFINE k == Len(taken)
               n == Len(taken')
               w == Len(written')
               v == Len(written)
    <3>3. \/ w = v /\ failures' = failures + 1
          \/ w = v + 1 /\ failures' = failures
      <4>1. got \in 1 .. MaxMessages
        BY <1>1, <2>2, UtilityAssumption DEF Units
      <4>2. Len(Append(written, got)) = Len(written) + 1
        BY <1>1, <4>1, AppendProperties
      <4> QED
        BY <2>1, <2>4, <4>2
    <3>4. n = k /\ v \in Nat /\ k \in Nat /\ k = v + failures + unfit + 1
      BY <1>2, <2>1, <3>2
    <3> HIDE DEF k, n, w, v
    <3>8. unfit' = unfit
      BY <2>1
    <3>5. n = w + failures' + unfit' + 0
      BY <1>1, <3>3, <3>4, <3>8
    <3>6. Missing(0)'
      BY <3>5 DEF Missing, n, w
    <3>7. unfit' > 0 => utility'.passes # "all"
      BY <1>1, <2>1 DEF Balance
    <3> QED
      BY <2>1, <2>2, <2>4, <3>1, <3>6, <3>7 DEF Balance
  <2> QED
    BY <2>1, <2>3, <2>4
<1>e. CASE Signal
  <2>1. UNCHANGED <<utility, taken, written, failures, unfit, dangling>>
    BY <1>1, <1>e, SignalCases
  <2>2. \/ pc' = pc /\ got' = got /\ (interrupted => interrupted')
        \/ pc = "read" /\ pc' = "got" /\ got' = Malformed
        \/ pc = "setup" /\ pc' = "killed"
        \/ pc = "accept" /\ pc' = "done"
        \/ pc \in {"connect", "accept"} /\ pc' = "drop"
        \/ pc = "sleep" /\ pc' = "outer"
    BY <1>1, <1>e, SignalCases
  <2>3. CASE pc' = pc /\ got' = got /\ (interrupted => interrupted')
    <3>1. InHand <=> InHand'
      BY <2>3 DEF InHand
    <3> QED
      BY <1>6, <2>1, <2>3, <3>1
  <2>4. CASE pc = "read" /\ pc' = "got" /\ got' = Malformed
    <3>1. ~InHand /\ ~InHand' /\ pc \notin OnTheWayOut
      BY <2>4 DEF InHand, OnTheWayOut
    <3> QED
      BY <1>6, <2>1, <3>1
  <2>5. CASE /\ pc \in {"setup", "connect", "accept", "sleep"}
             /\ pc' \in {"killed", "done", "drop", "outer"}
    <3>1. ~InHand /\ ~InHand' /\ pc \notin OnTheWayOut
      BY <2>5 DEF InHand, OnTheWayOut
    <3> QED
      BY <1>6, <2>1, <3>1
  <2> QED
    BY <2>2, <2>3, <2>4, <2>5
<1>g. CASE Unfit \/ NotDumped
  <2>1. /\ pc \in InHands /\ pc' \notin InHands /\ got \notin {EndOfInput, Malformed}
        /\ utility.passes # "all" /\ unfit' = unfit + 1
        /\ UNCHANGED <<utility, taken, written, failures, dangling>>
    BY <1>1, <1>g, LeftOutCases, UtilityAssumption DEF InHands, Output
  <2>2. InHand /\ ~InHand'
    BY <1>4, <2>1 DEF InHand, InHands
  <2>3. ~dangling /\ utility.out # "destroyed stream"
    BY <1>1, <2>1, UtilityFacts DEF Balance, TypeOK
  <2>4. Len(taken) = Len(written) + failures + unfit + 1
    BY <1>1, <2>2, <2>3, Zenon DEF Balance, Missing
  <2> DEFINE k == Len(taken)
             n == Len(taken')
             w == Len(written')
             v == Len(written)
  <2>5. n = k /\ w = v /\ v \in Nat /\ k = v + failures + unfit + 1
    BY <1>2, <2>1, <2>4
  <2> HIDE DEF k, n, w, v
  <2>6. n = w + failures' + unfit' + 0
    BY <1>1, <2>1, <2>5
  <2>7. Missing(0)'
    BY <2>6 DEF Missing, n, w
  <2> QED
    BY <2>1, <2>2, <2>3, <2>7 DEF Balance
<1>f. CASE /\ UNCHANGED <<utility, taken, written, failures, unfit, dangling, got>>
           /\ pc' = pc \/ (pc \notin InHands /\ pc' \notin InHands)
           /\ pc \in OnTheWayOut /\ interrupted => pc' \in OnTheWayOut /\ interrupted'
  <2>1. InHand <=> InHand'
    BY <1>f DEF InHand, InHands
  <2> QED
    BY <1>6, <1>f, <2>1
<1> QED
  BY <1>a, <1>b, <1>c, <1>d, <1>e, <1>f, <1>g, OutputFrame

------------------------------------------------------------------------------
(* Signals. *)

\* A signal waits for one output at most: what it interrupts reads no further message.
LEMMA SignalsStep ==
  ASSUME IInv, [Next]_vars
  PROVE  Signals'
<1> USE DEF environmentVars, historyVars, processVars, vars
<1> DEFINE Blocks == pc # "killed" => (blocked <=> pc \in {"write", "written"})
           Pends == pending => pc \in {"write", "written", "killed"}
           Bounded == late \in 0 .. 1 /\ late <= Len(written)
           Last == late = 1 => /\ interrupted \/ pending
                               /\ pc \in {"written", "check", "drop", "outer", "done"}
<1>1. /\ TypeOK /\ Flags /\ Signals
      /\ Blocks /\ Pends /\ Bounded /\ Last
  BY TypesByKind DEF IInv, Signals
<1>2. Blocks' /\ Pends' /\ Bounded' /\ Last' => Signals'
  BY DEF Signals
<1>3. /\ utility.session \in {"none", "connect", "accept"}
      /\ Leave \in {"drop", "done"}
  BY <1>1, UtilityFacts DEF Leave, TypeOK
<1>4. ASSUME UNCHANGED <<late, written>>
      PROVE  Bounded'
  BY <1>1, <1>4
<1> HIDE DEF Bounded
<1>a. CASE Refused \/ SetUp \/ Open
  BY <1>1, <1>2, <1>4, <1>a DEF Refused, SetUp, Open
<1>b. CASE Outer
  BY <1>1, <1>2, <1>3, <1>4, <1>b DEF Outer
<1>c. CASE Connected \/ NotConnected \/ WakeUp
  BY <1>1, <1>2, <1>4, <1>c DEF Connected, NotConnected, WakeUp
<1>d. CASE Drop
  BY <1>1, <1>2, <1>4, <1>d DEF Drop
<1>e. CASE Check
  BY <1>1, <1>2, <1>3, <1>4, <1>e DEF Check
<1>f. CASE Read
  <2>1. /\ pc = "read" /\ pc' = "got"
        /\ UNCHANGED <<interrupted, blocked, pending, late, written>>
    BY <1>1, <1>f, ReadCases
  <2> QED
    BY <1>1, <1>2, <1>4, <2>1
<1>g. CASE Got
  <2>1. pc = "got" /\ UNCHANGED <<blocked, pending, late, written>>
    BY <1>g, GotCases
  <2>2. pc' \in {"drop", "done", "check", "block"}
    BY <1>3, <1>g, GotCases DEF Then, Break
  <2>3. late # 1
    BY <1>1, <2>1
  <2> QED
    BY <1>1, <1>2, <1>4, <2>1, <2>2, <2>3
<1>h. CASE Block
  BY <1>1, <1>2, <1>4, <1>h DEF Block
<1>i. CASE Write
  <2>1. /\ pc = "write" /\ pc' \in {"written", "killed"} /\ UNCHANGED <<interrupted, blocked>>
        /\ \/ /\ pc' = "written"
              /\ written' = Append(written, got) /\ UNCHANGED pending
              /\ late' = IF interrupted \/ pending THEN late + 1 ELSE late
           \/ UNCHANGED <<written, late>>
    BY <1>i, WriteCases DEF Wrote, Failed
  <2>2. late # 1 /\ late = 0 /\ blocked
    BY <1>1, <2>1 DEF Bounded
  <2>3. CASE UNCHANGED <<written, late>>
    BY <1>1, <1>2, <1>4, <2>1, <2>2, <2>3
  <2>4. CASE /\ pc' = "written"
             /\ written' = Append(written, got) /\ UNCHANGED pending
             /\ late' = IF interrupted \/ pending THEN late + 1 ELSE late
    <3>1. late' = 1 => interrupted' \/ pending'
      BY <2>1, <2>2, <2>4
    <3>2. late' \in 0 .. 1
      BY <2>2, <2>4
    <3>3. Len(written') = Len(written) + 1 /\ Len(written) \in Nat
      <4>1. got \in Units /\ written \in Seq(1 .. MaxMessages)
        BY <2>1, TypesByKind, UtilityAssumption DEF IInv, Output, HasGot, Places, Queues
      <4>2. got \in 1 .. MaxMessages
        BY <2>1, <4>1, UtilityAssumption DEF IInv, Output, Units
      <4> QED
        BY <2>4, <4>1, <4>2, AppendProperties
    <3> DEFINE w == Len(written')
               v == Len(written)
    <3>4. w = v + 1 /\ v \in Nat
      BY <3>3
    <3> HIDE DEF w, v
    <3>5. late' <= w
      BY <3>2, <3>4
    <3>6. Bounded'
      BY <3>2, <3>5 DEF w, Bounded
    <3> QED
      BY <1>2, <2>1, <2>2, <2>4, <3>1, <3>6, <1>1
  <2> QED
    BY <2>1, <2>3, <2>4
<1>j. CASE Written
  <2>1. /\ pc = "written" /\ pc' \in {"drop", "check", "done"}
        /\ blocked' = FALSE /\ pending' = FALSE
        /\ interrupted \/ pending => interrupted'
        /\ UNCHANGED <<late, written>>
    BY <1>1, <1>3, <1>j DEF Written, Break, Flags
  <2> QED
    BY <1>1, <1>2, <1>4, <2>1
<1>k. CASE Arrives
  <2>1. UNCHANGED <<pc, interrupted, blocked, pending, late, written>>
    BY <1>k, ArrivesCases
  <2> QED
    BY <1>1, <1>2, <1>4, <2>1
<1>l. CASE PeerLeaves
  <2>1. UNCHANGED <<pc, interrupted, blocked, pending, late, written>>
    BY <1>l, Zenon DEF PeerLeaves
  <2> QED
    BY <1>1, <1>2, <1>4, <2>1
<1>m. CASE Signal
  <2>1. UNCHANGED <<blocked, late, written>>
    BY <1>1, <1>m, SignalCases
  <2>2. \/ /\ pc = "setup" /\ pc' = "killed"
           /\ UNCHANGED <<interrupted, pending>>
        \/ blocked /\ pending' = TRUE /\ UNCHANGED <<pc, interrupted>>
        \/ /\ ~blocked /\ interrupted' = TRUE /\ UNCHANGED pending
           /\ \/ pc' = pc
              \/ pc = "read" /\ pc' = "got"
              \/ pc = "accept" /\ pc' = "done"
              \/ pc \in {"connect", "accept"} /\ pc' = "drop"
              \/ pc = "sleep" /\ pc' = "outer"
    BY <1>1, <1>m, SignalCases
  <2>3. pc # "killed"
    BY <1>1, <1>m, SignalCases
  <2> QED
    BY <1>1, <1>2, <1>4, <2>1, <2>2, <2>3
<1>o. CASE Unfit \/ NotDumped
  <2>1. /\ \/ pc = "got" /\ pc' = "check"
           \/ pc = "write" /\ pc' = "written"
        /\ UNCHANGED <<interrupted, blocked, pending, late, written>>
    BY <1>o, LeftOutCases, Zenon
  <2> QED
    BY <1>1, <1>2, <1>4, <2>1
<1>n. CASE UNCHANGED vars
  BY <1>1, <1>2, <1>4, <1>n
<1> QED
  BY <1>a, <1>b, <1>c, <1>d, <1>e, <1>f, <1>g, <1>h, <1>i, <1>j, <1>k, <1>l, <1>m,
     <1>n, <1>o DEF Next, Runs, Waits

------------------------------------------------------------------------------
(* The cause of an end. *)

\* Only an output sets what is looked at after it.
LEMMA UnsentStep ==
  ASSUME IInv, [Next]_vars
  PROVE  Unsent'
<1> USE DEF environmentVars, historyVars, processVars, vars
<1>1. Unsent /\ TypeOK /\ Signals /\ failures \in Nat
  BY UtilityAssumption DEF IInv, TypeOK
<1>2. /\ utility.session \in {"none", "connect", "accept"}
      /\ Leave \in {"drop", "done"}
  BY <1>1, UtilityFacts DEF Leave, TypeOK
<1>3. pc' = "written" => Write \/ sent' \/ UNCHANGED <<pc, sent, failures>>
  <2>1. CASE Refused \/ SetUp \/ Open
    BY <2>1 DEF Refused, SetUp, Open
  <2>2. CASE Outer \/ Check
    BY <1>2, <2>2 DEF Outer, Check
  <2>3. CASE Connected \/ NotConnected \/ Drop \/ WakeUp \/ Block
    BY <2>3 DEF Connected, NotConnected, Drop, WakeUp, Block
  <2>4. CASE Read
    BY <1>1, <2>4, ReadCases
  <2>5. CASE Got
    BY <1>2, <2>5, GotCases DEF Then
  <2>6. CASE Written
    BY <1>2, <2>6 DEF Written
  <2>7. CASE Arrives \/ PeerLeaves
    BY <2>7, ArrivesCases, Zenon DEF PeerLeaves
  <2>8. CASE Signal
    BY <1>1, <2>8, SignalCases
  <2>9. CASE Unfit \/ NotDumped
    BY <2>9, LeftOutCases
  <2> QED
    BY <2>1, <2>2, <2>3, <2>4, <2>5, <2>6, <2>7, <2>8, <2>9 DEF Next, Runs, Waits
<1>4. Write => sent' = TRUE \/ failures' = failures + 1
  BY WriteCases DEF Wrote, Failed
<1>5. CASE pc' = "written" /\ Write
  BY <1>1, <1>4, <1>5 DEF Unsent
<1>6. CASE UNCHANGED <<pc, sent, failures>>
  BY <1>1, <1>6 DEF Unsent
<1> QED
  BY <1>3, <1>5, <1>6 DEF Unsent

\* What ended the loop, and nothing else, is what the program ends with.
LEMMA CauseStep ==
  ASSUME IInv, [Next]_vars
  PROVE  Cause'
<1> USE DEF environmentVars, historyVars, processVars, vars, Piped, IgnoresPipe
<1> DEFINE Told == /\ interrupted => signalled \/ Piped \/ exit # "none"
                   /\ pending => signalled \/ Piped
           Out == exit # "none" => /\ pc \in {"drop", "outer", "done"}
                                   /\ interrupted \/ pc = "done"
           Ended == exit = "ended" =>
             got = EndOfInput /\ (utility.in = "file" \/ utility = Udp2Sgctp)
           Failure == exit = "error" =>
             \/ CouldNotStart
             \/ got = Malformed /\ (utility.in = "file" \/ utility = Hub2Sgctp)
             \/ failures > 0 /\ utility.session # "connect"
           Early == pc \in {"setup", "open"} => taken = <<>> /\ got = Nothing
           Session == /\ pc \in {"connect", "accept"} => utility.session = pc
                      /\ pc \in {"outer", "drop", "sleep"} => HasSession
           Why == pc = "done" =>
             signalled \/ Piped \/ exit # "none" \/ deaf
<1>1. /\ TypeOK /\ Signals
      /\ Told /\ Out /\ Ended /\ Failure /\ Early /\ Session /\ Why
  BY DEF IInv, Cause
<1>2. Told' /\ Out' /\ Ended' /\ Failure' /\ Early' /\ Session' /\ Why' => Cause'
  BY DEF Cause
<1>3. /\ utility.session \in {"none", "connect", "accept"}
      /\ HasSession => Leave = "drop"
      /\ ~HasSession => Leave = "done"
  BY <1>1, UtilityFacts DEF Leave, TypeOK
<1>4. exit \in {"none", "ended", "error"} /\ failures \in Nat
  BY <1>1, UtilityAssumption DEF TypeOK
\* A step that sets no exit and takes no message, between places that are none of the
\* first.
<1>5. ASSUME UNCHANGED <<utility, exit, taken, failures>>,
             got' = got \/ exit = "none",
             pc # "done" \/ pc' = pc,
             exit # "none" => pc' \in {"drop", "outer", "done"} /\ (interrupted' \/ pc' = "done"),
             pc' \notin {"setup", "open"} \/ (pc' = pc /\ got' = got),
             Told', Session', Why'
      PROVE  Cause'
  <2>1. Out'
    BY <1>5
  <2>2. Ended'
    BY <1>1, <1>5
  <2>3. Early'
    BY <1>1, <1>5
  <2>4. CASE exit = "error"
    <3>1. got' = got
      BY <1>5, <2>4
    <3>2. CASE CouldNotStart
      <4>1. CouldNotStart'
        BY <1>5, <3>1, <3>2 DEF CouldNotStart
      <4> QED
        BY <1>2, <1>5, <2>1, <2>2, <2>3, <4>1
    <3> QED
      BY <1>1, <1>2, <1>5, <2>1, <2>2, <2>3, <2>4, <3>1, <3>2
  <2>5. CASE exit # "error"
    BY <1>2, <1>5, <2>1, <2>2, <2>3, <2>5
  <2> QED
    BY <2>4, <2>5
\* A step that ends the loop.
<1>6. ASSUME UNCHANGED <<utility, got, failures, taken>>,
             pc \notin {"drop", "outer", "done"}, interrupted' = TRUE,
             pc' \in {"drop", "done"}, pc' = "drop" => HasSession,
             exit' \in {"ended", "error"}, pending' => signalled' \/ Piped',
             Ended', Failure'
      PROVE  Cause'
  BY <1>2, <1>6 DEF HasSession
<1>a. CASE Refused
  <2>1. CouldNotStart'
    BY <1>1, <1>a DEF Refused, CouldNotStart
  <2> QED
    BY <1>1, <1>2, <1>a, <2>1 DEF Refused
<1>b. CASE SetUp
  BY <1>1, <1>2, <1>b DEF SetUp
<1>c. CASE Open
  <2>1. CASE pc' = "done" /\ Break("error")
    <3>1. CouldNotStart'
      BY <1>1, <1>c, <2>1 DEF Open, CouldNotStart
    <3> QED
      BY <1>1, <1>2, <1>c, <2>1, <3>1 DEF Open, Break
  <2>2. CASE pc' = (IF HasSession THEN "outer" ELSE "check") /\ UNCHANGED <<interrupted, exit>>
    BY <1>1, <1>2, <1>c, <2>2 DEF Open, HasSession
  <2> QED
    BY <1>c, <2>1, <2>2 DEF Open
<1>d. CASE Outer
  <2>1. /\ pc = "outer" /\ pc' = IF interrupted THEN "done" ELSE utility.session
        /\ UNCHANGED <<utility, interrupted, pending, got, exit, signalled, broken,
                       taken, failures>>
    BY <1>d DEF Outer
  <2>2. utility.session \in {"connect", "accept"}
    BY <1>1, <1>3, <2>1 DEF HasSession
  <2> QED
    BY <1>1, <1>5, <2>1, <2>2
<1>e. CASE Connected \/ WakeUp
  <2>1. /\ \/ pc \in {"connect", "accept"} /\ pc' = "check"
           \/ pc = "sleep" /\ pc' = "outer"
        /\ UNCHANGED <<utility, interrupted, pending, got, exit, signalled, broken,
                       taken, failures>>
    BY <1>e DEF Connected, WakeUp
  <2> QED
    BY <1>1, <1>5, <2>1 DEF HasSession
<1>f. CASE NotConnected
  <2>1. /\ pc \in {"connect", "accept"} /\ (pc' = "drop" \/ (pc = "accept" /\ pc' = "done"))
        /\ UNCHANGED <<utility, pending, got, exit, signalled, taken, failures>>
        /\ \/ pc' = "drop" /\ UNCHANGED <<interrupted, broken>>
           \/ /\ pc' = "drop" /\ broken' = TRUE
              /\ interrupted' = (interrupted \/ ~IgnoresPipe)
           \/ deaf' = TRUE /\ UNCHANGED <<interrupted, broken>>
    BY <1>f, Zenon DEF NotConnected
  <2>2. utility.session = pc /\ HasSession
    BY <1>1, <2>1 DEF HasSession
  <2>3. Told'
    <3>1. (signalled \/ Piped \/ exit # "none") =>
             (signalled \/ Piped \/ exit # "none")'
      BY <2>1
    <3>2. signalled \/ Piped => (signalled \/ Piped)'
      BY <2>1
    <3>3. interrupted' => interrupted \/ Piped'
      BY <2>1
    <3> QED
      BY <1>1, <2>1, <3>1, <3>2, <3>3, Zenon
  <2>4. Session' /\ Why'
    BY <1>1, <2>1, <2>2 DEF HasSession
  <2> QED
    BY <1>1, <1>5, <2>1, <2>3, <2>4
<1>g. CASE Drop
  <2>1. /\ pc = "drop" /\ pc' \in {"sleep", "outer"}
        /\ interrupted => pc' = "outer"
        /\ UNCHANGED <<utility, interrupted, pending, got, exit, signalled, broken,
                       taken, failures>>
    BY <1>g DEF Drop
  <2>2. exit # "none" => interrupted
    BY <1>1, <2>1
  <2> QED
    BY <1>1, <1>5, <2>1, <2>2 DEF HasSession
<1>h. CASE Check
  <2>1. /\ pc = "check" /\ pc' = IF interrupted THEN Leave ELSE "read"
        /\ UNCHANGED <<utility, interrupted, pending, got, exit, signalled, broken,
                       taken, failures>>
    BY <1>h DEF Check
  <2> QED
    BY <1>1, <1>3, <1>5, <2>1 DEF HasSession
<1>i. CASE Read
  <2>1. /\ pc = "read" /\ pc' = "got" /\ failures' = failures
        /\ UNCHANGED <<utility, interrupted, pending, exit, signalled, broken>>
    BY <1>1, <1>i, ReadCases
  <2>2. exit = "none" /\ exit' = "none"
    BY <1>1, <2>1
  <2> QED
    BY <1>1, <1>2, <2>1, <2>2
<1>j. CASE Got
  <2>1. /\ pc = "got" /\ pc' \in {"drop", "done", "check", "block"}
        /\ UNCHANGED <<utility, got, pending, signalled, broken, taken, failures>>
    BY <1>3, <1>j, GotCases DEF Then, Break
  <2>2. exit = "none"
    BY <1>1, <2>1
  <2>3. CASE interrupted /\ pc' = Leave /\ UNCHANGED <<interrupted, exit>>
    BY <1>1, <1>3, <1>5, <2>1, <2>2, <2>3 DEF HasSession
  <2>4. CASE ~interrupted /\ got = EndOfInput /\ Then(utility.ended, "ended")
    <3>1. CASE utility.ended = "stop"
      <4>1. pc' = Leave /\ interrupted' = TRUE /\ exit' = "ended"
        BY <2>4, <3>1 DEF Then, Break
      <4>2. utility.in = "file" \/ utility = Udp2Sgctp
        BY <1>1, <3>1, UtilityFacts DEF TypeOK
      <4>3. Ended' /\ Failure' /\ (pc' = "drop" => HasSession)
        BY <1>3, <2>1, <2>4, <4>1, <4>2
      <4> QED
        BY <1>1, <1>3, <1>6, <2>1, <4>1, <4>3
    <3>2. CASE utility.ended # "stop"
      <4>1. pc' \in {"drop", "check"} /\ UNCHANGED <<interrupted, exit>>
            /\ (pc' = "drop" => utility.ended = "drop")
        BY <2>4, <3>2 DEF Then
      <4>2. pc' = "drop" => HasSession
        BY <1>1, <4>1, UtilityFacts DEF TypeOK
      <4> QED
        BY <1>1, <1>5, <2>1, <2>2, <4>1, <4>2 DEF HasSession
    <3> QED
      BY <3>1, <3>2
  <2>5. CASE ~interrupted /\ got = Malformed /\ Then(utility.failed, "error")
    <3>1. CASE utility.failed = "stop"
      <4>1. pc' = Leave /\ interrupted' = TRUE /\ exit' = "error"
        BY <2>5, <3>1 DEF Then, Break
      <4>2. utility.in = "file" \/ utility = Hub2Sgctp
        BY <1>1, <3>1, UtilityFacts DEF TypeOK
      <4>3. Ended' /\ Failure' /\ (pc' = "drop" => HasSession)
        BY <1>3, <2>1, <2>5, <4>1, <4>2
      <4> QED
        BY <1>1, <1>3, <1>6, <2>1, <4>1, <4>3
    <3>2. CASE utility.failed # "stop"
      <4>1. pc' \in {"drop", "check"} /\ UNCHANGED <<interrupted, exit>>
            /\ (pc' = "drop" => utility.failed = "drop")
        BY <2>5, <3>2 DEF Then
      <4>2. pc' = "drop" => HasSession
        BY <1>1, <4>1, UtilityFacts DEF TypeOK
      <4> QED
        BY <1>1, <1>5, <2>1, <2>2, <4>1, <4>2 DEF HasSession
    <3> QED
      BY <3>1, <3>2
  <2>6. CASE pc' = "block" /\ UNCHANGED <<interrupted, exit>>
    BY <1>1, <1>5, <2>1, <2>2, <2>6
  <2> QED
    BY <1>j, <2>3, <2>4, <2>5, <2>6, GotCases
<1>k. CASE Block
  BY <1>1, <1>5, <1>k DEF Block
<1>l. CASE Write
  <2>1. /\ pc = "write" /\ pc' \in {"written", "killed"}
        /\ UNCHANGED <<utility, interrupted, got, exit, signalled, taken>>
        /\ \/ UNCHANGED <<pending, broken>>
           \/ broken' = TRUE /\ pending' = (pending \/ ~IgnoresPipe)
    BY <1>l, WriteCases DEF Wrote, Failed
  <2>2. exit = "none"
    BY <1>1, <2>1
  <2>3. Told'
    <3>1. (signalled \/ Piped \/ exit # "none") =>
             (signalled \/ Piped \/ exit # "none")'
      BY <2>1
    <3>2. signalled \/ Piped => (signalled \/ Piped)'
      BY <2>1
    <3>3. pending' => pending \/ Piped'
      BY <2>1
    <3> QED
      BY <1>1, <2>1, <3>1, <3>2, <3>3, Zenon
  <2>4. Out' /\ Ended' /\ Failure' /\ Early' /\ Session' /\ Why'
    BY <1>1, <2>1, <2>2
  <2> QED
    BY <1>2, <2>3, <2>4
<1>m. CASE Written
  <2>1. /\ pc = "written" /\ pending' = FALSE
        /\ UNCHANGED <<utility, got, signalled, broken, taken, failures>>
    BY <1>m DEF Written
  <2>2. exit = "none"
    BY <1>1, <2>1
  <2>3. CASE sent \/ utility.unsent # "stop"
    <3>1. /\ interrupted' = (interrupted \/ pending) /\ exit' = exit
          /\ pc' = IF ~sent /\ utility.unsent = "drop" THEN "drop" ELSE "check"
      BY <1>m, <2>3 DEF Written
    <3>2. pc' = "drop" => HasSession
      BY <1>1, <3>1, UtilityFacts DEF TypeOK
    <3> QED
      BY <1>1, <1>5, <2>1, <2>2, <3>1, <3>2 DEF HasSession
  <2>4. CASE ~(sent \/ utility.unsent # "stop")
    <3>1. interrupted' = TRUE /\ exit' = "error" /\ pc' = Leave
      BY <1>m, <2>4 DEF Written, Break
    <3>2. utility.session # "connect" /\ failures > 0
      BY <1>1, <2>1, <2>4, UtilityFacts DEF TypeOK, IInv, Unsent
    <3>3. Ended' /\ Failure' /\ (pc' = "drop" => HasSession)
      BY <1>3, <2>1, <3>1, <3>2
    <3> QED
      BY <1>3, <1>6, <2>1, <3>1, <3>3
  <2> QED
    BY <2>3, <2>4
<1>n. CASE Arrives \/ PeerLeaves
  <2>1. UNCHANGED <<utility, pc, interrupted, pending, got, exit, signalled, broken,
                    taken, failures, deaf>>
    BY <1>n, ArrivesCases, Zenon DEF PeerLeaves
  <2> QED
    BY <1>1, <1>5, <2>1 DEF HasSession
<1>o. CASE Signal
  <2>1. /\ UNCHANGED <<utility, exit, broken, taken, failures>> /\ signalled' = TRUE
        /\ pc \notin {"done", "killed"}
        /\ \/ /\ pc = "setup" /\ pc' = "killed"
              /\ UNCHANGED <<interrupted, pending, got>>
           \/ /\ UNCHANGED <<pc, interrupted, got>>
           \/ /\ interrupted' = TRUE
              /\ \/ pc' = pc /\ UNCHANGED got
                 \/ pc = "read" /\ pc' = "got"
                 \/ pc = "accept" /\ pc' = "done" /\ UNCHANGED got
                 \/ pc \in {"connect", "accept"} /\ pc' = "drop" /\ UNCHANGED got
                 \/ pc = "sleep" /\ pc' = "outer" /\ UNCHANGED got
    BY <1>1, <1>o, SignalCases
  <2> QED
    BY <1>1, <1>5, <2>1 DEF HasSession
<1>q. CASE Unfit \/ NotDumped
  <2>1. /\ \/ pc = "got" /\ pc' = "check"
           \/ pc = "write" /\ pc' = "written"
        /\ UNCHANGED <<utility, interrupted, pending, got, exit, signalled, broken,
                       taken, failures, deaf>>
    BY <1>q, LeftOutCases, Zenon
  <2>2. exit = "none"
    BY <1>1, <2>1
  <2> QED
    BY <1>1, <1>5, <2>1, <2>2
<1>p. CASE UNCHANGED vars
  BY <1>1, <1>5, <1>p DEF HasSession
<1> QED
  BY <1>a, <1>b, <1>c, <1>d, <1>e, <1>f, <1>g, <1>h, <1>i, <1>j, <1>k, <1>l, <1>m,
     <1>n, <1>o, <1>p, <1>q DEF Next, Runs, Waits

------------------------------------------------------------------------------
(* The theorems. *)

\* The invariant holds at first, and every step keeps it.
THEOREM UtilityInvariant == Spec => []IInv
<1>1. Init => IInv
  <2> SUFFICES ASSUME Init
               PROVE  IInv
    OBVIOUS
  <2>1. Places /\ Flags /\ Counts
    <3>1. Places /\ Flags
      BY DEF Init, Places, Flags
    <3>2. 0 \in 0 .. MaxMessages
      BY UtilityAssumption
    <3>3. Counts
      BY <3>2 DEF Init, Counts
    <3> QED
      BY <3>1, <3>3
  <2>2. Queues
    BY EmptySeq DEF Init, Queues
  <2>3. TypeOK
    BY <2>1, <2>2, TypesByKind
  <2>4. Len(taken) = 0 /\ Len(written) = 0 /\ Len(waiting) = 0
    BY EmptySeq DEF Init
  <2>5. Input /\ Output
    BY <2>4 DEF Init, Input, Output, Increasing, HasGot
  <2>6. Balance
    <3>1. ~InHand
      BY DEF Init, InHand
    <3>2. Missing(0)
      <4>1. failures = 0 /\ unfit = 0
        BY DEF Init
      <4> QED
        BY <2>4, <4>1 DEF Missing
    <3>3. ~(unfit > 0)
      BY DEF Init
    <3> QED
      BY <3>1, <3>2, <3>3 DEF Init, Balance
  <2>7. Signals
    BY <2>4 DEF Init, Signals
  <2>8. Unsent /\ Cause
    BY DEF Init, Unsent, Cause
  <2> QED
    BY <2>3, <2>5, <2>6, <2>7, <2>8 DEF IInv
<1>2. IInv /\ [Next]_vars => IInv'
  BY TypeStep, InputStep, OutputStep, BalanceStep, SignalsStep, UnsentStep, CauseStep DEF IInv
<1> QED
  BY <1>1, <1>2, PTL DEF Spec

\* A sequence that increases ascends from each of its members to the next.
LEMMA IncreasingAscends ==
  ASSUME NEW s, Len(s) \in Nat, Increasing(s)
  PROVE  Ascending(s)
<1> DEFINE n == Len(s)
<1>1. \A i, j \in 1 .. n : i < j => s[i] < s[j]
  BY DEF Increasing
<1>2. n \in Nat
  OBVIOUS
<1> HIDE DEF n
<1>3. ASSUME NEW i \in 2 .. n
      PROVE  s[i - 1] < s[i]
  <2>1. i \in 1 .. n /\ i - 1 \in 1 .. n /\ i - 1 < i
    BY <1>2
  <2> QED
    BY <1>1, <2>1
<1> QED
  BY <1>3 DEF Ascending, n

\* Whatever becomes of a signal, of an output or of a connection, what was read and
\* not written is a message the output failed on, one left out by sgctpfilter or
\* sgctp2gpx, or one alone: the one in hand, or the one read when the utility was interrupted.
THEOREM UtilityAccounted == Spec => []Accounted
<1>1. IInv => Accounted
  <2> SUFFICES ASSUME IInv
               PROVE  Accounted
    OBVIOUS
  <2>1. /\ taken \in Seq(1 .. MaxMessages) /\ written \in Seq(1 .. MaxMessages)
        /\ failures \in Nat /\ unfit \in Nat /\ TypeOK /\ Balance
    BY TypesByKind, UtilityAssumption DEF IInv, Queues, Counts
  <2>2. /\ Len(taken) \in Nat /\ Len(written) \in Nat
        /\ DOMAIN taken = 1 .. Len(taken) /\ DOMAIN written = 1 .. Len(written)
    BY <2>1, LenProperties
  <2>3. Ascending(taken) /\ Ascending(written)
    BY <2>2, IncreasingAscends DEF IInv, Input, Output
  <2>4. \A i \in DOMAIN written : \E j \in DOMAIN taken : taken[j] = written[i]
    BY <2>2 DEF IInv, Output
  <2>5. ASSUME ~dangling
        PROVE  Len(taken) - Len(written) - failures - unfit \in
                 0 .. (IF InHand \/ interrupted THEN 1 ELSE 0)
    <3>1. \/ Len(taken) = Len(written) + failures + unfit + 0
          \/ Len(taken) = Len(written) + failures + unfit + 1 /\ (InHand \/ interrupted)
      BY <2>1, <2>5, Zenon DEF Balance, Missing
    <3> DEFINE t == Len(taken)
               w == Len(written)
    <3>2. \/ t = w + failures + unfit + 0
          \/ t = w + failures + unfit + 1 /\ (InHand \/ interrupted)
      BY <3>1
    <3>3. t \in Nat /\ w \in Nat
      BY <2>2
    <3> HIDE DEF t, w
    <3>4. t - w - failures - unfit \in 0 .. (IF InHand \/ interrupted THEN 1 ELSE 0)
      BY <2>1, <3>2, <3>3
    <3> QED
      BY <3>4 DEF t, w
  <2>6. unfit > 0 => utility \in {SgctpFilter, Sgctp2Gpx}
    BY <2>1, UtilityFacts DEF Balance, TypeOK
  <2> QED
    BY <2>1, <2>3, <2>4, <2>5, <2>6 DEF Accounted
<1> QED
  BY <1>1, UtilityInvariant, PTL

\* A signal is looked at before the next message is read.
THEOREM UtilityOneAfterSignal == Spec => []OneAfterSignal
<1>1. IInv => OneAfterSignal
  BY DEF IInv, Signals, OneAfterSignal
<1> QED
  BY <1>1, UtilityInvariant, PTL

\* A utility that is done was told to be, or ended with its input or its output, or
\* could not start or accept(); SIGPIPE ends all but sgctp2tcp.
THEOREM UtilityEndsForCause == Spec => []EndsForCause
<1>1. IInv => EndsForCause
  <2> SUFFICES ASSUME IInv, pc = "done"
               PROVE  \/ signalled \/ deaf
                      \/ broken /\ utility # Sgctp2Tcp
                      \/ exit = "error" /\ taken = <<>> /\ got = Nothing
                      \/ exit = "ended" /\ got = EndOfInput /\ utility.in = "file"
                      \/ exit = "ended" /\ got = EndOfInput /\ utility = Udp2Sgctp
                      \/ exit = "error" /\ got = Malformed /\ utility.in = "file"
                      \/ exit = "error" /\ got = Malformed /\ utility = Hub2Sgctp
                      \/ exit = "error" /\ failures > 0 /\ utility.session # "connect"
    BY DEF EndsForCause
  <2>1. exit \in {"none", "ended", "error"} /\ Cause
    BY DEF IInv, TypeOK
  <2>2. signalled \/ Piped \/ exit # "none" \/ deaf
    BY <2>1 DEF Cause
  <2>3. CASE exit = "ended"
    BY <2>1, <2>3 DEF Cause
  <2>4. CASE exit = "error"
    BY <2>1, <2>4 DEF Cause, CouldNotStart
  <2> QED
    BY <2>1, <2>2, <2>3, <2>4 DEF Piped, IgnoresPipe
<1> QED
  BY <1>1, UtilityInvariant, PTL

==============================================================================
