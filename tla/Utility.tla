------------------------------- MODULE Utility -------------------------------
(***************************************************************************)
(* A utility that takes course data from one place to another: the bridges *)
(* between a file, UDP and TCP, the filter and the dumpers (src/utils, all  *)
(* but the hub and the converters). They share the skeleton's start-up and *)
(* signal handling, and the shape of their loop; each has its own idea of  *)
(* what an end of input, a message that does not parse or a failed output  *)
(* means.                                                                  *)
(*                                                                         *)
(* A message is its number, in the order of the input. Signals come at any *)
(* step: the handler only raises a flag, and a call that waits returns     *)
(* EINTR; one that is about to wait does not notice.                       *)
(***************************************************************************)
EXTENDS Integers, Sequences

CONSTANTS
  MaxMessages,   \* bound of the model: messages the input brings
  MaxWaiting,    \* bound of the model: units the input holds
  EndOfInput,    \* unserialize() returns 0: end of file, connection closed
  Malformed,     \* unserialize() fails: bad message, connection reset
  Nothing        \* no unit read

ASSUME UtilityAssumption ==
  /\ MaxMessages \in Nat /\ MaxWaiting \in Nat
  /\ EndOfInput \notin Nat /\ Malformed \notin Nat /\ Nothing \notin Nat
  /\ EndOfInput # Malformed /\ Nothing \notin {EndOfInput, Malformed}

VARIABLES
  utility,       \* which one
  pc,            \* where exec() is
  interrupted,   \* SGCTP_INTERRUPTED
  blocked,       \* sigBlock() is in force
  pending,       \* a signal the handler heeds waits for sigUnblock()
  waiting,       \* the units the input holds
  got,           \* what unserialize() returned
  sent,          \* whether serialize() succeeded
  peer,          \* whether the output's other end is there
  exit,          \* __iExit, once something set it
  signalled,     \* history: SIGINT or SIGTERM was sent
  broken,        \* history: SIGPIPE was sent
  brought,       \* history: messages the input brought so far
  taken,         \* history: messages unserialize() returned
  written,       \* history: messages serialize() wrote
  failures,      \* history: messages serialize() failed to write
  unfit,         \* history: messages the utility leaves out by design
  late,          \* history: messages written since a signal was handled
  dangling,      \* history: written to a stream that is gone
  deaf           \* history: accept() failed by itself

processVars == <<utility, pc, interrupted, blocked, pending, got, sent, exit>>
environmentVars == <<waiting, peer, brought>>
historyVars == <<signalled, broken, taken, written, failures, unfit, late,
                 dangling, deaf>>
vars == <<processVars, environmentVars, historyVars>>

------------------------------------------------------------------------------
(* The utilities: where they read and write, and what their loop does when  *)
(* the input ends (unserialize 0), when it fails (below 0) and when the     *)
(* output fails. "stop" ends the program, "drop" the connection, "next"     *)
(* goes on with the next message. What it passes on is all it reads, what    *)
(* fits the filter, or what has a position.                                 *)

Sgctp2Tcp == [in |-> "file", out |-> "connection", session |-> "connect",
              ended |-> "stop", failed |-> "stop", unsent |-> "drop", passes |-> "all"]
Hub2Sgctp == [in |-> "connection", out |-> "file", session |-> "connect",
              ended |-> "drop", failed |-> "stop", unsent |-> "drop", passes |-> "all"]
Tcp2Sgctp == [in |-> "connection", out |-> "file", session |-> "accept",
              ended |-> "drop", failed |-> "drop", unsent |-> "stop", passes |-> "all"]
Sgctp2Udp == [in |-> "file", out |-> "datagrams", session |-> "none",
              ended |-> "stop", failed |-> "stop", unsent |-> "next", passes |-> "all"]
Udp2Sgctp == [in |-> "datagrams", out |-> "file", session |-> "none",
              ended |-> "stop", failed |-> "next", unsent |-> "stop", passes |-> "all"]
SgctpFilter == [in |-> "file", out |-> "file", session |-> "none",
                ended |-> "stop", failed |-> "stop", unsent |-> "stop", passes |-> "fit"]
Sgctp2Dsv == [in |-> "file", out |-> "stream", session |-> "none",
              ended |-> "stop", failed |-> "stop", unsent |-> "next", passes |-> "all"]
Sgctp2Xml == Sgctp2Dsv
Sgctp2Gpx == [Sgctp2Dsv EXCEPT !.passes = "positions"]
\* A dumper with "-o": its stream is destroyed before the loop begins.
ToFile(dumper) == [dumper EXCEPT !.out = "destroyed stream"]

Utilities ==
  {Sgctp2Tcp, Hub2Sgctp, Tcp2Sgctp, Sgctp2Udp, Udp2Sgctp, SgctpFilter,
   Sgctp2Dsv, Sgctp2Xml, Sgctp2Gpx, ToFile(Sgctp2Dsv)}

HasSession == utility.session # "none"

\* Faulty variant, for the mutants of the runs: one handler for all signals.
IgnoresPipeNever == FALSE

\* interrupt(): sgctp2tcp's returns at once on SIGPIPE, the others' raise the flag.
IgnoresPipe == utility = Sgctp2Tcp

------------------------------------------------------------------------------
(* Initial state. *)

Init ==
  /\ utility \in Utilities
  /\ pc = "setup"
  /\ interrupted = FALSE /\ blocked = FALSE /\ pending = FALSE
  /\ waiting = <<>> /\ got = Nothing /\ sent = FALSE /\ peer = TRUE
  /\ exit = "none"
  /\ signalled = FALSE /\ broken = FALSE
  /\ brought = 0 /\ taken = <<>> /\ written = <<>> /\ failures = 0 /\ unfit = 0
  /\ late = 0 /\ dangling = FALSE /\ deaf = FALSE

\* SGCTP_BREAK: the loop's own interruption.
Break(code) == interrupted' = TRUE /\ exit' = code

------------------------------------------------------------------------------
(* Start-up. *)

\* principalLookup(), transmitInit() and the checks of a daemon's paths: each
\* returns from exec().
Refused ==
  /\ pc = "setup"
  /\ pc' = "done" /\ exit' = "error"
  /\ UNCHANGED <<utility, interrupted, blocked, pending, got, sent>>
  /\ UNCHANGED <<environmentVars, historyVars>>

\* daemonStart(), whatever it returns, and sigCatch().
SetUp ==
  /\ pc = "setup"
  /\ pc' = "open"
  /\ UNCHANGED <<utility, interrupted, blocked, pending, got, sent, exit>>
  /\ UNCHANGED <<environmentVars, historyVars>>

\* The input and the output, in either order: a failure is an SGCTP_BREAK.
Open ==
  /\ pc = "open"
  /\ \/ pc' = (IF HasSession THEN "outer" ELSE "check") /\ UNCHANGED <<interrupted, exit>>
     \/ pc' = "done" /\ Break("error")
  /\ UNCHANGED <<utility, blocked, pending, got, sent>>
  /\ UNCHANGED <<environmentVars, historyVars>>

------------------------------------------------------------------------------
(* The connections of sgctp2tcp, hub2sgctp and tcp2sgctp. *)

\* Faulty variant: the flag is not looked at between connections.
OuterUnchecked ==
  /\ pc = "outer"
  /\ pc' = utility.session
  /\ UNCHANGED <<utility, interrupted, blocked, pending, got, sent, exit>>
  /\ UNCHANGED <<environmentVars, historyVars>>

Outer ==
  /\ pc = "outer"
  /\ pc' = IF interrupted THEN "done" ELSE utility.session
  /\ UNCHANGED <<utility, interrupted, blocked, pending, got, sent, exit>>
  /\ UNCHANGED <<environmentVars, historyVars>>

\* A connection and its handshake (the filter and the start of the feed too,
\* for hub2sgctp): the connection is a new one, its input is empty.
Connected ==
  /\ pc \in {"connect", "accept"}
  /\ pc' = "check"
  /\ peer' = TRUE
  /\ waiting' = IF utility.in = "connection" THEN <<>> ELSE waiting
  /\ UNCHANGED <<utility, interrupted, blocked, pending, got, sent, exit, brought>>
  /\ UNCHANGED historyVars

\* What the handshake, the filter or the start of the feed is sent to may have
\* gone: signals are not blocked here, the handler of SIGPIPE runs at once.
NotConnected ==
  /\ pc \in {"connect", "accept"}
  /\ \/ pc' = "drop" /\ UNCHANGED <<interrupted, broken, deaf>>
     \/ /\ pc' = "drop" /\ broken' = TRUE /\ UNCHANGED deaf
        /\ interrupted' = (interrupted \/ ~IgnoresPipe)
     \/ /\ pc = "accept"                     \* accept() itself fails
        /\ pc' = "done" /\ deaf' = TRUE /\ UNCHANGED <<interrupted, broken>>
  /\ UNCHANGED <<utility, blocked, pending, got, sent, exit>>
  /\ UNCHANGED <<environmentVars, signalled, taken, written, failures, unfit, late,
                 dangling>>

\* Close the connection, free the buffers; sgctp2tcp and hub2sgctp sleep
\* before they try again.
Drop ==
  /\ pc = "drop"
  /\ pc' = IF utility.session = "connect" /\ ~interrupted THEN "sleep" ELSE "outer"
  /\ UNCHANGED <<utility, interrupted, blocked, pending, got, sent, exit>>
  /\ UNCHANGED <<environmentVars, historyVars>>

WakeUp ==
  /\ pc = "sleep"
  /\ pc' = "outer"
  /\ UNCHANGED <<utility, interrupted, blocked, pending, got, sent, exit>>
  /\ UNCHANGED <<environmentVars, historyVars>>

------------------------------------------------------------------------------
(* The loop. *)

LoopStates == {"check", "read", "got", "block", "write", "written"}
Leave == IF HasSession THEN "drop" ELSE "done"

Check ==
  /\ pc = "check"
  /\ pc' = IF interrupted THEN Leave ELSE "read"
  /\ UNCHANGED <<utility, interrupted, blocked, pending, got, sent, exit>>
  /\ UNCHANGED <<environmentVars, historyVars>>

\* unserialize() waits for a unit of the input.
Read ==
  /\ pc = "read" /\ waiting # <<>>
  /\ pc' = "got"
  /\ got' = Head(waiting)
  \* The end of an input is still there for the next read.
  /\ waiting' = IF Head(waiting) = EndOfInput /\ utility.in # "datagrams"
                THEN waiting ELSE Tail(waiting)
  /\ taken' = IF got' \in Nat THEN Append(taken, got') ELSE taken
  /\ UNCHANGED <<utility, interrupted, blocked, pending, sent, exit, peer, brought>>
  /\ UNCHANGED <<signalled, broken, written, failures, unfit, late, dangling, deaf>>

\* What an outcome leads to.
Then(outcome, code) ==
  \/ outcome = "stop" /\ Break(code) /\ pc' = Leave
  \/ outcome = "drop" /\ pc' = "drop" /\ UNCHANGED <<interrupted, exit>>
  \/ outcome = "next" /\ pc' = "check" /\ UNCHANGED <<interrupted, exit>>

\* Faulty variant: only the end of the input is looked at.
GotAnything ==
  /\ pc = "got"
  /\ IF interrupted THEN pc' = Leave /\ UNCHANGED <<interrupted, exit>> ELSE
     IF got = EndOfInput THEN Then(utility.ended, "ended")
     ELSE pc' = "block" /\ UNCHANGED <<interrupted, exit>>
  /\ UNCHANGED <<utility, blocked, pending, got, sent>>
  /\ UNCHANGED <<environmentVars, historyVars>>

\* The flag is looked at before what was read.
Got ==
  /\ pc = "got"
  /\ IF interrupted THEN pc' = Leave /\ UNCHANGED <<interrupted, exit>>
     ELSE CASE got = EndOfInput -> Then(utility.ended, "ended")
            [] got = Malformed -> Then(utility.failed, "error")
            [] OTHER -> pc' = "block" /\ UNCHANGED <<interrupted, exit>>
  /\ UNCHANGED <<utility, blocked, pending, got, sent>>
  /\ UNCHANGED <<environmentVars, historyVars>>

\* sgctpfilter goes on when the ID, a limit, the throttle or the threshold
\* excludes the message.
Unfit ==
  /\ pc = "got" /\ ~interrupted /\ got \notin {EndOfInput, Malformed}
  /\ utility.passes = "fit"
  /\ pc' = "check" /\ unfit' = unfit + 1
  /\ UNCHANGED <<utility, interrupted, blocked, pending, got, sent, exit>>
  /\ UNCHANGED <<environmentVars, signalled, broken, taken, written, failures, late,
                 dangling, deaf>>

\* sigBlock().
Block ==
  /\ pc = "block"
  /\ pc' = "write" /\ blocked' = TRUE
  /\ UNCHANGED <<utility, interrupted, pending, got, sent, exit>>
  /\ UNCHANGED <<environmentVars, historyVars>>

Wrote ==
  /\ written' = Append(written, got)
  /\ late' = IF interrupted \/ pending THEN late + 1 ELSE late
  /\ sent' = TRUE
  /\ UNCHANGED <<failures, broken, pending>>

\* A connection reset, a full disk, an unreachable host; a peer that is gone
\* makes the kernel send SIGPIPE.
Failed ==
  /\ failures' = failures + 1
  /\ sent' = FALSE
  /\ \/ UNCHANGED <<pending, broken>>
     \/ ~peer /\ broken' = TRUE /\ pending' = (pending \/ ~IgnoresPipe)
  /\ UNCHANGED <<written, late>>

\* serialize(), signals blocked. Bytes a connection takes may still be lost
\* with it. A stream that is destroyed takes nothing, or the program down.
Write ==
  /\ pc = "write"
  /\ \/ /\ utility.out # "destroyed stream"
        /\ Wrote \/ Failed
        /\ pc' = "written" /\ UNCHANGED dangling
     \/ /\ utility.out = "destroyed stream"
        /\ dangling' = TRUE
        /\ sent' = TRUE
        /\ pc' \in {"written", "killed"}
        /\ UNCHANGED <<written, late, failures, broken, pending>>
  /\ UNCHANGED <<utility, interrupted, blocked, got, exit>>
  /\ UNCHANGED <<environmentVars, signalled, taken, unfit, deaf>>

\* dumpGPX() returns without a word when there is no position.
NotDumped ==
  /\ pc = "write" /\ utility.passes = "positions"
  /\ pc' = "written" /\ sent' = TRUE /\ unfit' = unfit + 1
  /\ UNCHANGED <<utility, interrupted, blocked, pending, got, exit>>
  /\ UNCHANGED <<environmentVars, signalled, broken, taken, written, failures, late,
                 dangling, deaf>>

\* Faulty variant: no sigUnblock().
WrittenBlocked ==
  /\ pc = "written"
  /\ IF sent \/ utility.unsent # "stop"
     THEN /\ pc' = IF ~sent /\ utility.unsent = "drop" THEN "drop" ELSE "check"
          /\ UNCHANGED <<interrupted, exit>>
     ELSE Break("error") /\ pc' = Leave
  /\ UNCHANGED <<utility, blocked, pending, got, sent>>
  /\ UNCHANGED <<environmentVars, historyVars>>

\* sigUnblock() runs the handler of a signal that came in the meantime, and
\* only then is the result looked at.
Written ==
  /\ pc = "written"
  /\ blocked' = FALSE /\ pending' = FALSE
  /\ IF sent \/ utility.unsent # "stop"
     THEN /\ interrupted' = (interrupted \/ pending)
          /\ pc' = IF ~sent /\ utility.unsent = "drop" THEN "drop" ELSE "check"
          /\ UNCHANGED exit
     ELSE Break("error") /\ pc' = Leave
  /\ UNCHANGED <<utility, got, sent>>
  /\ UNCHANGED <<environmentVars, historyVars>>

------------------------------------------------------------------------------
(* The environment. *)

\* The next message, one that does not parse, the end of the input (for
\* datagrams: an empty one).
Arrives ==
  /\ Len(waiting) < MaxWaiting
  /\ utility.in = "connection" => pc \in LoopStates
  /\ EndOfInput \notin {waiting[i] : i \in DOMAIN waiting}
  /\ \/ /\ brought < MaxMessages
        /\ brought' = brought + 1
        /\ waiting' = Append(waiting, brought + 1)
     \/ waiting' \in {Append(waiting, EndOfInput), Append(waiting, Malformed)}
        /\ UNCHANGED brought
  /\ UNCHANGED <<processVars, peer, historyVars>>

PeerLeaves ==
  /\ peer /\ utility.out \in {"connection", "file", "stream"}
  /\ peer' = FALSE
  /\ UNCHANGED <<processVars, waiting, brought, historyVars>>

\* SIGINT or SIGTERM: the default action before sigCatch(), then the handler.
\* A call that waits returns EINTR, unless the signal came just before it.
Signal ==
  /\ pc \notin {"done", "killed"} /\ ~signalled
  /\ signalled' = TRUE
  /\ CASE pc = "setup" -> pc' = "killed" /\ UNCHANGED <<interrupted, pending, got>>
       [] blocked -> pending' = TRUE /\ UNCHANGED <<pc, interrupted, got>>
       [] OTHER -> /\ interrupted' = TRUE
                   /\ \/ pc' = pc /\ UNCHANGED got
                      \/ pc = "read" /\ pc' = "got" /\ got' = Malformed
                      \/ pc = "accept" /\ pc' = "done" /\ UNCHANGED got
                      \/ pc \in {"connect", "accept"} /\ pc' = "drop" /\ UNCHANGED got
                      \/ pc = "sleep" /\ pc' = "outer" /\ UNCHANGED got
                   /\ UNCHANGED pending
  /\ UNCHANGED <<utility, blocked, sent, exit>>
  /\ UNCHANGED <<environmentVars, broken, taken, written, failures, unfit, late,
                 dangling, deaf>>

------------------------------------------------------------------------------
(* Specification. *)

\* The steps that wait for nobody but, in Read, what the input already holds.
Runs ==
  \/ Refused \/ SetUp \/ Outer \/ Drop \/ WakeUp
  \/ Check \/ Read \/ Got \/ Unfit \/ Block \/ Written

\* Those that wait for somebody: who opens the other end of a FIFO, accepts or
\* connects, answers a handshake, reads what is written. No bridge sets a timeout.
Waits == Open \/ Connected \/ NotConnected \/ Write \/ NotDumped

Next == Runs \/ Waits \/ Arrives \/ PeerLeaves \/ Signal

\* The process runs whenever it can. Nobody else has to do anything.
Fairness == WF_vars(Runs)

Spec == Init /\ [][Next]_vars /\ Fairness

------------------------------------------------------------------------------
(* Types and properties. *)

TypeOK ==
  /\ utility \in Utilities
  /\ pc \in LoopStates \union
        {"setup", "open", "outer", "connect", "accept", "drop", "sleep", "done", "killed"}
  /\ interrupted \in BOOLEAN /\ blocked \in BOOLEAN /\ pending \in BOOLEAN
  /\ waiting \in Seq(1..MaxMessages \union {EndOfInput, Malformed})
  /\ got \in 1..MaxMessages \union {EndOfInput, Malformed, Nothing}
  /\ sent \in BOOLEAN /\ peer \in BOOLEAN /\ signalled \in BOOLEAN
  /\ broken \in BOOLEAN /\ dangling \in BOOLEAN /\ deaf \in BOOLEAN
  /\ exit \in {"none", "ended", "error"}
  /\ brought \in 0..MaxMessages
  /\ taken \in Seq(1..MaxMessages) /\ written \in Seq(1..MaxMessages)
  /\ failures \in 0..MaxMessages /\ unfit \in 0..MaxMessages
  /\ late \in 0..MaxMessages

InHand == pc \in {"got", "block", "write"} /\ got \notin {EndOfInput, Malformed}

Ascending(s) == \A i \in 2..Len(s) : s[i - 1] < s[i]

\* What a utility writes is what it read, in its order and once each; what it
\* does not write is a message the output failed on, one sgctpfilter or
\* sgctp2gpx leaves out, one message at most in its hands, or the one it read
\* when it was interrupted (the loops, sgctp2tcp/main.cpp:264-293 and their like).
Accounted ==
  /\ TypeOK
  /\ Ascending(taken) /\ Ascending(written)
  /\ \A i \in DOMAIN written : \E j \in DOMAIN taken : taken[j] = written[i]
  /\ unfit > 0 => utility \in {SgctpFilter, Sgctp2Gpx}
  /\ ~dangling =>
       Len(taken) - Len(written) - failures - unfit \in
         0..(IF InHand \/ interrupted THEN 1 ELSE 0)

\* After a signal a utility writes one more message at most, the one it had
\* in its hands (sigBlock() and sigUnblock() around every output).
OneAfterSignal == late <= 1

\* A utility ends when it is told to, when its input or its output ends in the
\* way that is an end for it, or because it could not start or accept(). The loss
\* of a TCP connection ends none that connects again; SIGPIPE, with which the
\* loss of an output or of a handshake may come, ends all but sgctp2tcp
\* (main.cpp of each, SGCTP_BREAK and interrupt()).
EndsForCause ==
  pc = "done" =>
    \/ signalled \/ deaf
    \/ broken /\ utility # Sgctp2Tcp
    \/ exit = "error" /\ taken = <<>> /\ got = Nothing       \* could not start
    \/ exit = "ended" /\ got = EndOfInput /\ utility.in = "file"
    \/ exit = "ended" /\ got = EndOfInput /\ utility = Udp2Sgctp
    \/ exit = "error" /\ got = Malformed /\ utility.in = "file"
    \/ exit = "error" /\ got = Malformed /\ utility = Hub2Sgctp
    \/ exit = "error" /\ failures > 0 /\ utility.session # "connect"

\* The process waits for somebody else.
Held ==
  \/ pc \in {"open", "connect", "accept", "write"}
  \/ pc = "read" /\ waiting = <<>>

\* A utility that was sent SIGINT or SIGTERM ends, unless it then waits for ever:
\* the signal may come when it is about to wait, or while an output it blocks
\* signals around waits for its reader (sigCatch(), skeleton.cpp:735-765).
SignalledEnds ==
  []<>~Held => (signalled ~> pc \in {"done", "killed"})

=============================================================================
