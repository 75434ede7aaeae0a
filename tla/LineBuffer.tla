------------------------------ MODULE LineBuffer ------------------------------
(***************************************************************************)
(* The buffer in which sbs2sgctp and flarm2sgctp (the code is the same)    *)
(* collect what recv() or read() returns and from which they cut lines:    *)
(* the incomplete line at the end stays for the next receipt, the buffer   *)
(* is moved to its start when little of it is left, and given up when it   *)
(* is full of a line that does not end.                                    *)
(*                                                                         *)
(* A byte is the end of a line, the first byte of a sentence (its number,   *)
(* modulo Numbers) or any other. What a sentence says is the converters'   *)
(* business: module Converter.                                             *)
(***************************************************************************)
EXTENDS Integers, Sequences

CONSTANTS
  Size,        \* SGCTP_RECV_BUFFER_SIZE
  Reserve,     \* room below which the buffer is moved to its start (1024)
  Lengths,     \* of the sentences the input brings, end of line included
  Numbers,     \* bound of the model: sentences are numbered modulo Numbers
  MaxComing    \* bound of the model: bytes the input holds before it brings more

ASSUME SizeAssumption == Size \in Nat /\ Reserve \in Nat
                         /\ 0 < Reserve /\ Reserve <= Size
ASSUME LengthsAssumption == Lengths \subseteq Nat \ {0, 1}
ASSUME BoundsAssumption == Numbers \in Nat \ {0} /\ MaxComing \in Nat

VARIABLES
  step,        \* where the loop is
  start,       \* __iBufferDataStart
  end,         \* __iBufferDataEnd
  eol,         \* __iBufferDataEOL: where the search for '\n' resumes
  held,        \* the bytes from start to end
  coming,      \* the bytes the other end has sent and no recv() returned
  number,      \* of the next sentence the other end sends
  expected,    \* history: number of the next sentence to be cut or given up
  cut          \* history: what is held begins inside a sentence given up

lineVars == <<step, start, end, eol, held, coming, number, expected, cut>>

NewLine == -1
Other == -2
IsFirst(b) == b \in 0 .. Numbers - 1
Following(n) == (n + 1) % Numbers

\* Sentence number n, of l bytes.
Sentence(n, l) ==
  [i \in 1 .. l |-> IF i = 1 THEN n ELSE IF i = l THEN NewLine ELSE Other]

LineInit ==
  /\ step = "receive"
  /\ start = 0 /\ end = 0 /\ eol = 0
  /\ held = <<>> /\ coming = <<>>
  /\ number = 0 /\ expected = 0
  /\ cut = FALSE

------------------------------------------------------------------------------
(* The other end *)

Arrives ==
  /\ step # "done"
  /\ Len(coming) <= MaxComing
  /\ \E l \in Lengths : coming' = coming \o Sentence(number, l)
  /\ number' = Following(number)
  /\ UNCHANGED <<step, start, end, eol, held, expected, cut>>

------------------------------------------------------------------------------
(* The converter *)

\* What is left of the buffer behind the data.
Room == Size - end

\* recv() into what is left: any number of the bytes sent.
Receive ==
  /\ step = "receive"
  /\ \E n \in 1 .. Len(coming) :
       /\ n <= Room
       /\ held' = held \o SubSeq(coming, 1, n)
       /\ coming' = SubSeq(coming, n + 1, Len(coming))
       /\ end' = end + n
  /\ step' = "lines"
  /\ UNCHANGED <<start, eol, number, expected, cut>>

\* recv() returned nothing (as it does for no room), or failed.
ReceivesNothing ==
  /\ step = "receive"
  /\ step' = "done"
  /\ UNCHANGED <<start, end, eol, held, coming, number, expected, cut>>

\* memchr(): the ends of line from eol on, as positions in what is held.
Ends == {i \in 1 .. Len(held) : held[i] = NewLine /\ start + i > eol}
FirstEnd == CHOOSE i \in Ends : \A j \in Ends : i <= j

TakeLine ==
  /\ step = "lines" /\ Ends # {}
  /\ held' = SubSeq(held, FirstEnd + 1, Len(held))
  /\ start' = start + FirstEnd
  /\ eol' = start + FirstEnd
  /\ expected' = IF cut THEN expected ELSE Following(expected)
  /\ cut' = FALSE
  /\ UNCHANGED <<end, coming, number>>

\* Faulty variants, for the mutants of the runs: the search resumes where the
\* data were before they moved; the data move when the buffer is full.
MovedEol(s, e) == e
NearlyFull(s) == Size - s <= 0

\* The buffer is moved to its start when less than the reserve is behind start.
Nearly(s) == Size - s < Reserve
Moved(s, e) == e - s

\* No end of line in what is left: it waits for the next receipt, unless the
\* buffer is full of it. (With nothing left the search does not take place.)
NoLine ==
  LET searched == IF held = <<>> THEN eol ELSE end
      moves == Nearly(start)
      eolMoved == IF moves THEN Moved(start, searched) ELSE searched
      full == eolMoved = Size
  IN /\ step = "lines" /\ Ends = {}
     /\ start' = IF moves \/ full THEN 0 ELSE start
     /\ end' = IF full THEN 0 ELSE IF moves THEN end - start ELSE end
     /\ eol' = IF full THEN 0 ELSE eolMoved
     /\ held' = IF full THEN <<>> ELSE held
     /\ expected' = IF full /\ ~cut THEN Following(expected) ELSE expected
     /\ cut' = (full \/ cut)
     /\ step' = "receive"
     /\ UNCHANGED <<coming, number>>

LineNext ==
  \/ Arrives \/ Receive \/ ReceivesNothing \/ NoLine
  \/ TakeLine /\ step' \in {"lines", "done"}

LineSpec == LineInit /\ [][LineNext]_lineVars

------------------------------------------------------------------------------
(* Properties *)

LineTypeOK ==
  /\ step \in {"receive", "lines", "done"}
  /\ start \in 0 .. Size /\ end \in start .. Size /\ eol \in start .. end
  /\ held \in Seq(-2 .. Numbers - 1) /\ Len(held) = end - start
  /\ coming \in Seq(-2 .. Numbers - 1)
  /\ number \in 0 .. Numbers - 1 /\ expected \in 0 .. Numbers - 1
  /\ cut \in BOOLEAN

\* The bytes the converter has not cut yet, in their order.
Stream == held \o coming

\* The places in s where a sentence begins.
Beginnings(s) == {i \in 1 .. Len(s) : IsFirst(s[i])}

\* Sentences begin behind the end of a line, and nowhere else: at the first byte
\* unless c, which is the rest of one given up.
WellCut(s, c) ==
  \A i \in 1 .. Len(s) :
    IsFirst(s[i]) <=> IF i = 1 THEN ~c ELSE s[i - 1] = NewLine

\* The sentences that begin in s are numbered from n on, and next is due m.
Numbered(s, n, m) ==
  /\ Beginnings(s) = {} => m = n
  /\ \A i \in Beginnings(s) :
       /\ (\A j \in Beginnings(s) : i <= j) => s[i] = n
       /\ (\A j \in Beginnings(s) : j <= i) => m = Following(s[i])
       /\ \A j \in Beginnings(s) :
            i < j /\ (\A k \in Beginnings(s) : k <= i \/ j <= k)
              => s[j] = Following(s[i])

\* Whatever the pieces in which recv() returns the input, the buffer's moves and
\* the lines given up: what is held and what comes is the rest of the input, the
\* sentences in their order from the next one expected, each from its first byte
\* except the rest of one given up; what was searched holds no end of line.
InStep ==
  /\ WellCut(Stream, cut)
  /\ Numbered(Stream, expected, number)
  /\ \A i \in 1 .. Len(held) : held[i] = NewLine => start + i > eol

\* recv() is never called without room, which would end the converter as a closed
\* connection does.
RoomToReceive == step = "receive" => Room > 0

\* A line is given up only when no less than the reserve of it has come: a line
\* shorter than that is never lost, however the input is cut into pieces.
OnlyLongLinesLost ==
  [][(\/ cut' /\ ~cut
      \/ step = "lines" /\ step' = "receive" /\ Len(held') < Len(held))
     => Len(held) >= Reserve]_lineVars
==============================================================================
