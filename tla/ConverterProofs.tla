---------------------------- MODULE ConverterProofs ----------------------------
(***************************************************************************)
(* Proofs about LineBuffer and Converter, for any size of the buffer, any  *)
(* lengths of sentences and any sources: the buffer never loses step with  *)
(* its input and only gives up long lines; the converters read their lines *)
(* from it and from nothing else; their map, and what points into it, stay *)
(* in step; traffic is dated by the fix it is placed by.                   *)
(***************************************************************************)
EXTENDS Converter, SequenceTheorems, WellFoundedInduction, TLAPS

------------------------------------------------------------------------------
(* The stream of sentences. *)

Bytes == -2 .. Numbers - 1

\* Every sentence in s has its end, and a rest given up one of its own.
Ended(s, c) == IF s = <<>> THEN ~c ELSE s[Len(s)] = NewLine

\* All that is known of the bytes not yet cut.
Sequenced(s, c, n, m) == WellCut(s, c) /\ Numbered(s, n, m) /\ Ended(s, c)

\* A pair of natural numbers in their order.
Less == {p \in Nat \X Nat : p[1] < p[2]}

\* A set of natural numbers has a least element.
LEMMA LeastNatural ==
  ASSUME NEW S \in SUBSET Nat, S # {}
  PROVE  \E x \in S : \A y \in S : x <= y
<1>1. IsWellFoundedOn(Less, Nat)
  BY NatLessThanWellFounded DEF OpToRel, Less
<1>2. PICK x \in S : \A y \in S : <<y, x>> \notin Less
  BY <1>1, WFMin
<1>3. \A y \in S : y < x => <<y, x>> \in Less
  BY DEF Less
<1>4. \A y \in S : ~(y < x)
  BY <1>2, <1>3
<1>5. \A y \in S : x <= y
  BY <1>4
<1> QED
  BY <1>5

\* A byte is the first of a sentence or its end, never both.
LEMMA Kinds ==
  /\ NewLine \in Bytes /\ Other \in Bytes /\ ~IsFirst(NewLine) /\ ~IsFirst(Other)
  /\ \A n \in 0 .. Numbers - 1 : n \in Bytes /\ IsFirst(n)
                                 /\ Following(n) \in 0 .. Numbers - 1
BY BoundsAssumption DEF NewLine, Other, IsFirst, Bytes, Following

\* A sentence begins at its first byte and ends at its last.
LEMMA SentenceShape ==
  ASSUME NEW n \in 0 .. Numbers - 1, NEW l \in Nat \ {0, 1}
  PROVE  /\ Sentence(n, l) \in Seq(Bytes) /\ Len(Sentence(n, l)) = l
         /\ \A i \in 1 .. l : Sentence(n, l)[i] =
              IF i = 1 THEN n ELSE IF i = l THEN NewLine ELSE Other
<1>1. Sentence(n, l) \in [1 .. l -> Bytes]
  BY Kinds DEF Sentence
<1>2. Sentence(n, l) \in Seq(Bytes)
  BY <1>1
<1>3. Len(Sentence(n, l)) = l
  BY <1>1, <1>2, LenProperties
<1> QED
  BY <1>2, <1>3 DEF Sentence

\* The next sentence goes on where the stream ends.
LEMMA SequencedAppend ==
  ASSUME NEW s \in Seq(Bytes), NEW c \in BOOLEAN,
         NEW n \in 0 .. Numbers - 1, NEW m \in 0 .. Numbers - 1,
         Sequenced(s, c, n, m), NEW l \in Nat \ {0, 1}
  PROVE  Sequenced(s \o Sentence(m, l), c, n, Following(m))
<1> DEFINE t == Sentence(m, l)
           u == s \o t
<1>1. /\ t \in Seq(Bytes) /\ Len(t) = l
      /\ \A i \in 1 .. l : t[i] = IF i = 1 THEN m ELSE IF i = l THEN NewLine ELSE Other
  BY SentenceShape
<1> HIDE DEF t
<1>2. /\ u \in Seq(Bytes) /\ Len(u) = Len(s) + l /\ Len(s) \in Nat
      /\ \A i \in 1 .. Len(s) + l :
           u[i] = IF i <= Len(s) THEN s[i] ELSE t[i - Len(s)]
  BY <1>1, ConcatProperties, LenProperties
<1> HIDE DEF u
<1>3. /\ \A i \in 1 .. Len(s) : u[i] = s[i]
      /\ u[Len(s) + 1] = m /\ u[Len(u)] = NewLine
      /\ \A i \in 1 .. Len(u) : i > Len(s) + 1 => u[i] \in {NewLine, Other}
      /\ \A i \in 1 .. Len(u) : i > Len(s) + 1 => u[i - 1] \in {m, Other}
  <2>1. ASSUME NEW i \in 1 .. Len(u), i > Len(s)
        PROVE  u[i] = IF i = Len(s) + 1 THEN m
                      ELSE IF i = Len(u) THEN NewLine ELSE Other
    <3>1. /\ i - Len(s) \in 1 .. l /\ u[i] = t[i - Len(s)]
          /\ i - Len(s) = 1 <=> i = Len(s) + 1
          /\ i - Len(s) = l <=> i = Len(u)
      BY <1>2, <2>1
    <3>2. t[i - Len(s)] = IF i - Len(s) = 1 THEN m
                          ELSE IF i - Len(s) = l THEN NewLine ELSE Other
      BY <1>1, <3>1
    <3> QED
      BY <3>1, <3>2
  <2>2. ASSUME NEW i \in 1 .. Len(u), i > Len(s) + 1
        PROVE  u[i - 1] \in {m, Other}
    <3>1. i - 1 \in 1 .. Len(u) /\ i - 1 > Len(s) /\ i - 1 # Len(u)
      BY <1>2, <2>2
    <3> QED
      BY <2>1, <3>1
  <2>3. /\ Len(s) + 1 \in 1 .. Len(u) /\ Len(s) + 1 > Len(s)
        /\ Len(u) \in 1 .. Len(u) /\ Len(u) > Len(s) /\ Len(u) # Len(s) + 1
        /\ \A i \in 1 .. Len(s) : i \in 1 .. Len(s) + l
    BY <1>2
  <2>4. \A i \in 1 .. Len(u) : i > Len(s) + 1 => i > Len(s) /\ i # Len(s) + 1
    BY <1>2
  <2> QED
    BY <1>2, <2>1, <2>2, <2>3, <2>4
<1>4. u # <<>>
  BY <1>2, EmptySeq
<1>5. WellCut(u, c)
  <2> SUFFICES ASSUME NEW i \in 1 .. Len(u)
               PROVE  IsFirst(u[i]) <=> IF i = 1 THEN ~c ELSE u[i - 1] = NewLine
    BY DEF WellCut
  <2>1. CASE i \in 1 .. Len(s)
    <3>1. u[i] = s[i] /\ (i # 1 => u[i - 1] = s[i - 1])
      BY <1>2, <1>3, <2>1
    <3> QED
      BY <2>1, <3>1 DEF Sequenced, WellCut
  <2>2. CASE i = Len(s) + 1
    <3>1. IsFirst(u[i])
      BY <1>3, <2>2, Kinds
    <3>2. CASE Len(s) = 0
      <4>1. s = <<>>
        BY <3>2, EmptySeq
      <4> QED
        BY <2>2, <3>1, <3>2, <4>1 DEF Sequenced, Ended
    <3>3. CASE Len(s) # 0
      <4>1. s # <<>> /\ u[Len(s)] = s[Len(s)]
        BY <1>2, <1>3, <3>3, EmptySeq
      <4> QED
        BY <1>2, <2>2, <3>1, <3>3, <4>1 DEF Sequenced, Ended
    <3> QED
      BY <3>2, <3>3
  <2>3. CASE i > Len(s) + 1
    <3>1. i # 1
      BY <1>2, <2>3
    <3>2. u[i] \in {NewLine, Other} /\ u[i - 1] \in {m, Other}
      BY <1>3, <2>3
    <3>3. NewLine # Other /\ NewLine # m
      BY DEF NewLine, Other
    <3> QED
      BY <3>1, <3>2, <3>3, Kinds
  <2> QED
    BY <1>2, <2>1, <2>2, <2>3
<1>6. Beginnings(u) = Beginnings(s) \union {Len(s) + 1}
  <2>1. \A i \in 1 .. Len(u) : i > Len(s) => (IsFirst(u[i]) <=> i = Len(s) + 1)
    <3>1. \A i \in 1 .. Len(u) : i > Len(s) + 1 => ~IsFirst(u[i])
      BY <1>3, Kinds
    <3>2. \A i \in 1 .. Len(u) : i > Len(s) => i = Len(s) + 1 \/ i > Len(s) + 1
      BY <1>2
    <3>3. IsFirst(u[Len(s) + 1]) /\ ~(Len(s) + 1 > Len(s) + 1)
      BY <1>2, <1>3, Kinds
    <3> QED
      BY <3>1, <3>2, <3>3
  <2> QED
    BY <1>2, <1>3, <2>1 DEF Beginnings
<1>7. Numbered(u, n, Following(m))
  <2> DEFINE B == Beginnings(s)
             last == Len(s) + 1
  <2>1. u[last] = m /\ last \in Nat /\ \A i \in B : i \in Nat /\ i < last /\ u[i] = s[i]
    BY <1>2, <1>3 DEF Beginnings
  <2>2. Numbered(s, n, m)
    BY DEF Sequenced
  <2> SUFFICES ASSUME NEW i \in B \union {last}
               PROVE  /\ (\A j \in B \union {last} : i <= j) => u[i] = n
                      /\ (\A j \in B \union {last} : j <= i)
                           => Following(m) = Following(u[i])
                      /\ \A j \in B \union {last} :
                           i < j /\ (\A k \in B \union {last} : k <= i \/ j <= k)
                             => u[j] = Following(u[i])
    BY <1>6 DEF Numbered
  <2> HIDE DEF B, last
  <2>3. CASE i \in B
    <3>1. ASSUME \A j \in B \union {last} : i <= j PROVE u[i] = n
      BY <2>1, <2>2, <2>3, <3>1 DEF Numbered, B
    <3>2. ~(\A j \in B \union {last} : j <= i)
      BY <2>1, <2>3
    <3>3. ASSUME NEW j \in B, i < j, \A k \in B \union {last} : k <= i \/ j <= k
          PROVE  u[j] = Following(u[i])
      BY <2>1, <2>2, <2>3, <3>3 DEF Numbered, B
    <3>4. ASSUME \A k \in B \union {last} : k <= i \/ last <= k
          PROVE  u[last] = Following(u[i])
      <4>1. \A k \in B : k <= i
        BY <2>1, <2>3, <3>4
      <4> QED
        BY <2>1, <2>2, <2>3, <4>1 DEF Numbered, B
    <3> QED
      BY <3>1, <3>2, <3>3, <3>4
  <2>4. CASE i = last
    <3>1. ASSUME \A j \in B \union {last} : i <= j PROVE u[i] = n
      <4>1. B = {}
        BY <2>1, <2>4, <3>1
      <4> QED
        BY <2>1, <2>2, <2>4, <4>1 DEF Numbered, B
    <3>2. \A j \in B \union {last} : ~(i < j)
      BY <2>1, <2>4
    <3> QED
      BY <2>1, <2>4, <3>1, <3>2
  <2> QED
    BY <2>3, <2>4
<1> QED
  BY <1>3, <1>4, <1>5, <1>7 DEF Sequenced, Ended, u, t

\* What is left of a sequence behind its first p elements.
LEMMA SuffixFacts ==
  ASSUME NEW s \in Seq(Bytes), NEW p \in 0 .. Len(s)
  PROVE  /\ SubSeq(s, p + 1, Len(s)) \in Seq(Bytes)
         /\ Len(SubSeq(s, p + 1, Len(s))) = Len(s) - p
         /\ \A i \in 1 .. Len(s) - p : SubSeq(s, p + 1, Len(s))[i] = s[p + i]
<1> DEFINE t == SubSeq(s, p + 1, Len(s))
<1>1. Len(s) \in Nat /\ p \in Nat /\ p <= Len(s)
  BY LenProperties
<1>2. p + 1 \in Int /\ Len(s) \in Int /\ \A i \in p + 1 .. Len(s) : s[i] \in Bytes
  BY <1>1, ElementOfSeq
<1>3. /\ t \in Seq(Bytes) /\ Len(t) = IF p + 1 <= Len(s) THEN Len(s) - (p + 1) + 1 ELSE 0
      /\ \A i \in 1 .. Len(s) - (p + 1) + 1 : t[i] = s[(p + 1) + i - 1]
  BY <1>2, SubSeqProperties
<1>4. \A i \in 1 .. Len(s) - p : (p + 1) + i - 1 = p + i
  BY <1>1
<1> QED
  BY <1>1, <1>3, <1>4

\* What is left of the stream behind its first p bytes, of which none but the
\* last may end a line: the sentence that was first is gone, or the rest of it
\* is what the stream now begins with.
LEMMA SequencedDrop ==
  ASSUME NEW s \in Seq(Bytes), NEW c \in BOOLEAN,
         NEW n \in 0 .. Numbers - 1, NEW m \in 0 .. Numbers - 1,
         Sequenced(s, c, n, m),
         NEW p \in 1 .. Len(s), \A i \in 1 .. p - 1 : s[i] # NewLine
  PROVE  Sequenced(SubSeq(s, p + 1, Len(s)), s[p] # NewLine,
                   IF c THEN n ELSE Following(n), m)
<1> DEFINE t == SubSeq(s, p + 1, Len(s))
           B == Beginnings(s)
<1>1. Len(s) \in Nat /\ p \in Nat /\ p >= 1 /\ p <= Len(s)
  BY LenProperties
<1>2. /\ t \in Seq(Bytes) /\ Len(t) = Len(s) - p
      /\ \A i \in 1 .. Len(s) - p : t[i] = s[p + i]
  BY <1>1, SuffixFacts
<1> HIDE DEF t
<1>3. WellCut(t, s[p] # NewLine)
  <2> SUFFICES ASSUME NEW i \in 1 .. Len(t)
               PROVE  IsFirst(t[i]) <=> IF i = 1 THEN s[p] = NewLine
                                                 ELSE t[i - 1] = NewLine
    BY DEF WellCut
  <2>1. t[i] = s[p + i] /\ p + i \in 1 .. Len(s) /\ p + i # 1
    BY <1>1, <1>2
  <2>2. IsFirst(s[p + i]) <=> s[p + i - 1] = NewLine
    BY <2>1 DEF Sequenced, WellCut
  <2>3. i # 1 => t[i - 1] = s[p + i - 1]
    <3>1. i # 1 => i - 1 \in 1 .. Len(s) - p /\ p + (i - 1) = p + i - 1
      BY <1>1, <1>2
    <3> QED
      BY <1>2, <3>1
  <2>4. i = 1 => p + i - 1 = p
    BY <1>1
  <2> QED
    BY <2>1, <2>2, <2>3, <2>4
<1>4. Ended(t, s[p] # NewLine)
  <2>1. s # <<>> /\ s[Len(s)] = NewLine
    BY <1>1, EmptySeq DEF Sequenced, Ended
  <2>2. CASE p = Len(s)
    BY <1>1, <1>2, <2>1, <2>2, EmptySeq DEF Ended
  <2>3. CASE p # Len(s)
    <3>1. Len(t) \in 1 .. Len(s) - p /\ p + Len(t) = Len(s) /\ t # <<>>
      BY <1>1, <1>2, <2>3, EmptySeq
    <3> QED
      BY <1>2, <2>1, <3>1 DEF Ended
  <2> QED
    BY <2>2, <2>3
<1>5. \A i \in B : i \in Nat /\ (i <= p <=> i = 1)
  <2>1. \A i \in 2 .. p : ~IsFirst(s[i])
    <3>1. \A i \in 2 .. p : i \in 1 .. Len(s) /\ i - 1 \in 1 .. p - 1 /\ i # 1
      BY <1>1
    <3> QED
      BY <3>1 DEF Sequenced, WellCut
  <2> QED
    BY <1>1, <2>1 DEF Beginnings
<1>6. 1 \in B <=> ~c
  BY <1>1 DEF Beginnings, Sequenced, WellCut
<1>7. \A i \in 1 .. Len(t) : i \in Beginnings(t) <=> p + i \in B
  BY <1>1, <1>2 DEF Beginnings
<1>8. /\ \A i \in Beginnings(t) : /\ i \in 1 .. Len(t) /\ p + i \in B
                                  /\ t[i] = s[p + i]
      /\ \A i \in B : i # 1 => i - p \in Beginnings(t) /\ p + (i - p) = i
  <2>1. \A i \in Beginnings(t) : i \in 1 .. Len(t)
    BY DEF Beginnings
  <2>2. \A i \in B : i # 1 => i - p \in 1 .. Len(t) /\ p + (i - p) = i
    BY <1>1, <1>2, <1>5 DEF Beginnings
  <2> QED
    BY <1>2, <1>7, <2>1, <2>2
<1>9. Numbered(s, n, m)
  BY DEF Sequenced
<1> HIDE DEF B
<1>10. Numbered(t, IF c THEN n ELSE Following(n), m)
  <2> DEFINE first == IF c THEN n ELSE Following(n)
  <2>1. Beginnings(t) = {} => m = first
    <3>1. CASE c
      BY <1>6, <1>8, <1>9, <3>1 DEF Numbered, B
    <3>2. CASE ~c
      <4>1. Beginnings(t) = {} => B = {1}
        BY <1>6, <1>8, <3>2
      <4> QED
        BY <1>6, <1>9, <3>2, <4>1 DEF Numbered, B
    <3> QED
      BY <3>1, <3>2
  <2> SUFFICES ASSUME NEW i \in Beginnings(t)
               PROVE  /\ (\A j \in Beginnings(t) : i <= j) => t[i] = first
                      /\ (\A j \in Beginnings(t) : j <= i) => m = Following(t[i])
                      /\ \A j \in Beginnings(t) :
                           i < j /\ (\A k \in Beginnings(t) : k <= i \/ j <= k)
                             => t[j] = Following(t[i])
    BY <2>1 DEF Numbered
  <2>2. i \in Nat /\ p + i \in B /\ t[i] = s[p + i] /\ p + i > 1
    BY <1>1, <1>8
  <2>3. ASSUME \A j \in Beginnings(t) : i <= j PROVE t[i] = first
    <3>1. \A j \in B : j # 1 => p + i <= j
      BY <1>1, <1>5, <1>8, <2>2, <2>3
    <3>2. CASE c
      <4>1. \A j \in B : p + i <= j
        BY <1>6, <3>1, <3>2
      <4> QED
        BY <1>9, <2>2, <3>2, <4>1 DEF Numbered, B
    <3>3. CASE ~c
      <4>1. 1 \in B /\ (\A j \in B : 1 <= j) /\ (\A k \in B : k <= 1 \/ p + i <= k)
        BY <1>5, <1>6, <3>1, <3>3 DEF B, Beginnings
      <4>2. s[1] = n /\ s[p + i] = Following(s[1])
        BY <1>9, <2>2, <4>1 DEF Numbered, B
      <4> QED
        BY <2>2, <3>3, <4>2
    <3> QED
      BY <3>2, <3>3
  <2>4. ASSUME \A j \in Beginnings(t) : j <= i PROVE m = Following(t[i])
    <3>1. \A j \in B : j <= p + i
      <4>1. ASSUME NEW j \in B, j # 1 PROVE j <= p + i
        <5>1. j - p \in Beginnings(t) /\ j \in Nat
          BY <1>5, <1>8, <4>1
        <5> QED
          BY <1>1, <2>2, <2>4, <5>1
      <4> QED
        BY <2>2, <1>1, <4>1
    <3> QED
      BY <1>9, <2>2, <3>1 DEF Numbered, B
  <2>5. ASSUME NEW j \in Beginnings(t), i < j,
               \A k \in Beginnings(t) : k <= i \/ j <= k
        PROVE  t[j] = Following(t[i])
    <3>1. j \in Nat /\ p + j \in B /\ t[j] = s[p + j]
      BY <1>1, <1>8
    <3>2. \A k \in B : k <= p + i \/ p + j <= k
      <4>1. ASSUME NEW k \in B, k # 1 PROVE k <= p + i \/ p + j <= k
        <5>1. k - p \in Beginnings(t) /\ k \in Nat
          BY <1>5, <1>8, <4>1
        <5> QED
          BY <1>1, <2>2, <2>5, <3>1, <5>1
      <4> QED
        BY <2>2, <1>1, <4>1
    <3>3. p + i < p + j
      BY <1>1, <2>2, <2>5, <3>1
    <3> QED
      BY <1>9, <2>2, <3>1, <3>2, <3>3 DEF Numbered, B
  <2> QED
    BY <2>3, <2>4, <2>5
<1> QED
  BY <1>3, <1>4, <1>10 DEF Sequenced, t

------------------------------------------------------------------------------
(* The line buffer. *)

\* The inductive invariant of the buffer.
LineInv == LineTypeOK /\ InStep /\ RoomToReceive /\ Ended(Stream, cut)

\* What the types say of the sequences and positions.
LEMMA LineFacts ==
  ASSUME LineTypeOK
  PROVE  /\ held \in Seq(Bytes) /\ coming \in Seq(Bytes) /\ Stream \in Seq(Bytes)
         /\ Len(held) \in Nat /\ Len(coming) \in Nat
         /\ Len(Stream) = Len(held) + Len(coming)
         /\ \A i \in 1 .. Len(held) : Stream[i] = held[i]
         /\ start \in Nat /\ end \in Nat /\ eol \in Nat /\ Size \in Nat
         /\ Reserve \in Nat /\ 0 < Reserve /\ Reserve <= Size
         /\ start <= eol /\ eol <= end /\ end <= Size
         /\ Len(held) = end - start
<1>1. held \in Seq(Bytes) /\ coming \in Seq(Bytes)
  BY DEF LineTypeOK, Bytes
<1>2. /\ Stream \in Seq(Bytes) /\ Len(Stream) = Len(held) + Len(coming)
      /\ Len(held) \in Nat /\ Len(coming) \in Nat
      /\ \A i \in 1 .. Len(held) + Len(coming) :
           Stream[i] = IF i <= Len(held) THEN held[i] ELSE coming[i - Len(held)]
  BY <1>1, ConcatProperties, LenProperties DEF Stream
<1> QED
  BY <1>1, <1>2, SizeAssumption DEF LineTypeOK

\* Dropping bytes of the first sequence drops them of the whole.
LEMMA DropOfConcat ==
  ASSUME NEW s \in Seq(Bytes), NEW t \in Seq(Bytes), NEW p \in 0 .. Len(s)
  PROVE  SubSeq(s, p + 1, Len(s)) \o t = SubSeq(s \o t, p + 1, Len(s \o t))
<1> DEFINE u == SubSeq(s, p + 1, Len(s))
           w == s \o t
           v == SubSeq(w, p + 1, Len(w))
<1>1. Len(s) \in Nat /\ Len(t) \in Nat /\ p \in Nat /\ p <= Len(s)
  BY LenProperties
<1>2. /\ w \in Seq(Bytes) /\ Len(w) = Len(s) + Len(t)
      /\ \A i \in 1 .. Len(s) + Len(t) :
           w[i] = IF i <= Len(s) THEN s[i] ELSE t[i - Len(s)]
  BY ConcatProperties
<1> HIDE DEF w
<1>3. /\ u \in Seq(Bytes) /\ Len(u) = Len(s) - p
      /\ \A i \in 1 .. Len(s) - p : u[i] = s[p + i]
  BY SuffixFacts
<1>4. /\ v \in Seq(Bytes) /\ Len(v) = Len(s) + Len(t) - p
      /\ \A i \in 1 .. Len(s) + Len(t) - p : v[i] = w[p + i]
  <2>1. p \in 0 .. Len(w)
    BY <1>1, <1>2
  <2>2. /\ v \in Seq(Bytes) /\ Len(v) = Len(w) - p
        /\ \A i \in 1 .. Len(w) - p : v[i] = w[p + i]
    BY <1>2, <2>1, SuffixFacts
  <2> QED
    BY <1>2, <2>2
<1> HIDE DEF u, v
<1>5. /\ u \o t \in Seq(Bytes) /\ Len(u \o t) = Len(s) - p + Len(t)
      /\ \A i \in 1 .. Len(s) - p + Len(t) :
           (u \o t)[i] = IF i <= Len(s) - p THEN u[i] ELSE t[i - (Len(s) - p)]
  <2>1. /\ u \o t \in Seq(Bytes) /\ Len(u \o t) = Len(u) + Len(t)
        /\ \A i \in 1 .. Len(u) + Len(t) :
             (u \o t)[i] = IF i <= Len(u) THEN u[i] ELSE t[i - Len(u)]
    BY <1>3, ConcatProperties
  <2> QED
    BY <1>3, <2>1
<1>6. ASSUME NEW i \in 1 .. Len(u \o t)
      PROVE  (u \o t)[i] = v[i]
  <2>1. /\ i \in 1 .. Len(s) - p + Len(t) /\ i \in 1 .. Len(s) + Len(t) - p
        /\ p + i \in 1 .. Len(s) + Len(t)
    BY <1>1, <1>5
  <2>2. v[i] = IF p + i <= Len(s) THEN s[p + i] ELSE t[(p + i) - Len(s)]
    BY <1>2, <1>4, <2>1
  <2>3. CASE i <= Len(s) - p
    <3>1. i \in 1 .. Len(s) - p /\ p + i <= Len(s)
      BY <1>1, <2>1, <2>3
    <3> QED
      BY <1>3, <1>5, <2>1, <2>2, <2>3, <3>1
  <2>4. CASE ~(i <= Len(s) - p)
    <3>1. i - (Len(s) - p) = (p + i) - Len(s) /\ ~(p + i <= Len(s))
      BY <1>1, <2>1, <2>4
    <3> QED
      BY <1>5, <2>1, <2>2, <2>4, <3>1
  <2> QED
    BY <2>3, <2>4
<1>7. Len(u \o t) = Len(v)
  BY <1>1, <1>4, <1>5
<1>8. u \o t = v
  BY <1>4, <1>5, <1>6, <1>7, SeqEqual
<1> QED
  BY <1>8 DEF u, v, w

\* The initial state.
LEMMA LineInitInv == LineInit => LineInv
<1> SUFFICES ASSUME LineInit PROVE LineInv
  OBVIOUS
<1>1. held = <<>> /\ coming = <<>> /\ Len(<<>>) = 0 /\ <<>> \in Seq(Bytes)
  BY EmptySeq DEF LineInit
<1>2. Stream = <<>>
  BY <1>1, ConcatEmptySeq DEF Stream
<1>3. LineTypeOK
  <2>1. /\ 0 \in 0 .. Size /\ 0 \in 0 .. 0 /\ 0 = 0 - 0
        /\ 0 \in 0 .. Numbers - 1
    BY SizeAssumption, BoundsAssumption
  <2> QED
    BY <1>1, <2>1 DEF LineInit, LineTypeOK, Bytes
<1>4. InStep
  BY <1>1, <1>2 DEF LineInit, InStep, WellCut, Numbered, Beginnings
<1> QED
  BY <1>2, <1>3, <1>4, SizeAssumption
  DEF LineInit, LineInv, RoomToReceive, Room, Ended

\* A sentence is sent: it goes behind the stream.
LEMMA ArrivesInv ==
  ASSUME LineInv, Arrives
  PROVE  LineInv'
<1>1. PICK l \in Lengths : coming' = coming \o Sentence(number, l)
  BY DEF Arrives
<1>2. /\ l \in Nat \ {0, 1} /\ number \in 0 .. Numbers - 1
      /\ expected \in 0 .. Numbers - 1 /\ cut \in BOOLEAN
  BY LengthsAssumption DEF LineInv, LineTypeOK
<1>3. number' = Following(number) /\ UNCHANGED <<step, start, end, eol, held, expected, cut>>
  BY DEF Arrives
<1>4. held \in Seq(Bytes) /\ coming \in Seq(Bytes) /\ Stream \in Seq(Bytes)
  BY LineFacts DEF LineInv
<1>5. Sentence(number, l) \in Seq(Bytes)
  BY <1>2, SentenceShape
<1>6. Stream' = Stream \o Sentence(number, l)
  BY <1>1, <1>3, <1>4, <1>5, ConcatAssociative DEF Stream
<1>7. Sequenced(Stream', cut', expected', number')
  <2>1. Sequenced(Stream, cut, expected, number)
    BY DEF LineInv, InStep, Sequenced
  <2> QED
    BY <1>2, <1>3, <1>4, <1>6, <2>1, SequencedAppend
<1>8. coming' \in Seq(Bytes)
  BY <1>1, <1>4, <1>5, ConcatProperties
<1>9. LineTypeOK'
  BY <1>2, <1>3, <1>8, Kinds DEF LineInv, LineTypeOK, Bytes
<1> QED
  BY <1>3, <1>7, <1>9 DEF LineInv, InStep, Sequenced, RoomToReceive, Room

\* What is received leaves the one part of the stream for the other.
LEMMA ReceiveInv ==
  ASSUME LineInv, Receive
  PROVE  LineInv'
<1>1. PICK n \in 1 .. Len(coming) :
        /\ n <= Room
        /\ held' = held \o SubSeq(coming, 1, n)
        /\ coming' = SubSeq(coming, n + 1, Len(coming))
        /\ end' = end + n
  BY DEF Receive
<1>2. /\ step = "receive" /\ step' = "lines"
      /\ UNCHANGED <<start, eol, number, expected, cut>>
  BY DEF Receive
<1>3. /\ held \in Seq(Bytes) /\ coming \in Seq(Bytes) /\ Len(held) \in Nat
      /\ Len(coming) \in Nat /\ start \in Nat /\ end \in Nat /\ eol \in Nat
      /\ Size \in Nat /\ start <= eol /\ eol <= end /\ Len(held) = end - start
  BY LineFacts DEF LineInv
<1> DEFINE new == SubSeq(coming, 1, n)
<1>4. new \in Seq(Bytes) /\ Len(new) = n
  <2>1. 1 \in Int /\ n \in Int /\ \A i \in 1 .. n : coming[i] \in Bytes
    BY <1>3, ElementOfSeq
  <2>2. new \in Seq(Bytes) /\ Len(new) = IF 1 <= n THEN n - 1 + 1 ELSE 0
    BY <2>1, SubSeqProperties
  <2> QED
    BY <1>3, <2>2
<1>5. coming' \in Seq(Bytes) /\ new \o coming' = coming
  <2>1. n \in 0 .. Len(coming)
    BY <1>3
  <2>2. coming' \in Seq(Bytes)
    BY <1>1, <1>3, <2>1, SuffixFacts
  <2>3. /\ 1 \in 1 .. Len(coming) + 1 /\ n \in 1 - 1 .. Len(coming)
        /\ Len(coming) \in n .. Len(coming)
    BY <1>3
  <2>4. new \o coming' = SubSeq(coming, 1, Len(coming))
    BY <1>1, <1>3, <2>3, ConcatAdjacentSubSeq
  <2> QED
    BY <1>3, <2>2, <2>4, SubSeqFull
<1> HIDE DEF new
<1>6. Stream' = Stream
  <2> DEFINE rest == SubSeq(coming, n + 1, Len(coming))
  <2>0. rest = coming'
    BY <1>1
  <2> HIDE DEF rest
  <2>a. rest \in Seq(Bytes)
    BY <1>5, <2>0
  <2>b. (held \o new) \o rest = held \o (new \o rest)
    <3>1. held \in Seq(Bytes) /\ new \in Seq(Bytes) /\ rest \in Seq(Bytes)
      BY <1>3, <1>4, <2>a
    <3> QED
      BY <3>1, ConcatAssociative
  <2>1. (held \o new) \o coming' = held \o (new \o coming')
    BY <2>0, <2>b
  <2>2. held' = held \o new
    BY <1>1 DEF new
  <2> QED
    BY <1>5, <2>1, <2>2 DEF Stream
<1>7. /\ held' \in Seq(Bytes) /\ Len(held') = Len(held) + n
      /\ \A i \in 1 .. Len(held) : held'[i] = held[i]
  <2>1. /\ held' \in Seq(Bytes) /\ Len(held') = Len(held) + Len(new)
        /\ \A i \in 1 .. Len(held) + Len(new) :
             held'[i] = IF i <= Len(held) THEN held[i] ELSE new[i - Len(held)]
    BY <1>1, <1>3, <1>4, ConcatProperties DEF new
  <2> QED
    BY <1>3, <1>4, <2>1
<1>8. LineTypeOK'
  <2>1. start \in 0 .. Size /\ end + n \in start .. Size /\ eol \in start .. end + n
    BY <1>1, <1>3 DEF LineInv, LineTypeOK, Room
  <2>2. Len(held') = end' - start'
    BY <1>1, <1>2, <1>3, <1>7
  <2> QED
    BY <1>1, <1>2, <1>5, <1>7, <2>1, <2>2 DEF LineInv, LineTypeOK, Bytes
<1>9. \A i \in 1 .. Len(held') : held'[i] = NewLine => start' + i > eol'
  <2> SUFFICES ASSUME NEW i \in 1 .. Len(held'), held'[i] = NewLine
               PROVE  start + i > eol
    BY <1>2
  <2>1. CASE i \in 1 .. Len(held)
    BY <1>7, <2>1 DEF LineInv, InStep
  <2>2. CASE i \notin 1 .. Len(held)
    BY <1>3, <1>7, <2>2
  <2> QED
    BY <2>1, <2>2
<1> QED
  BY <1>2, <1>6, <1>8, <1>9 DEF LineInv, InStep, RoomToReceive

\* The end of the first line held, and what is known before it.
LEMMA FirstEndFacts ==
  ASSUME LineInv, Ends # {}
  PROVE  /\ FirstEnd \in 1 .. Len(held) /\ held[FirstEnd] = NewLine
         /\ start + FirstEnd > eol
         /\ \A i \in 1 .. FirstEnd - 1 : held[i] # NewLine
<1>1. Ends \in SUBSET Nat /\ Len(held) \in Nat
  BY LineFacts DEF LineInv, Ends
<1>2. \E i \in Ends : \A j \in Ends : i <= j
  BY <1>1, LeastNatural
<1>3. FirstEnd \in Ends /\ \A j \in Ends : FirstEnd <= j
  BY <1>2 DEF FirstEnd
<1>4. FirstEnd \in 1 .. Len(held) /\ held[FirstEnd] = NewLine /\ start + FirstEnd > eol
  BY <1>3 DEF Ends
<1>5. ASSUME NEW i \in 1 .. FirstEnd - 1, held[i] = NewLine PROVE FALSE
  <2>1. i \in 1 .. Len(held) /\ i \in Nat /\ FirstEnd \in Nat /\ ~(FirstEnd <= i)
    BY <1>1, <1>4
  <2>2. i \in Ends
    BY <1>5, <2>1 DEF Ends, LineInv, InStep
  <2> QED
    BY <1>3, <2>1, <2>2
<1> QED
  BY <1>4, <1>5

\* A line is cut off the stream.
LEMMA TakeLineInv ==
  ASSUME LineInv, TakeLine, step' \in {"lines", "done"}
  PROVE  LineInv'
<1> DEFINE p == FirstEnd
<1>1. /\ p \in 1 .. Len(held) /\ held[p] = NewLine /\ start + p > eol
      /\ \A i \in 1 .. p - 1 : held[i] # NewLine
  BY FirstEndFacts DEF TakeLine
<1>2. /\ held' = SubSeq(held, p + 1, Len(held))
      /\ start' = start + p /\ eol' = start + p
      /\ expected' = IF cut THEN expected ELSE Following(expected)
      /\ cut' = FALSE /\ UNCHANGED <<end, coming, number>>
  BY DEF TakeLine
<1> HIDE DEF p
<1>3. /\ held \in Seq(Bytes) /\ coming \in Seq(Bytes) /\ Stream \in Seq(Bytes)
      /\ Len(held) \in Nat /\ Len(coming) \in Nat
      /\ Len(Stream) = Len(held) + Len(coming)
      /\ \A i \in 1 .. Len(held) : Stream[i] = held[i]
      /\ start \in Nat /\ end \in Nat /\ end <= Size /\ Size \in Nat
      /\ Len(held) = end - start
  BY LineFacts DEF LineInv
<1>4. p \in 0 .. Len(held) /\ p \in 1 .. Len(Stream) /\ p \in Nat
  BY <1>1, <1>3
<1>5. held' \in Seq(Bytes) /\ Len(held') = Len(held) - p
  BY <1>2, <1>3, <1>4, SuffixFacts
<1>6. Stream' = SubSeq(Stream, p + 1, Len(Stream))
  BY <1>2, <1>3, <1>4, DropOfConcat DEF Stream
<1>7. Sequenced(Stream', cut', expected', number')
  <2>1. Sequenced(Stream, cut, expected, number)
    BY DEF LineInv, InStep, Sequenced
  <2>2. /\ cut \in BOOLEAN /\ expected \in 0 .. Numbers - 1
        /\ number \in 0 .. Numbers - 1
    BY DEF LineInv, LineTypeOK
  <2>3. Stream[p] = NewLine /\ \A i \in 1 .. p - 1 : Stream[i] # NewLine
    <3>1. \A i \in 1 .. p - 1 : i \in 1 .. Len(held)
      BY <1>3, <1>4
    <3> QED
      BY <1>1, <1>3, <3>1
  <2>4. Sequenced(SubSeq(Stream, p + 1, Len(Stream)), Stream[p] # NewLine,
                  IF cut THEN expected ELSE Following(expected), number)
    BY <1>3, <1>4, <2>1, <2>2, <2>3, SequencedDrop
  <2>5. (Stream[p] # NewLine) = FALSE
    BY <2>3
  <2> QED
    BY <1>2, <1>6, <2>4, <2>5
<1>8. LineTypeOK'
  <2>1. /\ start + p \in 0 .. Size /\ end \in start + p .. Size
        /\ start + p \in start + p .. end /\ Len(held') = end - (start + p)
    BY <1>1, <1>3, <1>4, <1>5
  <2> QED
    BY <1>2, <1>5, <2>1, Kinds DEF LineInv, LineTypeOK, Bytes
<1>9. \A i \in 1 .. Len(held') : start' + i > eol'
  BY <1>2, <1>3, <1>4
<1> QED
  BY <1>7, <1>8, <1>9 DEF LineInv, InStep, Sequenced, RoomToReceive

\* With no line to cut, none of what is held ends one. When the buffer is full,
\* no less than the reserve of the line has come; when not, there is room.
LEMMA NoLineFacts ==
  ASSUME LineInv, NoLine
  PROVE  /\ \A i \in 1 .. Len(held) : held[i] # NewLine
         /\ LineTypeOK' /\ RoomToReceive' /\ UNCHANGED <<coming, number>>
         /\ step = "lines" /\ step' = "receive"
         /\ \/ /\ held' = <<>> /\ Len(held) >= Reserve /\ Len(held) \in Nat
               /\ expected' = IF cut THEN expected ELSE Following(expected)
               /\ cut' = TRUE
            \/ UNCHANGED <<held, expected, cut>>
<1>1. /\ held \in Seq(Bytes) /\ Len(held) \in Nat
      /\ start \in Nat /\ end \in Nat /\ eol \in Nat /\ Size \in Nat
      /\ Reserve \in Nat /\ 0 < Reserve /\ Reserve <= Size
      /\ start <= eol /\ eol <= end /\ end <= Size
      /\ Len(held) = end - start
  BY LineFacts DEF LineInv
<1>2. \A i \in 1 .. Len(held) : held[i] # NewLine
  BY DEF LineInv, InStep, NoLine, Ends
<1> DEFINE searched == IF held = <<>> THEN eol ELSE end
           moves == Nearly(start)
           eolMoved == IF moves THEN Moved(start, searched) ELSE searched
           full == eolMoved = Size
<1>3. /\ step = "lines" /\ step' = "receive"
      /\ start' = IF moves \/ full THEN 0 ELSE start
      /\ end' = IF full THEN 0 ELSE IF moves THEN end - start ELSE end
      /\ eol' = IF full THEN 0 ELSE eolMoved
      /\ held' = IF full THEN <<>> ELSE held
      /\ expected' = IF full /\ ~cut THEN Following(expected) ELSE expected
      /\ cut' = (full \/ cut)
      /\ UNCHANGED <<coming, number>>
  BY DEF NoLine
<1>4. held = <<>> => Len(held) = 0
  BY EmptySeq
<1>5. searched = end /\ searched \in Nat
  <2>1. held = <<>> => eol = end
    BY <1>1, <1>4
  <2> QED
    BY <1>1, <2>1
<1>6. eolMoved = IF moves THEN end - start ELSE end
  BY <1>5 DEF Moved
<1>7. moves <=> Size - start < Reserve
  BY DEF Nearly
<1> HIDE DEF searched, moves, eolMoved
<1>8. CASE full
  <2>1. held' = <<>> /\ cut' = TRUE /\ start' = 0 /\ end' = 0 /\ eol' = 0
    BY <1>3, <1>8
  <2>2. expected' = IF cut THEN expected ELSE Following(expected)
    BY <1>3, <1>8
  <2>3. Len(held) >= Reserve
    BY <1>1, <1>6, <1>7, <1>8
  <2>4. Len(<<>>) = 0 /\ <<>> \in Seq(Bytes)
    BY EmptySeq
  <2>5. LineTypeOK'
    <3>1. expected' \in 0 .. Numbers - 1
      BY <2>2, Kinds DEF LineInv, LineTypeOK
    <3>2. 0 \in 0 .. Size /\ 0 \in 0 .. 0 /\ 0 = 0 - 0
      BY <1>1
    <3>3. Len(held') = end' - start' /\ held' \in Seq(Bytes)
      BY <2>1, <2>4, <3>2
    <3>4. start' \in 0 .. Size /\ end' \in start' .. Size /\ eol' \in start' .. end'
      BY <2>1, <3>2
    <3>5. coming' \in Seq(Bytes) /\ number' \in 0 .. Numbers - 1
      BY <1>3 DEF LineInv, LineTypeOK, Bytes
    <3> QED
      BY <1>3, <2>1, <3>1, <3>3, <3>4, <3>5 DEF LineTypeOK, Bytes
  <2>6. RoomToReceive'
    BY <1>1, <2>1 DEF RoomToReceive, Room
  <2> QED
    BY <1>1, <1>2, <1>3, <2>1, <2>2, <2>3, <2>5, <2>6
<1>9. CASE ~full
  <2>1. UNCHANGED <<held, expected>> /\ cut' = cut
    BY <1>3, <1>9 DEF LineInv, LineTypeOK
  <2>2. /\ start' = IF moves THEN 0 ELSE start
        /\ end' = IF moves THEN end - start ELSE end
        /\ eol' = end'
    BY <1>3, <1>6, <1>9
  <2>3. /\ start' \in 0 .. Size /\ end' \in start' .. Size /\ eol' \in start' .. end'
        /\ Len(held) = end' - start' /\ end' # Size
    BY <1>1, <1>6, <1>9, <2>2
  <2>4. LineTypeOK'
    BY <1>3, <2>1, <2>3 DEF LineInv, LineTypeOK
  <2>5. RoomToReceive'
    <3>1. end' \in Nat /\ end' < Size
      BY <1>1, <2>3
    <3>2. Size \in Nat /\ \A x, y \in Nat : x < y => y - x > 0
      BY <1>1
    <3>3. Size - end' > 0
      BY <3>1, <3>2
    <3> QED
      BY <3>3 DEF RoomToReceive, Room
  <2> QED
    BY <1>2, <1>3, <2>1, <2>4, <2>5
<1> QED
  BY <1>8, <1>9

\* Without a line, what is held stays, or is the beginning of a line given up.
LEMMA NoLineInv ==
  ASSUME LineInv, NoLine
  PROVE  LineInv'
<1> USE NoLineFacts
<1>1. /\ held \in Seq(Bytes) /\ coming \in Seq(Bytes) /\ Stream \in Seq(Bytes)
      /\ Len(held) \in Nat /\ Len(coming) \in Nat
      /\ Len(Stream) = Len(held) + Len(coming)
      /\ \A i \in 1 .. Len(held) : Stream[i] = held[i]
      /\ Reserve \in Nat /\ 0 < Reserve
  BY LineFacts DEF LineInv
<1>2. CASE UNCHANGED <<held, expected, cut>>
  <2>1. Stream' = Stream
    BY <1>2 DEF Stream
  <2> QED
    BY <1>2, <2>1 DEF LineInv, InStep
<1>3. CASE /\ held' = <<>> /\ Len(held) >= Reserve
           /\ expected' = IF cut THEN expected ELSE Following(expected)
           /\ cut' = TRUE
  <2> DEFINE p == Len(held)
  <2>1. p \in 0 .. Len(held) /\ p \in 1 .. Len(held) /\ p \in 1 .. Len(Stream)
    BY <1>1, <1>3
  <2>2. Stream' = SubSeq(Stream, p + 1, Len(Stream))
    <3>1. SubSeq(held, p + 1, Len(held)) = <<>>
      BY <1>1, SubSeqEmpty
    <3>2. <<>> \o coming = SubSeq(Stream, p + 1, Len(Stream))
      BY <1>1, <2>1, <3>1, DropOfConcat DEF Stream
    <3> QED
      BY <1>3, <3>2 DEF Stream
  <2>3. Stream[p] # NewLine /\ \A i \in 1 .. p - 1 : Stream[i] # NewLine
    BY <1>1, <2>1
  <2> HIDE DEF p
  <2>4. Sequenced(Stream', cut', expected', number')
    <3>1. Sequenced(Stream, cut, expected, number)
      BY DEF LineInv, InStep, Sequenced
    <3>2. /\ cut \in BOOLEAN /\ expected \in 0 .. Numbers - 1
          /\ number \in 0 .. Numbers - 1
      BY DEF LineInv, LineTypeOK
    <3>3. Sequenced(SubSeq(Stream, p + 1, Len(Stream)), Stream[p] # NewLine,
                    IF cut THEN expected ELSE Following(expected), number)
      BY <1>1, <2>1, <2>3, <3>1, <3>2, SequencedDrop
    <3>4. (Stream[p] # NewLine) = TRUE
      BY <2>3
    <3> QED
      BY <1>3, <2>2, <3>3, <3>4
  <2>5. \A i \in 1 .. Len(held') : held'[i] = NewLine => start' + i > eol'
    <3>1. 1 .. Len(held') = {}
      BY <1>3, EmptySeq
    <3> QED
      BY <3>1
  <2> QED
    BY <2>4, <2>5 DEF LineInv, InStep, Sequenced
<1> QED
  BY <1>2, <1>3

\* Every step of the buffer preserves the invariant.
LEMMA LineStep ==
  ASSUME LineInv, [LineNext]_lineVars
  PROVE  LineInv'
<1>1. CASE ReceivesNothing
  BY <1>1 DEF ReceivesNothing, LineInv, LineTypeOK, InStep, RoomToReceive, Stream, Ended
<1>2. CASE UNCHANGED lineVars
  BY <1>2 DEF lineVars, LineInv, LineTypeOK, InStep, RoomToReceive, Room, Stream, Ended
<1> QED
  BY <1>1, <1>2, ArrivesInv, ReceiveInv, TakeLineInv, NoLineInv DEF LineNext

------------------------------------------------------------------------------
(* The converters read their lines from it. *)

\* A step of a converter is a step of the buffer, or leaves it as it is.
LEMMA StepsOfBuffer == [Next]_vars => [LineNext]_lineVars
<1>1. ASSUME ReadLine PROVE LineNext
  <2>1. TakeLine /\ step = "lines"
    BY <1>1 DEF ReadLine, TakeLine
  <2>2. (\E r \in SbsReports : Track(r)) => step' \in {step, "done"}
    BY DEF Track
  <2>3. (\E m \in Sentences : Skipped(m) \/ Flarm(m)) => step' \in {step, "done"}
    <3>1. ASSUME NEW m \in Sentences, Flarm(m) PROVE step' \in {step, "done"}
      BY <3>1, Zenon DEF Flarm
    <3>2. ASSUME NEW m \in Sentences, Skipped(m) PROVE step' \in {step, "done"}
      BY <3>2 DEF Skipped
    <3> QED
      BY <3>1, <3>2
  <2>4. step' \in {step, "done"}
    BY <1>1, <2>2, <2>3 DEF ReadLine, Crashes
  <2> QED
    BY <2>1, <2>4 DEF LineNext
<1>2. ASSUME ReadPacket PROVE [LineNext]_lineVars
  <2>1. /\ step = "receive" /\ step' \in {step, "done"}
        /\ UNCHANGED <<start, end, eol, held, coming, number, expected, cut>>
    BY <1>2 DEF ReadPacket, Track
  <2>2. CASE step' = step
    BY <2>1, <2>2 DEF lineVars
  <2>3. CASE step' = "done"
    BY <2>1, <2>3 DEF LineNext, ReceivesNothing
  <2> QED
    BY <2>1, <2>2, <2>3
<1>3. ReadInput \/ EndOfInput => LineNext
  BY DEF ReadInput, EndOfInput, LineNext
<1>4. UNCHANGED vars => UNCHANGED lineVars
  BY DEF vars
<1> QED
  BY <1>1, <1>2, <1>3, <1>4 DEF Next

\* The converters, whatever they do with the lines, behave as the buffer alone
\* may: what is proved of the buffer holds in each of them (sbs2sgctp/main.cpp and
\* flarm2sgctp/main.cpp hold the same code).
THEOREM ConverterReadsLines == Spec => LineSpec
<1>1. Init => LineInit
  BY DEF Init
<1> QED
  BY <1>1, StepsOfBuffer, PTL DEF Spec, LineSpec

\* The buffer's invariant, in any program that uses it.
LEMMA LineInvariant == LineSpec => []LineInv
BY LineInitInv, LineStep, PTL DEF LineSpec

\* Whatever pieces recv() cuts the input into, the buffer's moves and the lines it
\* gives up, the lines are cut in step with the input, what was searched holds no
\* end of line, and recv() is never called without room.
THEOREM ConverterLines == Spec => []LinesInStep
<1>1. LineInv => LinesInStep
  BY DEF LineInv, LinesInStep
<1> QED
  BY <1>1, ConverterReadsLines, LineInvariant, PTL

\* A step that gives up what is held, or forgets bytes of it other than a line,
\* finds no less than the reserve of it.
LEMMA LosesLong ==
  ASSUME LineInv, [LineNext]_lineVars,
         \/ cut' /\ ~cut
         \/ step = "lines" /\ step' = "receive" /\ Len(held') < Len(held)
  PROVE  Len(held) >= Reserve
<1>1. CASE Arrives \/ ReceivesNothing \/ UNCHANGED lineVars
  <2>1. UNCHANGED <<held, cut>>
    BY <1>1 DEF Arrives, ReceivesNothing, lineVars
  <2>2. Len(held) \in Nat
    BY LineFacts DEF LineInv
  <2> QED
    BY <2>1, <2>2
<1>2. CASE Receive
  <2>1. step = "receive" /\ cut' = cut
    BY <1>2 DEF Receive
  <2> QED
    BY <2>1
<1>3. CASE TakeLine /\ step' \in {"lines", "done"}
  <2>1. cut' = FALSE /\ step' # "receive"
    BY <1>3 DEF TakeLine
  <2> QED
    BY <2>1
<1>4. CASE NoLine
  <2>1. Len(held) \in Nat
    BY LineFacts DEF LineInv
  <2>2. CASE UNCHANGED <<held, expected, cut>>
    BY <2>1, <2>2
  <2>3. CASE Len(held) >= Reserve
    BY <2>3
  <2> QED
    BY <1>4, <2>2, <2>3, NoLineFacts
<1> QED
  BY <1>1, <1>2, <1>3, <1>4 DEF LineNext

\* No line shorter than the reserve is ever lost: 1024 bytes, many times what an
\* SBS-1 message or an NMEA sentence may have.
THEOREM ConverterLosesLong == Spec => OnlyLongLinesLost
<1>1. LineInv /\ [LineNext]_lineVars
        => [(\/ cut' /\ ~cut
             \/ step = "lines" /\ step' = "receive" /\ Len(held') < Len(held))
            => Len(held) >= Reserve]_lineVars
  BY LosesLong
<1> QED
  BY <1>1, ConverterReadsLines, LineInvariant, PTL DEF LineSpec, OnlyLongLinesLost

------------------------------------------------------------------------------
(* The map of containers. *)

\* The reference is flarm2sgctp's, the names are the others' business.
EachItsOwn ==
  /\ program # "flarm" => reference = Nobody
  /\ program = "flarm" => heard = {}

\* The time the reference has is the one the epoch was taken for, as long as the
\* reference was neither changed for a container in use nor written as traffic.
ReferenceDated ==
  ~switched =>
    /\ ~misdated
    /\ reference # Nobody /\ "time" \in containers[reference].fields
         => containers[reference].dated

\* The inductive invariant of the map.
MapInv == MapInStep /\ EachItsOwn /\ ReferenceDated

\* The map after a clean-up.
LEMMA WithoutFacts ==
  ASSUME NEW old
  PROVE  /\ DOMAIN Without(old) = DOMAIN containers \ old
         /\ \A s \in DOMAIN containers \ old : Without(old)[s] = containers[s]
BY DEF Without

\* A map after a container was stored in it.
LEMMA StoredFacts ==
  ASSUME NEW map, NEW s, NEW c
  PROVE  /\ DOMAIN Stored(map, s, c) = DOMAIN map \cup {s}
         /\ \A t \in DOMAIN map \cup {s} :
              Stored(map, s, c)[t] = IF t = s THEN c ELSE map[t]
BY DEF Stored

\* The container of a source is one, whether the map has it or not.
LEMMA FoundFacts ==
  ASSUME TypeOK, NEW old, NEW s, NEW named \in BOOLEAN
  PROVE  /\ Found(Without(old), s, named) \in Container
         /\ s \in DOMAIN containers \ old
              => Found(Without(old), s, named) = containers[s]
         /\ s \notin DOMAIN containers \ old
              => Found(Without(old), s, named).fields = {}
<1> DEFINE map == Without(old)
<1>1. /\ DOMAIN map = DOMAIN containers \ old
      /\ \A t \in DOMAIN containers \ old : map[t] = containers[t]
  BY WithoutFacts
<1> HIDE DEF map
<1>2. Created(named) \in Container /\ Created(named).fields = {}
  BY DEF Created, Container
<1>3. Found(map, s, named) = IF s \in DOMAIN containers \ old THEN containers[s]
                             ELSE Created(named)
  BY <1>1 DEF Found
<1> QED
  BY <1>2, <1>3 DEF TypeOK, map

\* The initial state.
LEMMA MapInitInv == Init => MapInv
<1> SUFFICES ASSUME Init PROVE MapInv
  OBVIOUS
<1>1. DOMAIN containers = {}
  BY DEF Init
<1>2. TypeOK
  BY <1>1 DEF Init, TypeOK
<1> QED
  BY <1>1, <1>2 DEF Init, MapInv, MapInStep, EachItsOwn, ReferenceDated

\* A message of sbs2sgctp or ais2sgctp: a name heard stays with its container,
\* unless this message brings a blank one.
LEMMA TrackInv ==
  ASSUME MapInv, program # "flarm", NEW r \in SbsReports \cup AisReports, Track(r)
  PROVE  MapInv'
<1>1. /\ r \in Reports /\ r.source \in Sources
      /\ r.kind = "unhandled" => r.name = "none"
  BY DEF SbsReports, AisReports, Reports
<1>2. TypeOK
  BY DEF MapInv, MapInStep
<1>3. reference = Nobody
  BY DEF MapInv, EachItsOwn
<1>4. PICK old \in CleanUps :
        /\ containers' = Stored(Without(old), r.source,
             Completed(Identified(Found(Without(old), r.source, FALSE), r), r))
        /\ heard' = {s \in (heard \ old) \cup {r.source} :
                       s = r.source => Names(s \in heard \ old, r)}
  BY DEF Track
<1>5. UNCHANGED <<program, option, sID, reference, epoch, switched, misdated>>
  BY DEF Track
<1> DEFINE found == Found(Without(old), r.source, FALSE)
           named == Identified(found, r)
           c == Completed(named, r)
<1>6. found \in Container
  BY <1>2, FoundFacts
<1>7. r.source \in DOMAIN containers \ old => found = containers[r.source]
  BY <1>2, FoundFacts
<1> HIDE DEF found
<1>8. /\ named \in Container
      /\ Names(found.named, r) => named.named
  BY <1>1, <1>2, <1>6 DEF Identified, Names, Container, TypeOK, Reports
<1> HIDE DEF named
<1>9. c \in Container /\ c.named = named.named
  BY <1>1, <1>8 DEF Completed, Container, Fields, Reports
<1> HIDE DEF c
<1>10. /\ DOMAIN containers' = (DOMAIN containers \ old) \cup {r.source}
       /\ \A t \in DOMAIN containers' :
            containers'[t] = IF t = r.source THEN c ELSE containers[t]
  <2> DEFINE map == Without(old)
  <2>1. /\ DOMAIN map = DOMAIN containers \ old
        /\ \A t \in DOMAIN containers \ old : map[t] = containers[t]
    BY WithoutFacts
  <2>2. containers' = Stored(map, r.source, c)
    BY <1>4 DEF c, named, found
  <2> HIDE DEF map
  <2> DEFINE stored == Stored(map, r.source, c)
  <2>3. /\ DOMAIN stored = DOMAIN map \cup {r.source}
        /\ \A t \in DOMAIN map \cup {r.source} :
             stored[t] = IF t = r.source THEN c ELSE map[t]
    BY DEF Stored
  <2>4. containers' = stored
    BY <2>2
  <2> HIDE DEF stored
  <2> QED
    BY <2>1, <2>3, <2>4
<1>11. TypeOK'
  BY <1>1, <1>2, <1>4, <1>5, <1>9, <1>10 DEF TypeOK
<1>12. ASSUME NEW t \in heard'
       PROVE  t \in DOMAIN containers' /\ containers'[t].named
  <2>1. CASE t = r.source
    <3>1. Names(t \in heard \ old, r)
      BY <1>4, <1>12, <2>1
    <3>2. t \in heard \ old => found.named
      BY <1>7, <2>1 DEF MapInv, MapInStep
    <3>3. Names(found.named, r)
      BY <3>1, <3>2 DEF Names
    <3> QED
      BY <1>8, <1>9, <1>10, <2>1, <3>3
  <2>2. CASE t # r.source
    <3>1. t \in heard \ old
      BY <1>4, <1>12, <2>2
    <3>2. t \in DOMAIN containers \ old /\ containers[t].named
      BY <3>1 DEF MapInv, MapInStep
    <3> QED
      BY <1>10, <2>2, <3>2
  <2> QED
    BY <2>1, <2>2
<1>13. MapInStep'
  BY <1>3, <1>5, <1>11, <1>12 DEF MapInStep
<1> QED
  BY <1>3, <1>5, <1>13 DEF MapInv, EachItsOwn, ReferenceDated

\* What flarm2sgctp knows of the originator of a sentence.
LEMMA SentenceFacts ==
  ASSUME TypeOK, NEW m \in Sentences
  PROVE  /\ OwnId(m) \in Sources \cup {Nobody}
         /\ Originator(m) \in Sources \cup {Nobody}
         /\ m.type \notin {"$PFLAU", "$PFLAA"} => Originator(m) = reference
         /\ FieldsOf(m) \subseteq Fields \/ m.type \notin Position
         /\ TakesEpoch(m) => m.type \in Position
         /\ m.type \in Position /\ ~TakesEpoch(m) => FieldsOf(m) = {}
<1>1. OwnId(m) \in Sources \cup {Nobody}
  BY DEF OwnId, Sentences, TypeOK, Position
<1>2. m.type = "$PFLAA" => m.source \in Sources \cup {Nobody}
  BY DEF Sentences, Position
<1>3. m.type \in Position => m.good \subseteq Fields
  BY DEF Sentences, Position, Fix, Fields
<1> QED
  BY <1>1, <1>2, <1>3 DEF Originator, TypeOK, FieldsOf, TakesEpoch, Position

\* A sentence without a source.
LEMMA SkippedInv ==
  ASSUME MapInv, NEW m \in Sentences, Skipped(m)
  PROVE  MapInv'
<1>1. TypeOK
  BY DEF MapInv, MapInStep
<1>2. /\ sID' = OwnId(m)
      /\ UNCHANGED <<program, option, containers, reference, epoch, heard,
                     switched, misdated>>
  BY DEF Skipped
<1>3. TypeOK'
  BY <1>1, <1>2, SentenceFacts DEF TypeOK
<1> QED
  BY <1>2, <1>3 DEF MapInv, MapInStep, EachItsOwn, ReferenceDated

\* The reference's container after a sentence.
LEMMA FixedFacts ==
  ASSUME TypeOK, NEW m \in Sentences, NEW c \in Container
  PROVE  /\ Fixed(c, m) \in Container
         /\ ("time" \in c.fields => c.dated)
              => ("time" \in Fixed(c, m).fields => Fixed(c, m).dated)
<1>1. CASE m.type \in Position
  <2> DEFINE d == [c EXCEPT !.fields = @ \cup FieldsOf(m),
                            !.dated = @ \/ TakesEpoch(m)]
  <2> HIDE DEF d
  <2>a. m.type # "$PGRMZ"
    BY <1>1 DEF Position
  <2>1. Fixed(c, m) = d
    BY <1>1, <2>a DEF Fixed, d
  <2>2. /\ Fixed(c, m).fields = c.fields \cup FieldsOf(m)
        /\ Fixed(c, m).dated = (c.dated \/ TakesEpoch(m))
        /\ Fixed(c, m) \in Container
    BY <1>1, <2>1, SentenceFacts DEF Container, TakesEpoch, d
  <2> QED
    BY <1>1, <2>2, SentenceFacts
<1>2. CASE m.type \notin Position
  BY <1>2 DEF Fixed, Container, Fields
<1> QED
  BY <1>1, <1>2

\* A sentence of the device or on traffic: the reference is a container of the
\* map, and stays dated by the epoch unless it was switched or written as traffic.
LEMMA FlarmInv ==
  ASSUME MapInv, program = "flarm", NEW m \in Sentences, Flarm(m)
  PROVE  MapInv'
<1> DEFINE s == Originator(m)
           looked(o) == Stored(Without(o), s, Found(Without(o), s, TRUE))
           r(o) == IF m.type = "$PFLAU" THEN s ELSE ReferenceLeft(o)
           known(o) == r(o) \in DOMAIN looked(o)
           traffic(o) == m.type = "$PFLAA" /\ known(o) /\ Relates(looked(o)[r(o)])
<1>1. PICK old \in CleanUps :
        /\ s # Nobody
        /\ sID' = OwnId(m)
        /\ reference' = r(old)
        /\ epoch' = (epoch \/ (known(old) /\ TakesEpoch(m)))
        /\ containers' =
             IF ~known(old) THEN looked(old)
             ELSE IF traffic(old)
                  THEN Stored(looked(old), s, [looked(old)[s] EXCEPT !.fields = Fields,
                                                                     !.dated = FALSE])
                  ELSE Redated(Stored(looked(old), r(old), Fixed(looked(old)[r(old)], m)),
                               m, r(old))
        /\ switched' = (switched \/ (traffic(old) /\ s = r(old))
                        \/ (r(old) \notin {reference, Nobody}
                            /\ "time" \in looked(old)[r(old)].fields))
        /\ misdated' = (misdated \/ (traffic(old) /\ ~looked(old)[r(old)].dated))
        /\ UNCHANGED <<program, option, heard>>
  BY Zenon DEF Flarm
<1>2. TypeOK /\ heard = {}
  BY DEF MapInv, MapInStep, EachItsOwn
<1> DEFINE before == looked(old)
           ref == r(old)
           placed == traffic(old)
<1>3. s \in Sources
  BY <1>1, <1>2, SentenceFacts
<1>4. /\ DOMAIN before = (DOMAIN containers \ old) \cup {s}
      /\ \A t \in DOMAIN before : before[t] \in Container
      /\ \A t \in DOMAIN containers \ old : before[t] = containers[t]
      /\ s \notin DOMAIN containers \ old => before[s].fields = {}
  <2> DEFINE found == Found(Without(old), s, TRUE)
             map == Without(old)
  <2>1. /\ found \in Container
        /\ s \in DOMAIN containers \ old => found = containers[s]
        /\ s \notin DOMAIN containers \ old => found.fields = {}
    BY <1>2, FoundFacts
  <2>2. /\ DOMAIN map = DOMAIN containers \ old
        /\ \A t \in DOMAIN containers \ old : map[t] = containers[t]
    BY WithoutFacts
  <2>3. before = Stored(map, s, found)
    OBVIOUS
  <2> HIDE DEF found, map, s, looked
  <2>4. /\ DOMAIN before = DOMAIN map \cup {s}
        /\ \A t \in DOMAIN map \cup {s} :
             before[t] = IF t = s THEN found ELSE map[t]
    BY <2>3 DEF Stored
  <2> QED
    BY <1>2, <2>1, <2>2, <2>4 DEF TypeOK
<1>5. ref # Nobody => ref \in DOMAIN before
  <2>1. CASE m.type = "$PFLAU"
    BY <1>4, <2>1
  <2>2. CASE m.type # "$PFLAU"
    <3>1. ref = ReferenceLeft(old)
      BY <2>2
    <3>2. reference # Nobody => reference \in DOMAIN containers
      BY DEF MapInv, MapInStep
    <3> QED
      BY <1>4, <3>1, <3>2 DEF ReferenceLeft
  <2> QED
    BY <2>1, <2>2
<1>6. ref \in Sources \cup {Nobody}
  BY <1>2, <1>3 DEF ReferenceLeft, TypeOK
<1>7. placed => /\ m.type = "$PFLAA" /\ ref \in DOMAIN before
                /\ "time" \in before[ref].fields
  BY DEF Relates, Fields
<1>8. /\ reference' = ref
      /\ switched' = (switched \/ (placed /\ s = ref)
                      \/ (ref \notin {reference, Nobody}
                          /\ "time" \in before[ref].fields))
      /\ misdated' = (misdated \/ (placed /\ ~before[ref].dated))
      /\ sID' = OwnId(m) /\ UNCHANGED <<program, option, heard>>
      /\ epoch' \in BOOLEAN
  BY <1>1, <1>2 DEF TypeOK
<1>9. /\ ref \notin DOMAIN before => containers' = before
      /\ placed => containers' = Stored(before, s, [before[s] EXCEPT !.fields = Fields,
                                                                     !.dated = FALSE])
      /\ ref \in DOMAIN before /\ ~placed
           => containers' = Redated(Stored(before, ref, Fixed(before[ref], m)), m, ref)
  BY <1>1
<1> HIDE DEF s, looked, r, known, traffic, before, ref, placed
<1>10. /\ DOMAIN containers' = DOMAIN before
       /\ \A t \in DOMAIN before : containers'[t] \in Container
       /\ ref \in DOMAIN before =>
            \/ placed /\ s = ref
            \/ placed /\ containers'[ref] = before[ref]
            \/ ("time" \in before[ref].fields => before[ref].dated)
                 => ("time" \in containers'[ref].fields => containers'[ref].dated)
  <2>1. CASE placed
    <3> DEFINE c == [before[s] EXCEPT !.fields = Fields, !.dated = FALSE]
               stored == Stored(before, s, c)
    <3>1. s \in DOMAIN before /\ c \in Container
      BY <1>4 DEF Container, Fields
    <3>2. containers' = stored
      BY <1>9, <2>1
    <3> HIDE DEF c
    <3>3. /\ DOMAIN stored = DOMAIN before \cup {s}
          /\ \A t \in DOMAIN before \cup {s} :
               stored[t] = IF t = s THEN c ELSE before[t]
      BY DEF Stored
    <3> HIDE DEF stored
    <3> QED
      BY <1>4, <2>1, <3>1, <3>2, <3>3
  <2>2. CASE ~placed /\ ref \in DOMAIN before
    <3> DEFINE c == Fixed(before[ref], m)
               stored == Stored(before, ref, c)
               last == Redated(stored, m, ref)
    <3>1. containers' = last
      BY <1>9, <2>2
    <3>2. /\ c \in Container
          /\ ("time" \in before[ref].fields => before[ref].dated)
               => ("time" \in c.fields => c.dated)
      BY <1>2, <1>4, <2>2, FixedFacts
    <3> HIDE DEF c
    <3>3. /\ DOMAIN stored = DOMAIN before
          /\ \A t \in DOMAIN before :
               stored[t] = IF t = ref THEN c ELSE before[t]
      BY <2>2 DEF Stored
    <3> HIDE DEF stored
    <3>4. /\ DOMAIN last = DOMAIN before
          /\ \A t \in DOMAIN before : last[t] \in Container
          /\ last[ref].fields = c.fields /\ (last[ref].dated <=> c.dated)
      <4>1. \A t \in DOMAIN before : stored[t] \in Container
        BY <1>4, <3>2, <3>3
      <4>2. stored[ref] = c
        BY <2>2, <3>3
      <4>3. CASE TakesEpoch(m)
        <5>1. last = [t \in DOMAIN stored |-> [stored[t] EXCEPT !.dated = @ /\ t = ref]]
          BY <4>3 DEF Redated
        <5> HIDE DEF last
        <5>2. \A t \in DOMAIN before :
                last[t] = [stored[t] EXCEPT !.dated = @ /\ t = ref]
          BY <3>3, <5>1
        <5>3. \A t \in DOMAIN before :
                /\ last[t] \in Container
                /\ last[t].fields = stored[t].fields
                /\ last[t].dated = (stored[t].dated /\ t = ref)
          BY <4>1, <5>2 DEF Container
        <5> QED
          BY <2>2, <3>3, <4>2, <5>1, <5>3
      <4>4. CASE ~TakesEpoch(m)
        BY <3>3, <4>1, <4>2, <4>4 DEF Redated
      <4> QED
        BY <4>3, <4>4
    <3> HIDE DEF last
    <3> QED
      BY <2>2, <3>1, <3>2, <3>4
  <2>3. CASE ref \notin DOMAIN before
    BY <1>4, <1>9, <2>3
  <2> QED
    BY <2>1, <2>2, <2>3
<1>11. TypeOK'
  <2>1. DOMAIN containers' \subseteq Sources
    BY <1>2, <1>3, <1>4, <1>10 DEF TypeOK
  <2>2. OwnId(m) \in Sources \cup {Nobody}
    BY <1>2, SentenceFacts
  <2>3. switched' \in BOOLEAN /\ misdated' \in BOOLEAN
    BY <1>8
  <2> QED
    BY <1>2, <1>6, <1>8, <1>10, <2>1, <2>2, <2>3 DEF TypeOK
<1>12. MapInStep'
  BY <1>2, <1>5, <1>8, <1>10, <1>11 DEF MapInStep
<1>13. ReferenceDated'
  <2> SUFFICES ASSUME ~switched'
               PROVE  /\ ~misdated'
                      /\ ref # Nobody /\ "time" \in containers'[ref].fields
                           => containers'[ref].dated
    BY <1>8 DEF ReferenceDated
  <2>1. ~switched /\ ~(placed /\ s = ref)
    BY <1>8
  <2>2. ref \in DOMAIN before /\ "time" \in before[ref].fields => before[ref].dated
    <3> SUFFICES ASSUME ref \in DOMAIN before, "time" \in before[ref].fields
                 PROVE  before[ref].dated
      OBVIOUS
    <3>1. ref \in {reference, Nobody}
      BY <1>8
    <3>2. Nobody \notin DOMAIN before
      BY <1>2, <1>3, <1>4, NobodyAssumption DEF TypeOK
    <3>3. ref = reference /\ reference # Nobody
      BY <3>1, <3>2
    <3>4. CASE reference \in DOMAIN containers \ old
      <4>1. before[ref] = containers[reference]
        BY <1>4, <3>3, <3>4
      <4> QED
        BY <2>1, <3>3, <4>1 DEF MapInv, ReferenceDated
    <3>5. CASE reference \notin DOMAIN containers \ old
      <4>1. reference \in old
        BY <3>3, <3>5 DEF MapInv, MapInStep
      <4>2. m.type = "$PFLAU" /\ ref = s
        BY <3>3, <4>1 DEF ref, r, ReferenceLeft
      <4> QED
        BY <1>4, <3>3, <4>1, <4>2
    <3> QED
      BY <3>4, <3>5
  <2>3. ~misdated
    BY <2>1 DEF MapInv, ReferenceDated
  <2> QED
    BY <1>5, <1>7, <1>8, <1>10, <2>1, <2>2, <2>3
<1>14. EachItsOwn'
  BY <1>2, <1>8 DEF EachItsOwn
<1> QED
  BY <1>12, <1>13, <1>14 DEF MapInv

\* Every step preserves the invariant.
LEMMA MapStep ==
  ASSUME MapInv, [Next]_vars
  PROVE  MapInv'
<1>1. CASE ReadLine
  <2>1. CASE UNCHANGED dataVars
    BY <2>1 DEF dataVars, MapInv, MapInStep, TypeOK, EachItsOwn, ReferenceDated
  <2>2. CASE program = "sbs" /\ \E r \in SbsReports : Track(r)
    BY <2>2, TrackInv
  <2>3. CASE program = "flarm" /\ \E m \in Sentences : Skipped(m) \/ Flarm(m)
    BY <2>3, SkippedInv, FlarmInv
  <2>4. CASE Crashes
    BY <2>1, <2>4 DEF Crashes
  <2> QED
    BY <1>1, <2>1, <2>2, <2>3, <2>4 DEF ReadLine
<1>2. CASE ReadPacket
  BY <1>2, TrackInv DEF ReadPacket
<1>3. CASE UNCHANGED dataVars
  BY <1>3 DEF dataVars, MapInv, MapInStep, TypeOK, EachItsOwn, ReferenceDated
<1> QED
  BY <1>1, <1>2, <1>3 DEF Next, ReadInput, EndOfInput, vars

\* The map is in step with all that points into it.
LEMMA MapInvariant == Spec => []MapInv
BY MapInitInv, MapStep, PTL DEF Spec

\* __poDataReference is a container of the map, never one the clean-up deleted, and
\* a source whose name was heard is known by it until its container is taken or a
\* blank call sign comes.
THEOREM ConverterMap == Spec => []MapInStep
<1>1. MapInv => MapInStep
  BY DEF MapInv
<1> QED
  BY <1>1, MapInvariant, PTL

\* Traffic is dated by the fix of the reference and the time since, as long as the
\* reference stays and is not itself reported as traffic.
THEOREM ConverterDates == Spec => []TrafficIsDated
<1>1. MapInv => TrafficIsDated
  BY DEF MapInv, ReferenceDated, TrafficIsDated
<1> QED
  BY <1>1, MapInvariant, PTL

==============================================================================
