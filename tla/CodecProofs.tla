----------------------------- MODULE CodecProofs -----------------------------
(***************************************************************************)
(* Proofs about Codec: what is read back of a payload is what was written, *)
(* for every container and any data; every quantity given to a setter is   *)
(* read within half a step or as the overflow it is; the hub's record has  *)
(* the latest of each field.                                               *)
(***************************************************************************)
EXTENDS Codec, SequenceTheorems, WellFoundedInduction, TLAPS

------------------------------------------------------------------------------
(* Induction and recursion on numbers. *)

\* A pair of natural numbers in their order.
Less == {p \in Nat \X Nat : p[1] < p[2]}

\* What holds of 0, and of a number whenever of the one before, holds of all.
LEMMA Induction ==
  ASSUME NEW S \in SUBSET Nat, 0 \in S,
         NEW N \in Nat, \A n \in 1 .. N : n - 1 \in S => n \in S
  PROVE  \A n \in 0 .. N : n \in S
<1> SUFFICES ASSUME NEW m \in 0 .. N, m \notin S
             PROVE  FALSE
  OBVIOUS
<1> DEFINE T == {n \in 0 .. N : n \notin S}
<1>1. T \in SUBSET Nat /\ T # {}
  OBVIOUS
<1>2. IsWellFoundedOn(Less, Nat)
  BY NatLessThanWellFounded DEF OpToRel, Less
<1>3. PICK n \in T : \A y \in T : <<y, n>> \notin Less
  BY <1>1, <1>2, WFMin
<1>4. n # 0
  OBVIOUS
<1>5. n - 1 \in 0 .. N /\ n - 1 < n /\ n \in 1 .. N
  BY <1>4
<1>6. n \in Nat /\ n - 1 \in Nat
  BY <1>5
<1> HIDE DEF T
<1>7. <<n - 1, n>> \in Less
  BY <1>5, <1>6 DEF Less
<1>8. n - 1 \notin T
  BY <1>3, <1>7
<1> QED
  BY <1>5, <1>8 DEF T

\* The steps of a recursive definition over 0 .. N, each a function of the value
\* before and the place; and a function that follows them.
Steps(S, N) == [S \X (1 .. N) -> S]
Follows(f, S, base, step, N) ==
  /\ f \in [0 .. N -> S]
  /\ f[0] = base
  /\ \A i \in 1 .. N : f[i] = step[<<f[i - 1], i>>]

\* There is one.
LEMMA Recursion ==
  ASSUME NEW S, NEW base \in S, NEW N \in Nat, NEW step \in Steps(S, N)
  PROVE  \E f : Follows(f, S, base, step, N)
<1> USE DEF Steps
<1> DEFINE Upto(n, f) == \A i \in 0 .. n :
             f[i] = IF i = 0 THEN base ELSE step[<<f[i - 1], i>>]
           T == {n \in 0 .. N : \E f \in [0 .. N -> S] : Upto(n, f)}
<1>1. 0 \in T
  <2> DEFINE f == [i \in 0 .. N |-> base]
  <2>1. f \in [0 .. N -> S] /\ f[0] = base
    OBVIOUS
  <2>2. Upto(0, f)
    BY <2>1
  <2> HIDE DEF f
  <2> QED
    BY <2>1, <2>2
<1>2. ASSUME NEW n \in 1 .. N, n - 1 \in T
      PROVE  n \in T
  <2>1. PICK f \in [0 .. N -> S] : Upto(n - 1, f)
    BY <1>2
  <2> DEFINE g == [f EXCEPT ![n] = step[<<f[n - 1], n>>]]
  <2>2. n - 1 \in 0 .. N /\ n \in 0 .. N /\ f[n - 1] \in S
    OBVIOUS
  <2>3. step[<<f[n - 1], n>>] \in S
    BY <2>2
  <2>4. g \in [0 .. N -> S] /\ g[n] = step[<<f[n - 1], n>>]
        /\ \A i \in 0 .. n - 1 : g[i] = f[i]
    BY <2>2, <2>3
  <2> HIDE DEF g
  <2>5. ASSUME NEW i \in 0 .. n
        PROVE  g[i] = IF i = 0 THEN base ELSE step[<<g[i - 1], i>>]
    <3>1. CASE i = n
      <4>1. g[n - 1] = f[n - 1] /\ n # 0
        BY <2>4
      <4> QED
        BY <3>1, <4>1, <2>4
    <3>2. CASE i # n
      <4>1. i \in 0 .. n - 1 /\ (i # 0 => i - 1 \in 0 .. n - 1)
        BY <3>2
      <4>2. g[i] = f[i] /\ (i # 0 => g[i - 1] = f[i - 1])
        BY <2>4, <4>1
      <4> QED
        BY <2>1, <4>1, <4>2
    <3> QED
      BY <3>1, <3>2
  <2> QED
    BY <2>2, <2>4, <2>5
<1> HIDE DEF T
<1>3. T \in SUBSET Nat
  BY DEF T
<1>4. N \in T
  BY <1>1, <1>2, <1>3, Induction
<1>5. PICK f \in [0 .. N -> S] : Upto(N, f)
  BY <1>4 DEF T
<1>6. Follows(f, S, base, step, N)
  <2>1. 0 \in 0 .. N /\ \A i \in 1 .. N : i \in 0 .. N /\ i # 0
    OBVIOUS
  <2> QED
    BY <1>5, <2>1 DEF Follows
<1> QED
  BY <1>6

------------------------------------------------------------------------------
(* Bits and numbers. *)

\* The powers of two that occur.
LEMMA Powers ==
  ASSUME NEW k \in 0 .. 30
  PROVE  /\ 2^k \in Nat \ {0}
         /\ k > 0 => 2^k = 2 * 2^(k - 1)
<1>1. CASE k = 0
  BY <1>1
<1>2. CASE k = 1
  BY <1>2
<1>3. CASE k = 2
  BY <1>3
<1>4. CASE k = 3
  BY <1>4
<1>5. CASE k = 4
  BY <1>5
<1>6. CASE k = 5
  BY <1>6
<1>7. CASE k = 6
  BY <1>7
<1>8. CASE k = 7
  BY <1>8
<1>9. CASE k = 8
  BY <1>9
<1>10. CASE k = 9
  BY <1>10
<1>11. CASE k = 10
  BY <1>11
<1>12. CASE k = 11
  BY <1>12
<1>13. CASE k = 12
  BY <1>13
<1>14. CASE k = 13
  BY <1>14
<1>15. CASE k = 14
  BY <1>15
<1>16. CASE k = 15
  BY <1>16
<1>17. CASE k = 16
  BY <1>17
<1>18. CASE k = 17
  BY <1>18
<1>19. CASE k = 18
  BY <1>19
<1>20. CASE k = 19
  BY <1>20
<1>21. CASE k = 20
  BY <1>21
<1>22. CASE k = 21
  BY <1>22
<1>23. CASE k = 22
  BY <1>23
<1>24. CASE k = 23
  BY <1>24
<1>25. CASE k = 24
  BY <1>25
<1>26. CASE k = 25
  BY <1>26
<1>27. CASE k = 26
  BY <1>27
<1>28. CASE k = 27
  BY <1>28
<1>29. CASE k = 28
  BY <1>29
<1>30. CASE k = 29
  BY <1>30
<1>31. CASE k = 30
  BY <1>31
<1> QED
  BY <1>1, <1>2, <1>3, <1>4, <1>5, <1>6, <1>7, <1>8, <1>9, <1>10, <1>11, <1>12,
     <1>13, <1>14, <1>15, <1>16, <1>17, <1>18, <1>19, <1>20, <1>21, <1>22, <1>23,
     <1>24, <1>25, <1>26, <1>27, <1>28, <1>29, <1>30, <1>31

\* The bits of the mark of an overflow.
LEMMA MarkBits ==
  ASSUME NEW k \in 0 .. 30
  PROVE  (OverflowMark \div 2^k) % 2 = 1
<1> USE DEF OverflowMark
<1>1. CASE k = 0
  BY <1>1, SMT
<1>2. CASE k = 1
  BY <1>2, SMT
<1>3. CASE k = 2
  BY <1>3, SMT
<1>4. CASE k = 3
  BY <1>4, SMT
<1>5. CASE k = 4
  BY <1>5, SMT
<1>6. CASE k = 5
  BY <1>6, SMT
<1>7. CASE k = 6
  BY <1>7, SMT
<1>8. CASE k = 7
  BY <1>8, SMT
<1>9. CASE k = 8
  BY <1>9, SMT
<1>10. CASE k = 9
  BY <1>10, SMT
<1>11. CASE k = 10
  BY <1>11, SMT
<1>12. CASE k = 11
  BY <1>12, SMT
<1>13. CASE k = 12
  BY <1>13, SMT
<1>14. CASE k = 13
  BY <1>14, SMT
<1>15. CASE k = 14
  BY <1>15, SMT
<1>16. CASE k = 15
  BY <1>16, SMT
<1>17. CASE k = 16
  BY <1>17, SMT
<1>18. CASE k = 17
  BY <1>18, SMT
<1>19. CASE k = 18
  BY <1>19, SMT
<1>20. CASE k = 19
  BY <1>20, SMT
<1>21. CASE k = 20
  BY <1>21, SMT
<1>22. CASE k = 21
  BY <1>22, SMT
<1>23. CASE k = 22
  BY <1>23, SMT
<1>24. CASE k = 23
  BY <1>24, SMT
<1>25. CASE k = 24
  BY <1>25, SMT
<1>26. CASE k = 25
  BY <1>26, SMT
<1>27. CASE k = 26
  BY <1>27, SMT
<1>28. CASE k = 27
  BY <1>28, SMT
<1>29. CASE k = 28
  BY <1>29, SMT
<1>30. CASE k = 29
  BY <1>30, SMT
<1>31. CASE k = 30
  BY <1>31, SMT
<1> QED
  BY <1>1, <1>2, <1>3, <1>4, <1>5, <1>6, <1>7, <1>8, <1>9, <1>10, <1>11, <1>12,
     <1>13, <1>14, <1>15, <1>16, <1>17, <1>18, <1>19, <1>20, <1>21, <1>22, <1>23,
     <1>24, <1>25, <1>26, <1>27, <1>28, <1>29, <1>30, <1>31, SMT

\* A bit is the difference a half makes.
LEMMA Halves ==
  ASSUME NEW n \in Nat, NEW d \in Nat \ {0}
  PROVE  /\ n \div d \in Nat /\ (n \div d) % 2 \in {0, 1}
         /\ n \div d = 2 * (n \div (2 * d)) + ((n \div d) % 2)
         /\ n < d => n \div d = 0
<1> DEFINE x == n \div d
<1>1. x \in Nat /\ (n < d => x = 0)
  OBVIOUS
<1>2. n \div (2 * d) = x \div 2
  OBVIOUS
<1> HIDE DEF x
<1>3. x % 2 \in {0, 1} /\ x = 2 * (x \div 2) + (x % 2)
  BY <1>1
<1> QED
  BY <1>1, <1>2, <1>3 DEF x

\* The bits of a number.
LEMMA BitsShape ==
  ASSUME NEW k \in 1 .. 31, NEW n \in Nat
  PROVE  /\ Bits(k, n) \in [1 .. k -> {0, 1}]
         /\ \A i \in 1 .. k : Bits(k, n)[i] = (n \div 2^(k - i)) % 2
<1>1. n # Undefined
  BY CodecAssumption
<1>2. \A i \in 1 .. k : (n \div 2^(k - i)) % 2 \in {0, 1}
  <2> SUFFICES ASSUME NEW i \in 1 .. k
               PROVE  (n \div 2^(k - i)) % 2 \in {0, 1}
    OBVIOUS
  <2> DEFINE p == 2^(k - i)
  <2>1. k - i \in 0 .. 30
    OBVIOUS
  <2>2. p \in Nat \ {0}
    BY <2>1, Powers
  <2> HIDE DEF p
  <2>3. (n \div p) % 2 \in {0, 1}
    BY <2>2, Halves
  <2> QED
    BY <2>3 DEF p
<1> QED
  BY <1>1, <1>2 DEF Bits

\* What Number computes, digit by digit.
LEMMA NumberSteps ==
  ASSUME NEW k \in Nat, NEW bits \in [1 .. k -> {0, 1}]
  PROVE  /\ Len(bits) = k
         /\ \E f \in [0 .. k -> Nat] :
              /\ f[0] = 0 /\ Number(bits) = f[k]
              /\ \A i \in 1 .. k : f[i] = 2 * f[i - 1] + bits[i]
<1>1. bits \in Seq({0, 1})
  OBVIOUS
<1>2. Len(bits) = k
  BY <1>1, LenProperties
<1> DEFINE step == [p \in Nat \X (1 .. k) |-> 2 * p[1] + bits[p[2]]]
<1>3. step \in Steps(Nat, k)
  <2>1. ASSUME NEW p \in Nat \X (1 .. k)
        PROVE  2 * p[1] + bits[p[2]] \in Nat
    <3>1. p[1] \in Nat /\ p[2] \in 1 .. k
      OBVIOUS
    <3>2. bits[p[2]] \in {0, 1}
      BY <3>1
    <3> QED
      BY <3>1, <3>2
  <2> QED
    BY <2>1 DEF Steps
<1>4. PICK f : Follows(f, Nat, 0, step, k)
  <2> HIDE DEF step
  <2>1. 0 \in Nat
    OBVIOUS
  <2> QED
    BY <1>3, <2>1, Recursion
<1> DEFINE Is(h) == h = [i \in 0 .. k |-> IF i = 0 THEN 0 ELSE 2 * h[i - 1] + bits[i]]
<1>5. Is(f)
  <2>1. \A i \in 1 .. k : step[<<f[i - 1], i>>] = 2 * f[i - 1] + bits[i]
    <3> SUFFICES ASSUME NEW i \in 1 .. k
                 PROVE  step[<<f[i - 1], i>>] = 2 * f[i - 1] + bits[i]
      OBVIOUS
    <3>1. i - 1 \in 0 .. k
      OBVIOUS
    <3>2. <<f[i - 1], i>> \in Nat \X (1 .. k)
      BY <1>4, <3>1 DEF Follows
    <3> QED
      BY <3>2
  <2> HIDE DEF step
  <2>2. f \in [0 .. k -> Nat] /\ f[0] = 0
        /\ \A i \in 1 .. k : f[i] = 2 * f[i - 1] + bits[i]
    BY <1>4, <2>1 DEF Follows
  <2>3. \A i \in 0 .. k : i # 0 => i \in 1 .. k
    OBVIOUS
  <2>4. \A i \in 0 .. k : f[i] = IF i = 0 THEN 0 ELSE 2 * f[i - 1] + bits[i]
    BY <2>2, <2>3
  <2> QED
    BY <2>2, <2>4
<1> DEFINE g == CHOOSE h : Is(h)
<1>6. Is(g)
  BY <1>5
<1>7. Number(bits) = g[k]
  BY <1>2 DEF Number
<1>8. \A i \in 0 .. k : g[i] \in Nat
  <2> DEFINE T == {i \in 0 .. k : g[i] \in Nat}
  <2> HIDE DEF g
  <2>1. 0 \in T
    BY <1>6
  <2>2. ASSUME NEW i \in 1 .. k, i - 1 \in T
        PROVE  i \in T
    <3>1. g[i] = 2 * g[i - 1] + bits[i] /\ bits[i] \in {0, 1} /\ g[i - 1] \in Nat
      BY <1>6, <2>2
    <3> QED
      BY <3>1
  <2>3. T \in SUBSET Nat
    OBVIOUS
  <2> HIDE DEF T
  <2>4. \A i \in 0 .. k : i \in T
    BY <2>1, <2>2, <2>3, Induction
  <2> QED
    BY <2>4 DEF T
<1> HIDE DEF g
<1>9. g \in [0 .. k -> Nat]
  BY <1>6, <1>8
<1>10. g[0] = 0 /\ \A i \in 1 .. k : g[i] = 2 * g[i - 1] + bits[i]
  <2>1. \A i \in 1 .. k : i \in 0 .. k /\ i # 0
    OBVIOUS
  <2> QED
    BY <1>6, <2>1
<1> HIDE DEF Is
<1> QED
  BY <1>2, <1>7, <1>9, <1>10

\* A number that fits is read as it was written.
LEMMA NumberOfBits ==
  ASSUME NEW k \in 1 .. 31, NEW n \in Nat, n < 2 * 2^(k - 1)
  PROVE  Number(Bits(k, n)) = n
<1> DEFINE bits == Bits(k, n)
           P(j) == 2^j
<1>1. bits \in [1 .. k -> {0, 1}] /\ k \in Nat
      /\ \A i \in 1 .. k : bits[i] = (n \div P(k - i)) % 2
  <2>1. k \in Nat
    OBVIOUS
  <2> QED
    BY <2>1, BitsShape
<1>2. PICK f \in [0 .. k -> Nat] :
        /\ f[0] = 0 /\ Number(bits) = f[k]
        /\ \A i \in 1 .. k : f[i] = 2 * f[i - 1] + bits[i]
  <2> HIDE DEF bits
  <2> QED
    BY <1>1, NumberSteps
<1>3. /\ \A j \in 0 .. 30 : P(j) \in Nat \ {0} /\ (j > 0 => P(j) = 2 * P(j - 1))
      /\ n < 2 * P(k - 1) /\ P(0) = 1
  BY Powers
<1> DEFINE T == {i \in 0 .. k : i > 0 => f[i] = n \div P(k - i)}
<1> HIDE DEF bits, P
<1>4. 0 \in T
  OBVIOUS
<1>5. ASSUME NEW i \in 1 .. k, i - 1 \in T
      PROVE  i \in T
  <2> DEFINE d == P(k - i)
             x == n \div d
  <2>1. k - i \in 0 .. 30
    OBVIOUS
  <2>2. d \in Nat \ {0}
    BY <1>3, <2>1
  <2>3. f[i] = 2 * f[i - 1] + (x % 2)
    BY <1>1, <1>2
  <2>4. x \in Nat /\ x = 2 * (n \div (2 * d)) + (x % 2)
    BY <2>2, Halves
  <2>5. f[i - 1] = n \div (2 * d)
    <3>1. CASE i = 1
      <4>1. f[i - 1] = 0 /\ n < 2 * d
        BY <1>2, <1>3, <3>1
      <4>2. 2 * d \in Nat \ {0}
        BY <2>2
      <4> HIDE DEF d
      <4>3. n \div (2 * d) = 0
        BY <4>1, <4>2, Halves
      <4> QED
        BY <4>1, <4>3
    <3>2. CASE i # 1
      <4>1. k - i + 1 \in 0 .. 30 /\ k - i + 1 > 0 /\ k - (i - 1) = k - i + 1
            /\ (k - i + 1) - 1 = k - i
        BY <3>2
      <4>2. P(k - i + 1) = 2 * d
        BY <1>3, <4>1
      <4>3. f[i - 1] = n \div P(k - (i - 1))
        BY <1>5, <3>2
      <4> QED
        BY <4>1, <4>2, <4>3
    <3> QED
      BY <3>1, <3>2
  <2> HIDE DEF d
  <2>6. f[i] = x
    BY <2>3, <2>4, <2>5
  <2> QED
    BY <2>6 DEF d
<1>6. \A i \in 0 .. k : i \in T
  <2>1. T \in SUBSET Nat
    OBVIOUS
  <2> HIDE DEF T
  <2> QED
    BY <1>1, <1>4, <1>5, <2>1, Induction
<1>7. f[k] = n \div P(0)
  <2>1. k \in T /\ k > 0 /\ k - k = 0
    BY <1>6
  <2> QED
    BY <2>1
<1>8. n \div 1 = n
  OBVIOUS
<1> QED
  BY <1>2, <1>3, <1>7, <1>8 DEF bits

\* Ones are the greatest number there is room for.
LEMMA NumberOfOnes ==
  ASSUME NEW k \in 1 .. 31, NEW bits \in [1 .. k -> {0, 1}],
         \A i \in 1 .. k : bits[i] = 1
  PROVE  Number(bits) = 2 * 2^(k - 1) - 1
<1> DEFINE P(j) == 2^j
<1>1. PICK f \in [0 .. k -> Nat] :
        /\ f[0] = 0 /\ Number(bits) = f[k]
        /\ \A i \in 1 .. k : f[i] = 2 * f[i - 1] + bits[i]
  <2>1. k \in Nat
    OBVIOUS
  <2> QED
    BY <2>1, NumberSteps
<1>2. \A j \in 0 .. 30 : P(j) \in Nat /\ (j > 0 => P(j) = 2 * P(j - 1))
  BY Powers
<1>3. P(0) = 1
  OBVIOUS
<1> DEFINE T == {i \in 0 .. k - 1 : f[i] = P(i) - 1}
<1> HIDE DEF P
<1>4. 0 \in T
  BY <1>1, <1>3
<1>5. ASSUME NEW i \in 1 .. k - 1, i - 1 \in T
      PROVE  i \in T
  <2>1. f[i] = 2 * (P(i - 1) - 1) + 1
    BY <1>1, <1>5
  <2>2. i \in 0 .. 30 /\ i > 0 /\ i - 1 \in 0 .. 30
    OBVIOUS
  <2>3. P(i) = 2 * P(i - 1) /\ P(i - 1) \in Nat
    BY <1>2, <2>2
  <2> QED
    BY <2>1, <2>3
<1>6. \A i \in 0 .. k - 1 : i \in T
  <2>1. T \in SUBSET Nat /\ k - 1 \in Nat
    OBVIOUS
  <2> HIDE DEF T
  <2> QED
    BY <1>4, <1>5, <2>1, Induction
<1>7. f[k - 1] = P(k - 1) - 1 /\ f[k] = 2 * f[k - 1] + 1 /\ P(k - 1) \in Nat
  <2>1. k - 1 \in 0 .. k - 1 /\ k \in 1 .. k /\ k - 1 \in 0 .. 30
    OBVIOUS
  <2>2. k - 1 \in T /\ P(k - 1) \in Nat
    BY <1>2, <1>6, <2>1
  <2>3. f[k] = 2 * f[k - 1] + bits[k] /\ bits[k] = 1
    BY <1>1, <2>1
  <2> QED
    BY <2>2, <2>3
<1> QED
  BY <1>1, <1>7 DEF P

\* A course or error field is read as it was written, or as an overflow if that is
\* what was written or if it fills its width.
LEMMA FieldOfBits ==
  ASSUME NEW k \in 1 .. 31, NEW n \in Nat
  PROVE  /\ n = OverflowMark => FieldOf(Bits(k, n)) = OverflowMark
         /\ n < 2 * 2^(k - 1) =>
              \/ FieldOf(Bits(k, n)) = n
              \/ FieldOf(Bits(k, n)) = OverflowMark /\ n = 2 * 2^(k - 1) - 1
<1> DEFINE bits == Bits(k, n)
<1>1. bits \in [1 .. k -> {0, 1}]
      /\ \A i \in 1 .. k : bits[i] = (n \div 2^(k - i)) % 2
  BY BitsShape
<1>2. n < 2 * 2^(k - 1) => Number(bits) = n
  BY NumberOfBits
<1>3. (\A i \in 1 .. k : bits[i] = 1) => Number(bits) = 2 * 2^(k - 1) - 1
  <2> HIDE DEF bits
  <2> QED
    BY <1>1, NumberOfOnes
<1>4. n = OverflowMark => \A i \in 1 .. k : bits[i] = 1
  <2> SUFFICES ASSUME n = OverflowMark, NEW i \in 1 .. k
               PROVE  bits[i] = 1
    OBVIOUS
  <2>1. k - i \in 0 .. 30
    OBVIOUS
  <2>2. (OverflowMark \div 2^(k - i)) % 2 = 1
    BY <2>1, MarkBits
  <2> QED
    BY <1>1, <2>2
<1> HIDE DEF bits
<1>5. DOMAIN bits = 1 .. k
  BY <1>1
<1>6. FieldOf(bits) = IF \A i \in 1 .. k : bits[i] = 1 THEN OverflowMark
                      ELSE Number(bits)
  BY <1>5 DEF FieldOf
<1>7. n = OverflowMark => FieldOf(bits) = OverflowMark
  BY <1>4, <1>6
<1>8. ASSUME n < 2 * 2^(k - 1)
      PROVE  \/ FieldOf(bits) = n
             \/ FieldOf(bits) = OverflowMark /\ n = 2 * 2^(k - 1) - 1
  BY <1>2, <1>3, <1>6, <1>8
<1> QED
  BY <1>7, <1>8 DEF bits

\* A time is read as it was written, and one that is undefined as such.
LEMMA TimeOfBits ==
  /\ \A n \in Nat : n < 2 * 2^22 - 1 => TimeOf(Bits(23, n)) = n
  /\ TimeOf(Ones(23)) = Undefined
<1> SUFFICES ASSUME NEW n \in Nat, n < 2 * 2^22 - 1
             PROVE  TimeOf(Bits(23, n)) = n
  BY DEF TimeOf
<1> DEFINE p == 2^22
<1>1. p \in Nat
  BY Powers
<1>2. 23 \in 1 .. 31 /\ 23 - 1 = 22
  OBVIOUS
<1>3. Ones(23) \in [1 .. 23 -> {0, 1}] /\ \A i \in 1 .. 23 : Ones(23)[i] = 1
  BY DEF Ones
<1> HIDE DEF p
<1>4. n < 2 * p - 1 /\ n < 2 * p
  BY <1>1 DEF p
<1>5. Number(Bits(23, n)) = n
  BY <1>2, <1>4, NumberOfBits DEF p
<1>6. Number(Ones(23)) = 2 * p - 1
  BY <1>2, <1>3, NumberOfOnes DEF p
<1> QED
  BY <1>4, <1>5, <1>6 DEF TimeOf

\* So is a source type.
LEMMA SourceOfBits ==
  /\ \A n \in 1 .. 4 : SourceOf(Bits(8, n)) = n
  /\ SourceOf(Bits(8, Undefined)) = Undefined
<1>1. 2 * 2^(8 - 1) = 256 /\ 8 \in 1 .. 31
  OBVIOUS
<1>2. \A n \in 0 .. 4 : Number(Bits(8, n)) = n
  BY <1>1, NumberOfBits
<1>3. Bits(8, Undefined) = Bits(8, 0)
  <2>1. ASSUME NEW i \in 1 .. 8
        PROVE  (0 \div 2^(8 - i)) % 2 = 0
    <3> DEFINE d == 2^(8 - i)
    <3>1. 8 - i \in 0 .. 30
      OBVIOUS
    <3>2. d \in Nat \ {0}
      BY <3>1, Powers
    <3> HIDE DEF d
    <3>3. 0 \div d = 0
      BY <3>2
    <3>4. (0 \div d) % 2 = 0
      BY <3>3
    <3> QED
      BY <3>4 DEF d
  <2>2. 0 # Undefined
    BY CodecAssumption
  <2> QED
    BY <2>1, <2>2 DEF Bits
<1> QED
  BY <1>2, <1>3 DEF SourceOf

\* The seven low bits of a size.
LEMMA LowBits ==
  ASSUME NEW n \in Nat
  PROVE  Number(Bits(7, n)) = n % 128
<1>1. n % 128 \in Nat /\ n % 128 < 128
  OBVIOUS
<1>2. 2 * 2^(7 - 1) = 128 /\ 7 \in 1 .. 31
  OBVIOUS
<1>3. Number(Bits(7, n % 128)) = n % 128
  BY <1>1, <1>2, NumberOfBits
<1>4. \A i \in 1 .. 7 : (n \div 2^(7 - i)) % 2 = ((n % 128) \div 2^(7 - i)) % 2
  <2> SUFFICES ASSUME NEW i \in 1 .. 7
               PROVE  (n \div 2^(7 - i)) % 2 = ((n % 128) \div 2^(7 - i)) % 2
    OBVIOUS
  <2>1. CASE i = 1
    BY <2>1
  <2>2. CASE i = 2
    BY <2>2
  <2>3. CASE i = 3
    BY <2>3
  <2>4. CASE i = 4
    BY <2>4
  <2>5. CASE i = 5
    BY <2>5
  <2>6. CASE i = 6
    BY <2>6
  <2>7. CASE i = 7
    BY <2>7
  <2> QED
    BY <2>1, <2>2, <2>3, <2>4, <2>5, <2>6, <2>7
<1>5. n # Undefined /\ n % 128 # Undefined
  <2>1. n \in Int /\ n % 128 \in Int
    BY <1>1
  <2>2. Undefined \notin Int
    BY CodecAssumption
  <2> QED
    BY <2>1, <2>2
<1>6. Bits(7, n) = Bits(7, n % 128)
  BY <1>4, <1>5 DEF Bits
<1> QED
  BY <1>3, <1>6

------------------------------------------------------------------------------
(* Sequences put together, and taken apart. *)

\* The elements of a concatenation.
LEMMA SetOfConcat ==
  ASSUME NEW T, NEW p \in Seq(T), NEW q \in Seq(T)
  PROVE  ToSet(p \o q) = ToSet(p) \union ToSet(q)
<1> DEFINE r == p \o q
<1>1. /\ Len(r) = Len(p) + Len(q) /\ r \in Seq(T)
      /\ \A i \in 1 .. Len(p) + Len(q) :
           r[i] = IF i <= Len(p) THEN p[i] ELSE q[i - Len(p)]
  BY ConcatProperties
<1>2. /\ DOMAIN p = 1 .. Len(p) /\ DOMAIN q = 1 .. Len(q)
      /\ Len(p) \in Nat /\ Len(q) \in Nat
  BY LenProperties
<1> HIDE DEF r
<1>3. DOMAIN r = 1 .. Len(p) + Len(q)
  BY <1>1, LenProperties
<1>4. \A i \in DOMAIN p : i \in DOMAIN r /\ r[i] = p[i]
  BY <1>1, <1>2, <1>3
<1>5. \A i \in DOMAIN q : Len(p) + i \in DOMAIN r /\ r[Len(p) + i] = q[i]
  BY <1>1, <1>2, <1>3
<1>6. \A i \in DOMAIN r : \/ i \in DOMAIN p /\ r[i] = p[i]
                          \/ i - Len(p) \in DOMAIN q /\ r[i] = q[i - Len(p)]
  BY <1>1, <1>2, <1>3
<1>7. ToSet(r) = ToSet(p) \union ToSet(q)
  BY <1>4, <1>5, <1>6 DEF ToSet
<1> QED
  BY <1>7 DEF r

\* The concatenations P of the first parts of s.
Parts(P, s, T, N) ==
  /\ P \in [0 .. N -> Seq(T)]
  /\ P[0] = <<>>
  /\ \A i \in 1 .. N : P[i] = P[i - 1] \o s[i]

\* FlattenSeq is the last of them.
LEMMA Flatten ==
  ASSUME NEW T, NEW N \in Nat \ {0}, NEW s \in [1 .. N -> Seq(T)]
  PROVE  \E P : Parts(P, s, T, N) /\ FlattenSeq(s) = P[N]
<1> DEFINE step == [p \in Seq(T) \X (1 .. N) |-> p[1] \o s[p[2]]]
<1>1. step \in Steps(Seq(T), N)
  <2>1. ASSUME NEW p \in Seq(T) \X (1 .. N)
        PROVE  p[1] \o s[p[2]] \in Seq(T)
    <3>1. p[1] \in Seq(T) /\ p[2] \in 1 .. N
      OBVIOUS
    <3>2. s[p[2]] \in Seq(T)
      BY <3>1
    <3> QED
      BY <3>1, <3>2, ConcatProperties
  <2> QED
    BY <2>1 DEF Steps
<1>2. PICK P : Follows(P, Seq(T), <<>>, step, N)
  <2> HIDE DEF step
  <2>1. <<>> \in Seq(T)
    OBVIOUS
  <2> QED
    BY <1>1, <2>1, Recursion
<1>3. Parts(P, s, T, N)
  <2>1. P \in [0 .. N -> Seq(T)] /\ P[0] = <<>>
    BY <1>2 DEF Follows
  <2>2. ASSUME NEW i \in 1 .. N
        PROVE  P[i] = P[i - 1] \o s[i]
    <3>1. i - 1 \in 0 .. N
      OBVIOUS
    <3>2. <<P[i - 1], i>> \in Seq(T) \X (1 .. N)
      BY <2>1, <3>1
    <3>3. step[<<P[i - 1], i>>] = P[i - 1] \o s[i]
      BY <3>2
    <3> QED
      BY <1>2, <3>3 DEF Follows
  <2> QED
    BY <2>1, <2>2 DEF Parts
<1> DEFINE Is(h) ==
             h = [i \in 1 .. Len(s) |-> IF i = 1 THEN s[i] ELSE h[i - 1] \o s[i]]
           f == [i \in 1 .. N |-> P[i]]
           g == CHOOSE h : Is(h)
<1>4. Len(s) = N
  <2>1. s \in Seq(Seq(T))
    OBVIOUS
  <2> QED
    BY <2>1, LenProperties
<1>5. Is(f)
  <2>1. ASSUME NEW i \in 1 .. N
        PROVE  f[i] = IF i = 1 THEN s[i] ELSE f[i - 1] \o s[i]
    <3>1. CASE i = 1
      <4>1. P[1] = <<>> \o s[1] /\ s[1] \in Seq(T)
        <5>1. 1 \in 1 .. N /\ 1 - 1 = 0
          OBVIOUS
        <5>2. P[1] = P[0] \o s[1] /\ P[0] = <<>>
          BY <1>3, <5>1 DEF Parts
        <5> QED
          BY <5>1, <5>2
      <4>2. P[1] = s[1]
        BY <4>1, ConcatEmptySeq
      <4> QED
        BY <3>1, <4>2
    <3>2. CASE i # 1
      <4>1. i - 1 \in 1 .. N
        BY <3>2
      <4> QED
        BY <1>3, <3>2, <4>1 DEF Parts
    <3> QED
      BY <3>1, <3>2
  <2> HIDE DEF f
  <2>2. f = [i \in 1 .. N |-> f[i]]
    BY DEF f
  <2> QED
    BY <1>4, <2>1, <2>2
<1>6. Is(g)
  <2> HIDE DEF Is, f
  <2> QED
    BY <1>5
<1>7. FlattenSeq(s) = g[N]
  BY <1>4 DEF FlattenSeq
<1> HIDE DEF g
<1> DEFINE W == {i \in 0 .. N : i > 0 => g[i] = P[i]}
<1>8. ASSUME NEW i \in 1 .. N, i - 1 \in W
      PROVE  i \in W
  <2>1. g[i] = IF i = 1 THEN s[i] ELSE g[i - 1] \o s[i]
    BY <1>4, <1>6
  <2>2. f[i] = IF i = 1 THEN s[i] ELSE f[i - 1] \o s[i]
    <3> HIDE DEF f
    <3> QED
      BY <1>4, <1>5
  <2>3. i # 1 => i - 1 \in 1 .. N /\ g[i - 1] = f[i - 1]
    BY <1>8
  <2>4. g[i] = f[i]
    <3> HIDE DEF f
    <3> QED
      BY <2>1, <2>2, <2>3
  <2> QED
    BY <2>4
<1>9. \A i \in 0 .. N : i \in W
  <2>1. W \in SUBSET Nat /\ 0 \in W
    OBVIOUS
  <2> HIDE DEF W
  <2> QED
    BY <1>8, <2>1, Induction
<1>10. g[N] = P[N]
  BY <1>9
<1> QED
  BY <1>3, <1>7, <1>10

\* Its elements are those of the parts.
LEMMA ElementsOfFlatten ==
  ASSUME NEW T, NEW N \in Nat \ {0}, NEW s \in [1 .. N -> Seq(T)]
  PROVE  /\ FlattenSeq(s) \in Seq(T)
         /\ ToSet(FlattenSeq(s)) = UNION {ToSet(s[i]) : i \in 1 .. N}
<1>1. PICK P : Parts(P, s, T, N) /\ FlattenSeq(s) = P[N]
  BY Flatten
<1> DEFINE Upto(n) == UNION {ToSet(s[i]) : i \in 1 .. n}
           W == {n \in 0 .. N : ToSet(P[n]) = Upto(n)}
<1>2. 0 \in W
  <2>1. ToSet(P[0]) = {}
    BY <1>1 DEF Parts, ToSet
  <2>2. Upto(0) = {}
    OBVIOUS
  <2> QED
    BY <2>1, <2>2
<1>3. ASSUME NEW n \in 1 .. N, n - 1 \in W
      PROVE  n \in W
  <2>1. P[n] = P[n - 1] \o s[n] /\ P[n - 1] \in Seq(T) /\ s[n] \in Seq(T)
    <3>1. n - 1 \in 0 .. N
      OBVIOUS
    <3> QED
      BY <1>1, <3>1 DEF Parts
  <2>2. ToSet(P[n]) = ToSet(P[n - 1]) \union ToSet(s[n])
    BY <2>1, SetOfConcat
  <2>3. Upto(n) = Upto(n - 1) \union ToSet(s[n])
    <3>1. \A i : i \in 1 .. n <=> i \in 1 .. n - 1 \/ i = n
      OBVIOUS
    <3> QED
      BY <3>1
  <2> QED
    BY <1>3, <2>2, <2>3
<1>4. \A n \in 0 .. N : n \in W
  <2>1. W \in SUBSET Nat
    OBVIOUS
  <2> HIDE DEF W
  <2> QED
    BY <1>2, <1>3, <2>1, Induction
<1> QED
  BY <1>1, <1>4 DEF Parts
------------------------------------------------------------------------------
(* The fields, and their bits. *)

\* The fields of the groups, spelled out.
LEMMA Layout ==
  /\ CourseFields =
       {"Latitude", "Longitude", "Elevation", "Bearing", "GndSpeed", "VrtSpeed",
        "BearingDt", "GndSpeedDt", "VrtSpeedDt", "Heading", "AppSpeed"}
  /\ ErrorFields =
       {"LatitudeError", "LongitudeError", "ElevationError", "BearingError",
        "GndSpeedError", "VrtSpeedError", "BearingDtError", "GndSpeedDtError",
        "VrtSpeedDtError", "HeadingError", "AppSpeedError"}
<1> DEFINE Elements(groups) ==
             ToSet(groups[1]) \union ToSet(groups[2]) \union ToSet(groups[3])
             \union ToSet(groups[4]) \union ToSet(groups[5]) \union ToSet(groups[6])
             \union ToSet(groups[7])
<1>1. ASSUME NEW groups, DOMAIN groups = 1 .. 7
      PROVE  FieldsOf(groups) = Elements(groups)
  <2>1. \A g : g \in 1 .. 7 <=> g \in {1, 2, 3, 4, 5, 6, 7}
    OBVIOUS
  <2> QED
    BY <1>1, <2>1 DEF FieldsOf
<1>2. DOMAIN CourseGroups = 1 .. 7 /\ DOMAIN ErrorGroups = 1 .. 7
  BY DEF CourseGroups, ErrorGroups
<1>3. CourseFields = Elements(CourseGroups) /\ ErrorFields = Elements(ErrorGroups)
  BY <1>1, <1>2 DEF CourseFields, ErrorFields
<1>4. Elements(CourseGroups) =
       {"Latitude", "Longitude", "Elevation", "Bearing", "GndSpeed", "VrtSpeed",
        "BearingDt", "GndSpeedDt", "VrtSpeedDt", "Heading", "AppSpeed"}
  BY DEF CourseGroups, ToSet
<1>5. Elements(ErrorGroups) =
       {"LatitudeError", "LongitudeError", "ElevationError", "BearingError",
        "GndSpeedError", "VrtSpeedError", "BearingDtError", "GndSpeedDtError",
        "VrtSpeedDtError", "HeadingError", "AppSpeedError"}
  BY DEF ErrorGroups, ToSet
<1> QED
  BY <1>3, <1>4, <1>5

\* The widths.
LEMMA Widths ==
  ASSUME NEW f \in Fields
  PROVE  /\ Width(f) \in 1 .. 31
         /\ f = "Time" => Width(f) = 23
         /\ f = "SourceType" => Width(f) = 8
         /\ f \in ErrorFields => Width(f) \in {8, 12}
<1>1. f \in CourseFields => Width(f) \in 1 .. 31 /\ f # "Time" /\ f # "SourceType"
                            /\ f \notin ErrorFields
  BY Layout DEF Width, CourseWidth
<1>2. f \notin CourseFields /\ f # "Time" => Width(f) \in {8, 12}
  BY DEF Width
<1>3. f = "SourceType" => Width(f) = 8
  BY Layout DEF Width
<1>4. f = "Time" => Width(f) = 23
  BY DEF Width
<1> QED
  BY <1>1, <1>2, <1>3, <1>4, Layout

\* The parts of a record of four.
LEMMA RecordOfFour ==
  ASSUME NEW A, NEW B, NEW C, NEW c
  PROVE  c \in [field : A, id : B, size : C, held : C] <=>
           /\ c = [field |-> c.field, id |-> c.id, size |-> c.size, held |-> c.held]
           /\ c.field \in A /\ c.id \in B /\ c.size \in C /\ c.held \in C
OBVIOUS

\* The parts of a container.
LEMMA ContainerParts ==
  ASSUME NEW c
  PROVE  IsContainer(c) <=>
           /\ c = [field |-> c.field, id |-> c.id, size |-> c.size, held |-> c.held]
           /\ c.field \in [Fields -> Nat \union {Undefined}]
           /\ c.id \in Nat /\ c.id <= MAX_ID_LENGTH
           /\ c.size \in Nat /\ c.size <= MAX_DATA_SIZE
           /\ c.held \in Nat /\ c.held <= MAX_DATA_SIZE
           /\ \A f \in Fields : Fits(f, c.field[f])
<1> DEFINE A == [Fields -> Nat \union {Undefined}]
           B == 0 .. MAX_ID_LENGTH
           C == 0 .. MAX_DATA_SIZE
<1>1. Containers = [field : A, id : B, size : C, held : C]
  BY DEF Containers
<1>2. /\ \A n : n \in B <=> n \in Nat /\ n <= MAX_ID_LENGTH
      /\ \A n : n \in C <=> n \in Nat /\ n <= MAX_DATA_SIZE
  <2>1. MAX_ID_LENGTH \in Nat /\ MAX_DATA_SIZE \in Nat
    BY SMT DEF MAX_ID_LENGTH, MAX_DATA_SIZE
  <2> QED
    BY <2>1
<1> HIDE DEF A, B, C
<1>3. c \in Containers <=>
        /\ c = [field |-> c.field, id |-> c.id, size |-> c.size, held |-> c.held]
        /\ c.field \in A /\ c.id \in B /\ c.size \in C /\ c.held \in C
  BY <1>1, RecordOfFour
<1>4. IsContainer(c) <=> c \in Containers /\ \A f \in Fields : Fits(f, c.field[f])
  BY DEF IsContainer
<1> QED
  BY <1>2, <1>3, <1>4 DEF A

\* What can be written: but for the time and the source type, what is defined.
Writable(c, f) ==
  f \in Fields /\ (Defined(c, f) \/ f = "Time" \/ f = "SourceType")

\* What is read back of a field.
Received(c, f) == Decoded(f, WriteField(c, f))

\* A course or error field that is defined holds the mark of an overflow or fits.
LEMMA FitsItsBits ==
  ASSUME NEW c, IsContainer(c), NEW f \in CourseFields \union ErrorFields,
         Defined(c, f)
  PROVE  /\ f \in Fields /\ c.field[f] \in Nat
         /\ c.field[f] = OverflowMark \/ c.field[f] < 2 * 2^(Width(f) - 1)
<1> DEFINE n == c.field[f]
<1>1. f \in Fields
  BY DEF Fields
<1>2. f # "Time" /\ f # "SourceType"
  BY Layout
<1>3. c.field \in [Fields -> Nat \union {Undefined}] /\ Fits(f, n) /\ n # Undefined
  BY <1>1, ContainerParts DEF Defined
<1>4. n \in Nat
  BY <1>1, <1>3
<1>5. n = OverflowMark \/ IF Width(f) = 31 THEN n < OverflowMark ELSE n < 2^Width(f)
  BY <1>2, <1>3, SMT DEF Fits
<1>6. ASSUME Width(f) = 31, n < OverflowMark
      PROVE  n < 2 * 2^(Width(f) - 1)
  <2>1. OverflowMark < 2 * 2^(31 - 1) /\ OverflowMark \in Nat
    BY SMT DEF OverflowMark
  <2>2. 2 * 2^(31 - 1) \in Nat
    BY SMT
  <2> QED
    BY <1>4, <1>6, <2>1, <2>2
<1>7. ASSUME Width(f) # 31, n < 2^Width(f)
      PROVE  n < 2 * 2^(Width(f) - 1)
  <2>1. Width(f) \in 0 .. 30 /\ Width(f) > 0
    BY <1>1, <1>7, Widths
  <2>2. 2^Width(f) = 2 * 2^(Width(f) - 1)
    BY <2>1, Powers
  <2> QED
    BY <1>7, <2>2
<1> QED
  BY <1>1, <1>4, <1>5, <1>6, <1>7

\* The bits of a field are of its width.
LEMMA BitsOfField ==
  ASSUME NEW c, IsContainer(c), NEW f, Writable(c, f)
  PROVE  /\ WriteField(c, f) \in Seq({0, 1})
         /\ Len(WriteField(c, f)) = Width(f) /\ Width(f) \in 1 .. 31
<1>1. f \in Fields /\ Width(f) \in 1 .. 31 /\ Width(f) \in Nat
  BY Widths DEF Writable
<1>2. c.field[f] = Undefined \/ c.field[f] \in Nat
  BY <1>1, ContainerParts
<1>3. WriteField(c, f) \in [1 .. Width(f) -> {0, 1}]
  <2>1. CASE f = "Time" /\ ~Defined(c, f)
    <3>1. Width(f) = 23
      BY <1>1, <2>1, Widths
    <3> QED
      BY <2>1, <3>1 DEF WriteField, Ones
  <2>2. CASE ~(f = "Time" /\ ~Defined(c, f)) /\ c.field[f] = Undefined
    BY <2>2 DEF WriteField, Bits
  <2>3. CASE ~(f = "Time" /\ ~Defined(c, f)) /\ c.field[f] \in Nat
    BY <1>1, <2>3, BitsShape DEF WriteField
  <2> QED
    BY <1>2, <2>1, <2>2, <2>3
<1> HIDE DEF WriteField
<1>4. WriteField(c, f) \in Seq({0, 1})
  BY <1>1, <1>3
<1> QED
  BY <1>1, <1>3, <1>4, LenProperties

\* What is read of a field is what was written, or an overflow for what fills the
\* width.
LEMMA FieldReceived ==
  ASSUME NEW c, IsContainer(c), NEW f, Writable(c, f)
  PROVE  \/ Received(c, f) = c.field[f]
         \/ /\ f \in CourseFields \union ErrorFields
            /\ Received(c, f) = OverflowMark
            /\ c.field[f] = 2 * 2^(Width(f) - 1) - 1
<1>1. CASE f = "Time"
  <2> DEFINE n == c.field[f]
  <2>1. f \in Fields /\ Width(f) = 23
    BY <1>1, Widths DEF Writable
  <2>2. /\ n = Undefined => Received(c, f) = TimeOf(Ones(23))
        /\ n # Undefined => Received(c, f) = TimeOf(Bits(23, n))
    <3>1. Received(c, f) = TimeOf(WriteField(c, f))
      BY <1>1 DEF Received, Decoded
    <3>2. /\ n = Undefined => WriteField(c, f) = Ones(23)
          /\ n # Undefined => WriteField(c, f) = Bits(23, n)
      BY <1>1, <2>1 DEF WriteField, Defined
    <3> QED
      BY <3>1, <3>2
  <2>3. n = Undefined \/ n \in 0 .. (Day \div 2)
    BY <1>1, <2>1, Layout, ContainerParts, SMT DEF Fits
  <2>4. n = Undefined \/ (n \in Nat /\ n < 2 * 2^22 - 1)
    <3>1. Day \div 2 \in Nat /\ Day \div 2 < 2 * 2^22 - 1
      BY SMT DEF Day
    <3>2. 2 * 2^22 - 1 \in Nat
      BY SMT
    <3> DEFINE m == 2 * 2^22 - 1
               d == Day \div 2
    <3> HIDE DEF m, d
    <3>3. d \in Nat /\ m \in Nat /\ d < m /\ (n = Undefined \/ n \in 0 .. d)
      BY <2>3, <3>1, <3>2, SMT DEF m, d
    <3>4. n = Undefined \/ (n \in Nat /\ n < m)
      BY <3>3
    <3> QED
      BY <3>4 DEF m
  <2> HIDE DEF n
  <2>5. n \in Nat => n # Undefined
    BY CodecAssumption
  <2>6. Received(c, f) = n
    BY <2>2, <2>4, <2>5, TimeOfBits
  <2> QED
    BY <2>6 DEF n
<1>2. CASE f = "SourceType"
  <2> DEFINE n == c.field[f]
  <2>1. f \in Fields /\ Width(f) = 8
    BY <1>2, Widths DEF Writable
  <2>2. Received(c, f) = SourceOf(Bits(8, n))
    BY <1>2, <2>1 DEF Received, Decoded, WriteField
  <2>3. n = Undefined \/ n \in 1 .. 4
    BY <1>2, <2>1, Layout, ContainerParts, SMT DEF Fits
  <2> HIDE DEF n
  <2>4. Received(c, f) = n
    BY <2>2, <2>3, SourceOfBits
  <2> QED
    BY <2>4 DEF n
<1>3. CASE f # "Time" /\ f # "SourceType"
  <2> DEFINE n == c.field[f]
             k == Width(f)
  <2>1. f \in CourseFields \union ErrorFields /\ Defined(c, f) /\ f \in Fields
    BY <1>3 DEF Writable, Fields
  <2>2. n \in Nat /\ (n = OverflowMark \/ n < 2 * 2^(k - 1)) /\ k \in 1 .. 31
    BY <2>1, FitsItsBits, Widths
  <2>3. Received(c, f) = FieldOf(Bits(k, n))
    BY <1>3 DEF Received, Decoded, WriteField
  <2> HIDE DEF n, k
  <2>4. \/ FieldOf(Bits(k, n)) = n
        \/ FieldOf(Bits(k, n)) = OverflowMark /\ n = 2 * 2^(k - 1) - 1
    BY <2>2, FieldOfBits
  <2> QED
    BY <2>1, <2>3, <2>4 DEF n, k
<1> QED
  BY <1>1, <1>2, <1>3
------------------------------------------------------------------------------
(* Fields read where they were written. *)

\* A part of a word, at a place.
Holds(w, at, p) == \A i \in 1 .. Len(p) : at + i \in DOMAIN w /\ w[at + i] = p[i]

\* A word that has a concatenation has both of its parts.
LEMMA HoldsParts ==
  ASSUME NEW T, NEW p \in Seq(T), NEW q \in Seq(T), NEW w, NEW at \in Nat,
         Holds(w, at, p \o q)
  PROVE  /\ Holds(w, at, p) /\ Holds(w, at + Len(p), q)
         /\ Len(p) \in Nat /\ Len(q) \in Nat /\ at + Len(p) \in Nat
<1> DEFINE r == p \o q
<1>1. /\ Len(r) = Len(p) + Len(q)
      /\ \A i \in 1 .. Len(p) + Len(q) :
           r[i] = IF i <= Len(p) THEN p[i] ELSE q[i - Len(p)]
  BY ConcatProperties
<1>2. Len(p) \in Nat /\ Len(q) \in Nat
  BY LenProperties
<1> HIDE DEF r
<1>3. \A i \in 1 .. Len(p) + Len(q) : at + i \in DOMAIN w /\ w[at + i] = r[i]
  BY <1>1 DEF Holds, r
<1>4. Holds(w, at, p)
  <2>1. \A i \in 1 .. Len(p) : i \in 1 .. Len(p) + Len(q) /\ r[i] = p[i]
    BY <1>1, <1>2
  <2> QED
    BY <1>3, <2>1 DEF Holds
<1>5. Holds(w, at + Len(p), q)
  <2> SUFFICES ASSUME NEW i \in 1 .. Len(q)
               PROVE  (at + Len(p)) + i \in DOMAIN w /\ w[(at + Len(p)) + i] = q[i]
    BY DEF Holds
  <2> DEFINE j == Len(p) + i
  <2>1. j \in 1 .. Len(p) + Len(q) /\ ~(j <= Len(p)) /\ j - Len(p) = i
        /\ at + j = (at + Len(p)) + i
    BY <1>2
  <2> HIDE DEF j
  <2>2. r[j] = q[i]
    BY <1>1, <2>1
  <2> QED
    BY <1>3, <2>1, <2>2
<1> QED
  BY <1>2, <1>4, <1>5

\* What a slice takes of it.
LEMMA SliceHolds ==
  ASSUME NEW T, NEW p \in Seq(T), NEW w, NEW at \in Nat, Holds(w, at, p),
         NEW n, n = Len(p)
  PROVE  Slice(w, at, n) = p
<1>1. n \in Nat /\ p \in [1 .. n -> T]
  BY LenProperties
<1>2. \A i \in 1 .. n : at + i \in DOMAIN w /\ w[at + i] = p[i]
  BY DEF Holds
<1> QED
  BY <1>1, <1>2 DEF Slice

\* A container with what is received of some of the fields of another.
Given(to, c, S) ==
  [field |-> [f \in Fields |-> IF f \in S THEN Received(c, f) ELSE to.field[f]],
   id |-> to.id, size |-> to.size, held |-> to.held]

\* The container reading starts with.
Open(to) ==
  /\ to = [field |-> to.field, id |-> to.id, size |-> to.size, held |-> to.held]
  /\ DOMAIN to.field = Fields /\ to.field = [f \in Fields |-> to.field[f]]

\* One field of a record changes.
LEMMA OneField ==
  ASSUME NEW fields, NEW id, NEW size, NEW held, NEW f, NEW v
  PROVE  [[field |-> fields, id |-> id, size |-> size, held |-> held]
            EXCEPT !.field[f] = v]
           = [field |-> [fields EXCEPT ![f] = v], id |-> id, size |-> size,
              held |-> held]
OBVIOUS

\* A field is read.
LEMMA ReadOne ==
  ASSUME NEW c, IsContainer(c), NEW f, Writable(c, f), NEW w, NEW at \in Nat,
         Holds(w, at, WriteField(c, f)), NEW to, Open(to), NEW S
  PROVE  ReadField(w, [at |-> at, to |-> Given(to, c, S)], f)
           = [at |-> at + Len(WriteField(c, f)), to |-> Given(to, c, S \union {f})]
<1>1. Slice(w, at, Width(f)) = WriteField(c, f)
      /\ Len(WriteField(c, f)) = Width(f)
  BY BitsOfField, SliceHolds
<1> DEFINE g == Given(to, c, S)
           h == Given(to, c, S \union {f})
<1>2. f \in Fields
  BY DEF Writable
<1>3. [g EXCEPT !.field[f] = Received(c, f)] = h
  <2>1. [g.field EXCEPT ![f] = Received(c, f)] = h.field
    BY <1>2 DEF Given
  <2>2. [g EXCEPT !.field[f] = Received(c, f)]
          = [field |-> [g.field EXCEPT ![f] = Received(c, f)],
             id |-> to.id, size |-> to.size, held |-> to.held]
    <3> DEFINE a == [x \in Fields |-> IF x \in S THEN Received(c, x) ELSE to.field[x]]
    <3>1. g = [field |-> a, id |-> to.id, size |-> to.size, held |-> to.held]
      BY DEF Given
    <3> HIDE DEF a, g
    <3>2. g.field = a
      BY <3>1
    <3> QED
      BY <3>1, <3>2, OneField
  <2> QED
    BY <2>1, <2>2 DEF Given
<1> HIDE DEF g, h
<1>4. ReadField(w, [at |-> at, to |-> g], f)
        = [at |-> at + Width(f),
           to |-> [g EXCEPT !.field[f] = Decoded(f, Slice(w, at, Width(f)))]]
  BY DEF ReadField
<1>5. Decoded(f, Slice(w, at, Width(f))) = Received(c, f)
  BY <1>1 DEF Received
<1>6. ReadField(w, [at |-> at, to |-> g], f)
        = [at |-> at + Len(WriteField(c, f)), to |-> h]
  BY <1>1, <1>3, <1>4, <1>5
<1> QED
  BY <1>6 DEF g, h

\* So are all, one after the other.
LEMMA ReadWritten ==
  ASSUME NEW c, IsContainer(c), NEW N \in Nat \ {0}, NEW fields \in [1 .. N -> Fields],
         \A i \in 1 .. N : Writable(c, fields[i]),
         NEW w, NEW at \in Nat, NEW to, Open(to),
         Holds(w, at, WriteFields(c, fields))
  PROVE  ReadFields(w, [at |-> at, to |-> to], fields)
           = [at |-> at + Len(WriteFields(c, fields)),
              to |-> Given(to, c, ToSet(fields))]
<1> DEFINE s == [i \in 1 .. N |-> WriteField(c, fields[i])]
           B == {0, 1}
<1>1. s \in [1 .. N -> Seq(B)] /\ \A i \in 1 .. N : s[i] = WriteField(c, fields[i])
  BY BitsOfField
<1>2. WriteFields(c, fields) = FlattenSeq(s)
  BY DEF WriteFields
<1> HIDE DEF s, B
<1>3. PICK P : Parts(P, s, B, N) /\ FlattenSeq(s) = P[N]
  BY <1>1, Flatten
<1>4. /\ P \in [0 .. N -> Seq(B)] /\ P[0] = <<>>
      /\ \A i \in 1 .. N : P[i] = P[i - 1] \o s[i]
  BY <1>3 DEF Parts
<1>5. \A i \in 1 .. N : i - 1 \in 0 .. N /\ P[i - 1] \in Seq(B) /\ P[i] \in Seq(B)
  <2>1. \A i \in 1 .. N : i - 1 \in 0 .. N /\ i \in 0 .. N
    OBVIOUS
  <2> QED
    BY <1>4, <2>1
<1>6. ASSUME NEW i \in 1 .. N, Holds(w, at, P[i])
      PROVE  Holds(w, at, P[i - 1]) /\ Holds(w, at + Len(P[i - 1]), s[i])
  <2>1. P[i] = P[i - 1] \o s[i] /\ P[i - 1] \in Seq(B) /\ s[i] \in Seq(B)
    BY <1>1, <1>4, <1>5
  <2>2. Holds(w, at, P[i - 1] \o s[i])
    BY <1>6, <2>1
  <2> QED
    BY <2>1, <2>2, HoldsParts
<1>7. \A j \in 0 .. N : Holds(w, at, P[j])
  <2> DEFINE W == {j \in 0 .. N : Holds(w, at, P[N - j])}
  <2>1. 0 \in W
    BY <1>2, <1>3
  <2>2. ASSUME NEW j \in 1 .. N, j - 1 \in W
        PROVE  j \in W
    <3>1. N - (j - 1) \in 1 .. N /\ (N - (j - 1)) - 1 = N - j
      OBVIOUS
    <3>2. Holds(w, at, P[N - (j - 1)])
      BY <2>2
    <3> QED
      BY <1>6, <3>1, <3>2
  <2>3. W \in SUBSET Nat /\ N \in Nat
    OBVIOUS
  <2> HIDE DEF W
  <2>4. \A j \in 0 .. N : j \in W
    BY <2>1, <2>2, <2>3, Induction
  <2> SUFFICES ASSUME NEW j \in 0 .. N
               PROVE  Holds(w, at, P[j])
    OBVIOUS
  <2>5. N - j \in 0 .. N /\ N - (N - j) = j
    OBVIOUS
  <2> QED
    BY <2>4, <2>5 DEF W
<1> DEFINE S(i) == {fields[j] : j \in 1 .. i}
           h == [i \in 0 .. N |-> [at |-> at + Len(P[i]), to |-> Given(to, c, S(i))]]
           r == [at |-> at, to |-> to]
           Is(x) == x = [i \in 0 .. Len(fields) |->
                           IF i = 0 THEN r ELSE ReadField(w, x[i - 1], fields[i])]
           g == CHOOSE x : Is(x)
<1>8. fields \in Seq(Fields) /\ Len(fields) = N /\ DOMAIN fields = 1 .. N
  <2>1. fields \in Seq(Fields)
    OBVIOUS
  <2> QED
    BY <2>1, LenProperties
<1>9. h[0] = r
  <2>1. Len(P[0]) = 0
    BY <1>4
  <2>2. S(0) = {}
    OBVIOUS
  <2>3. Given(to, c, {}) = to
    BY DEF Given, Open
  <2> HIDE DEF S
  <2>4. h[0] = [at |-> at + Len(P[0]), to |-> Given(to, c, S(0))]
    OBVIOUS
  <2>5. at + Len(P[0]) = at
    BY <2>1
  <2> HIDE DEF h
  <2> QED
    BY <2>2, <2>3, <2>4, <2>5
<1>10. ASSUME NEW i \in 1 .. N
       PROVE  h[i] = ReadField(w, h[i - 1], fields[i])
  <2> DEFINE f == fields[i]
             a == at + Len(P[i - 1])
  <2>1. i - 1 \in 0 .. N /\ i \in 0 .. N /\ i # 0
    OBVIOUS
  <2>2. P[i - 1] \in Seq(B) /\ s[i] \in Seq(B) /\ P[i] = P[i - 1] \o s[i]
    BY <1>1, <1>4, <1>5
  <2>3. Len(P[i]) = Len(P[i - 1]) + Len(s[i]) /\ Len(P[i - 1]) \in Nat
        /\ Len(s[i]) \in Nat
    BY <2>2, ConcatProperties, LenProperties
  <2>4. a \in Nat /\ Writable(c, f) /\ Holds(w, a, WriteField(c, f))
    BY <1>1, <1>6, <1>7, <2>1, <2>3
  <2>5. S(i) = S(i - 1) \union {f}
    <3>1. \A j : j \in 1 .. i <=> j \in 1 .. i - 1 \/ j = i
      OBVIOUS
    <3> QED
      BY <3>1
  <2>6. h[i - 1] = [at |-> a, to |-> Given(to, c, S(i - 1))]
    <3> HIDE DEF S
    <3> QED
      BY <2>1
  <2>7. h[i] = [at |-> a + Len(WriteField(c, f)),
                to |-> Given(to, c, S(i - 1) \union {f})]
    <3>1. at + Len(P[i]) = a + Len(WriteField(c, f))
      <4> DEFINE x == Len(P[i - 1])
                 y == Len(s[i])
      <4>1. Len(P[i]) = x + y /\ x \in Nat /\ y \in Nat
        BY <2>3
      <4>2. Len(WriteField(c, f)) = y
        BY <1>1
      <4>3. a = at + x
        OBVIOUS
      <4> HIDE DEF x, y, a, f
      <4> QED
        BY <4>1, <4>2, <4>3
    <3>2. h[i] = [at |-> at + Len(P[i]), to |-> Given(to, c, S(i))]
      <4> HIDE DEF S
      <4> QED
        BY <2>1
    <3> HIDE DEF S, a, f, h
    <3> QED
      BY <2>5, <3>1, <3>2
  <2> HIDE DEF S, a, f, h
  <2>8. ReadField(w, [at |-> a, to |-> Given(to, c, S(i - 1))], f)
          = [at |-> a + Len(WriteField(c, f)),
             to |-> Given(to, c, S(i - 1) \union {f})]
    BY <2>4, ReadOne
  <2> QED
    BY <2>6, <2>7, <2>8 DEF f
<1> HIDE DEF r
<1>11. Is(h)
  <2> DEFINE e == [i \in 0 .. N |->
                     IF i = 0 THEN r ELSE ReadField(w, h[i - 1], fields[i])]
  <2>1. h = [i \in 0 .. N |-> h[i]]
    OBVIOUS
  <2> HIDE DEF h
  <2>2. \A i \in 0 .. N : i # 0 => i \in 1 .. N
    OBVIOUS
  <2>3. \A i \in 0 .. N : h[i] = IF i = 0 THEN r ELSE ReadField(w, h[i - 1], fields[i])
    BY <1>9, <1>10, <2>2
  <2>4. h = e
    BY <2>1, <2>3
  <2> QED
    BY <1>8, <2>4
<1>12. Is(g)
  <2> HIDE DEF Is, h
  <2> QED
    BY <1>11
<1>13. ReadFields(w, r, fields) = g[N]
  BY <1>8 DEF ReadFields
<1> HIDE DEF g, h
<1> DEFINE W == {i \in 0 .. N : g[i] = h[i]}
<1>14. 0 \in W
  BY <1>8, <1>9, <1>12
<1>15. ASSUME NEW i \in 1 .. N, i - 1 \in W
       PROVE  i \in W
  <2>1. g[i] = ReadField(w, g[i - 1], fields[i])
    BY <1>8, <1>12
  <2> QED
    BY <1>10, <1>15, <2>1
<1>16. \A i \in 0 .. N : i \in W
  <2>1. W \in SUBSET Nat /\ N \in Nat
    OBVIOUS
  <2> HIDE DEF W
  <2> QED
    BY <1>14, <1>15, <2>1, Induction
<1>17. g[N] = [at |-> at + Len(P[N]), to |-> Given(to, c, S(N))]
  <2>1. N \in 0 .. N /\ N \in W
    BY <1>16
  <2> HIDE DEF S
  <2> QED
    BY <2>1 DEF h
<1>18. S(N) = ToSet(fields)
  BY <1>8 DEF ToSet
<1> QED
  BY <1>2, <1>3, <1>13, <1>17, <1>18 DEF r
------------------------------------------------------------------------------
(* The groups a message carries. *)

\* The groups, spelled out.
LEMMA GroupSets ==
  /\ DOMAIN CourseGroups = 1 .. 7 /\ DOMAIN ErrorGroups = 1 .. 7
  /\ ToSet(CourseGroups[1]) = {"Latitude", "Longitude"}
  /\ ToSet(CourseGroups[2]) = {"Elevation"}
  /\ ToSet(CourseGroups[3]) = {"Bearing", "GndSpeed"}
  /\ ToSet(CourseGroups[4]) = {"VrtSpeed"}
  /\ ToSet(CourseGroups[5]) = {"BearingDt", "GndSpeedDt"}
  /\ ToSet(CourseGroups[6]) = {"VrtSpeedDt"}
  /\ ToSet(CourseGroups[7]) = {"Heading", "AppSpeed"}
  /\ ToSet(ErrorGroups[1]) = {"LatitudeError", "LongitudeError"}
  /\ ToSet(ErrorGroups[2]) = {"ElevationError"}
  /\ ToSet(ErrorGroups[3]) = {"BearingError", "GndSpeedError"}
  /\ ToSet(ErrorGroups[4]) = {"VrtSpeedError"}
  /\ ToSet(ErrorGroups[5]) = {"BearingDtError", "GndSpeedDtError"}
  /\ ToSet(ErrorGroups[6]) = {"VrtSpeedDtError"}
  /\ ToSet(ErrorGroups[7]) = {"HeadingError", "AppSpeedError"}
<1>1. DOMAIN CourseGroups = 1 .. 7 /\ DOMAIN ErrorGroups = 1 .. 7
  BY DEF CourseGroups, ErrorGroups
<1>2. /\ ToSet(CourseGroups[1]) = {"Latitude", "Longitude"}
      /\ ToSet(CourseGroups[2]) = {"Elevation"}
      /\ ToSet(CourseGroups[3]) = {"Bearing", "GndSpeed"}
      /\ ToSet(CourseGroups[4]) = {"VrtSpeed"}
  BY DEF CourseGroups, ToSet
<1>3. /\ ToSet(CourseGroups[5]) = {"BearingDt", "GndSpeedDt"}
      /\ ToSet(CourseGroups[6]) = {"VrtSpeedDt"}
      /\ ToSet(CourseGroups[7]) = {"Heading", "AppSpeed"}
  BY DEF CourseGroups, ToSet
<1>4. /\ ToSet(ErrorGroups[1]) = {"LatitudeError", "LongitudeError"}
      /\ ToSet(ErrorGroups[2]) = {"ElevationError"}
      /\ ToSet(ErrorGroups[3]) = {"BearingError", "GndSpeedError"}
      /\ ToSet(ErrorGroups[4]) = {"VrtSpeedError"}
  BY DEF ErrorGroups, ToSet
<1>5. /\ ToSet(ErrorGroups[5]) = {"BearingDtError", "GndSpeedDtError"}
      /\ ToSet(ErrorGroups[6]) = {"VrtSpeedDtError"}
      /\ ToSet(ErrorGroups[7]) = {"HeadingError", "AppSpeedError"}
  BY DEF ErrorGroups, ToSet
<1> QED
  BY <1>1, <1>2, <1>3, <1>4, <1>5

\* The companions, spelled out.
LEMMA CompanionSets ==
  /\ \A f \in {"Latitude", "Longitude"} : Companions(f) = {"Latitude", "Longitude"}
  /\ Companions("Elevation") = {"Elevation", "Latitude", "Longitude"}
  /\ \A f \in {"Bearing", "GndSpeed"} : Companions(f) = {"Bearing", "GndSpeed"}
  /\ Companions("VrtSpeed") = {"VrtSpeed", "Bearing", "GndSpeed"}
  /\ \A f \in {"BearingDt", "GndSpeedDt"} : Companions(f) = {"BearingDt", "GndSpeedDt"}
  /\ Companions("VrtSpeedDt") = {"VrtSpeedDt", "BearingDt", "GndSpeedDt"}
  /\ \A f \in {"Heading", "AppSpeed"} : Companions(f) = {"Heading", "AppSpeed"}
  /\ \A f \in {"LatitudeError", "LongitudeError"} :
       Companions(f) = {"LatitudeError", "LongitudeError"}
  /\ Companions("ElevationError")
       = {"ElevationError", "LatitudeError", "LongitudeError"}
  /\ \A f \in {"BearingError", "GndSpeedError"} :
       Companions(f) = {"BearingError", "GndSpeedError"}
  /\ Companions("VrtSpeedError") = {"VrtSpeedError", "BearingError", "GndSpeedError"}
  /\ \A f \in {"BearingDtError", "GndSpeedDtError"} :
       Companions(f) = {"BearingDtError", "GndSpeedDtError"}
  /\ Companions("VrtSpeedDtError")
       = {"VrtSpeedDtError", "BearingDtError", "GndSpeedDtError"}
  /\ \A f \in {"HeadingError", "AppSpeedError"} :
       Companions(f) = {"HeadingError", "AppSpeedError"}
<1> USE DEF Companions
<1>1. \A f \in {"Latitude", "Longitude"} : Companions(f) = {"Latitude", "Longitude"}
  OBVIOUS
<1>2. Companions("Elevation") = {"Elevation", "Latitude", "Longitude"}
  OBVIOUS
<1>3. \A f \in {"Bearing", "GndSpeed"} : Companions(f) = {"Bearing", "GndSpeed"}
  OBVIOUS
<1>4. Companions("VrtSpeed") = {"VrtSpeed", "Bearing", "GndSpeed"}
  OBVIOUS
<1>5. \A f \in {"BearingDt", "GndSpeedDt"} :
        Companions(f) = {"BearingDt", "GndSpeedDt"}
  OBVIOUS
<1>6. Companions("VrtSpeedDt") = {"VrtSpeedDt", "BearingDt", "GndSpeedDt"}
  OBVIOUS
<1>7. \A f \in {"Heading", "AppSpeed"} : Companions(f) = {"Heading", "AppSpeed"}
  OBVIOUS
<1>8. \A f \in {"LatitudeError", "LongitudeError"} :
        Companions(f) = {"LatitudeError", "LongitudeError"}
  OBVIOUS
<1>9. Companions("ElevationError")
        = {"ElevationError", "LatitudeError", "LongitudeError"}
  OBVIOUS
<1>10. \A f \in {"BearingError", "GndSpeedError"} :
         Companions(f) = {"BearingError", "GndSpeedError"}
  OBVIOUS
<1>11. Companions("VrtSpeedError") = {"VrtSpeedError", "BearingError", "GndSpeedError"}
  OBVIOUS
<1>12. \A f \in {"BearingDtError", "GndSpeedDtError"} :
         Companions(f) = {"BearingDtError", "GndSpeedDtError"}
  OBVIOUS
<1>13. Companions("VrtSpeedDtError")
         = {"VrtSpeedDtError", "BearingDtError", "GndSpeedDtError"}
  OBVIOUS
<1>14. \A f \in {"HeadingError", "AppSpeedError"} :
         Companions(f) = {"HeadingError", "AppSpeedError"}
  OBVIOUS
<1> HIDE DEF Companions
<1> QED
  BY <1>1, <1>2, <1>3, <1>4, <1>5, <1>6, <1>7, <1>8, <1>9, <1>10, <1>11, <1>12,
     <1>13, <1>14

\* A group is carried when the companions of each of its fields are defined.
LEMMA CarriedWithCompanions ==
  ASSUME NEW c, NEW g \in 1 .. 7
  PROVE  /\ \A f \in ToSet(CourseGroups[g]) :
              g \in Carries(c, CourseGroups) <=> \A x \in Companions(f) : Defined(c, x)
         /\ \A f \in ToSet(ErrorGroups[g]) :
              g \in Carries(c, ErrorGroups) <=> \A x \in Companions(f) : Defined(c, x)
<1>1. /\ g \in Carries(c, CourseGroups) <=>
           /\ \A x \in ToSet(CourseGroups[g]) : Defined(c, x)
           /\ g \in {2, 4, 6} => \A x \in ToSet(CourseGroups[g - 1]) : Defined(c, x)
      /\ g \in Carries(c, ErrorGroups) <=>
           /\ \A x \in ToSet(ErrorGroups[g]) : Defined(c, x)
           /\ g \in {2, 4, 6} => \A x \in ToSet(ErrorGroups[g - 1]) : Defined(c, x)
  BY GroupSets DEF Carries, AllDefined, ThirdDimensions
<1> USE GroupSets, CompanionSets
<1>2. CASE g = 1
  BY <1>1, <1>2
<1>3. CASE g = 2
  BY <1>1, <1>3
<1>4. CASE g = 3
  BY <1>1, <1>4
<1>5. CASE g = 4
  BY <1>1, <1>5
<1>6. CASE g = 5
  BY <1>1, <1>6
<1>7. CASE g = 6
  BY <1>1, <1>7
<1>8. CASE g = 7
  BY <1>1, <1>8
<1> QED
  BY <1>2, <1>3, <1>4, <1>5, <1>6, <1>7, <1>8

\* The fields of the groups carried.
LEMMA FieldsCarried ==
  ASSUME NEW groups \in {CourseGroups, ErrorGroups}, NEW S, S \subseteq 1 .. 7
  PROVE  /\ Carried(groups, S) \in Seq(Fields)
         /\ ToSet(Carried(groups, S)) = UNION {ToSet(groups[g]) : g \in S}
         /\ DOMAIN groups = 1 .. 7
<1>1. \A g \in 1 .. 7 : groups[g] \in Seq(Fields) /\ DOMAIN groups = 1 .. 7
  <2>1. {"Latitude", "Longitude", "Elevation", "Bearing", "GndSpeed", "VrtSpeed",
         "BearingDt", "GndSpeedDt", "VrtSpeedDt", "Heading", "AppSpeed",
         "LatitudeError", "LongitudeError", "ElevationError", "BearingError",
         "GndSpeedError", "VrtSpeedError", "BearingDtError", "GndSpeedDtError",
         "VrtSpeedDtError", "HeadingError", "AppSpeedError"} \subseteq Fields
    BY Layout DEF Fields
  <2>2. ASSUME NEW a \in Fields, NEW b \in Fields
        PROVE  <<a, b>> \in Seq(Fields) /\ <<a>> \in Seq(Fields)
    OBVIOUS
  <2>3. \A g \in 1 .. 7 : CourseGroups[g] \in Seq(Fields)
    <3>1. CourseGroups[1] \in Seq(Fields)
      BY <2>1, <2>2 DEF CourseGroups
    <3>2. CourseGroups[2] \in Seq(Fields)
      BY <2>1, <2>2 DEF CourseGroups
    <3>3. CourseGroups[3] \in Seq(Fields)
      BY <2>1, <2>2 DEF CourseGroups
    <3>4. CourseGroups[4] \in Seq(Fields)
      BY <2>1, <2>2 DEF CourseGroups
    <3>5. CourseGroups[5] \in Seq(Fields)
      BY <2>1, <2>2 DEF CourseGroups
    <3>6. CourseGroups[6] \in Seq(Fields)
      BY <2>1, <2>2 DEF CourseGroups
    <3>7. CourseGroups[7] \in Seq(Fields)
      BY <2>1, <2>2 DEF CourseGroups
    <3>8. \A g \in 1 .. 7 : g = 1 \/ g = 2 \/ g = 3 \/ g = 4 \/ g = 5 \/ g = 6 \/ g = 7
      OBVIOUS
    <3> QED
      BY <3>1, <3>2, <3>3, <3>4, <3>5, <3>6, <3>7, <3>8, Zenon
  <2>4. \A g \in 1 .. 7 : ErrorGroups[g] \in Seq(Fields)
    <3>1. ErrorGroups[1] \in Seq(Fields)
      BY <2>1, <2>2 DEF ErrorGroups
    <3>2. ErrorGroups[2] \in Seq(Fields)
      BY <2>1, <2>2 DEF ErrorGroups
    <3>3. ErrorGroups[3] \in Seq(Fields)
      BY <2>1, <2>2 DEF ErrorGroups
    <3>4. ErrorGroups[4] \in Seq(Fields)
      BY <2>1, <2>2 DEF ErrorGroups
    <3>5. ErrorGroups[5] \in Seq(Fields)
      BY <2>1, <2>2 DEF ErrorGroups
    <3>6. ErrorGroups[6] \in Seq(Fields)
      BY <2>1, <2>2 DEF ErrorGroups
    <3>7. ErrorGroups[7] \in Seq(Fields)
      BY <2>1, <2>2 DEF ErrorGroups
    <3>8. \A g \in 1 .. 7 : g = 1 \/ g = 2 \/ g = 3 \/ g = 4 \/ g = 5 \/ g = 6 \/ g = 7
      OBVIOUS
    <3> QED
      BY <3>1, <3>2, <3>3, <3>4, <3>5, <3>6, <3>7, <3>8, Zenon
  <2> QED
    BY <2>3, <2>4, GroupSets
<1> DEFINE s == [g \in 1 .. 7 |-> IF g \in S THEN groups[g] ELSE <<>>]
<1>2. s \in [1 .. 7 -> Seq(Fields)] /\ \A g \in 1 .. 7 :
        ToSet(s[g]) = IF g \in S THEN ToSet(groups[g]) ELSE {}
  <2>1. <<>> \in Seq(Fields) /\ ToSet(<<>>) = {}
    BY DEF ToSet
  <2> QED
    BY <1>1, <2>1
<1>3. Carried(groups, S) = FlattenSeq(s)
  BY <1>1 DEF Carried
<1> HIDE DEF s
<1>4. /\ FlattenSeq(s) \in Seq(Fields)
      /\ ToSet(FlattenSeq(s)) = UNION {ToSet(s[g]) : g \in 1 .. 7}
  <2>1. 7 \in Nat \ {0}
    OBVIOUS
  <2> QED
    BY <1>2, <2>1, ElementsOfFlatten
<1>5. UNION {ToSet(s[g]) : g \in 1 .. 7} = UNION {ToSet(groups[g]) : g \in S}
  BY <1>2
<1> QED
  BY <1>1, <1>3, <1>4, <1>5

\* What a message has in each of its two sequences of fields.
LEMMA Sequences ==
  ASSUME NEW c
  PROVE  /\ CourseSequence(c) \in Seq(Fields) /\ ErrorSequence(c) \in Seq(Fields)
         /\ Len(CourseSequence(c)) \in Nat \ {0} /\ Len(ErrorSequence(c)) \in Nat \ {0}
         /\ \A f : f \in ToSet(CourseSequence(c)) <=>
              \/ f = "Time"
              \/ f \in CourseFields /\ \A x \in Companions(f) : Defined(c, x)
         /\ \A f : f \in ToSet(ErrorSequence(c)) <=>
              \/ f = "SourceType"
              \/ f \in ErrorFields /\ \A x \in Companions(f) : Defined(c, x)
<1> DEFINE A == Carried(CourseGroups, Carries(c, CourseGroups))
           B == Carried(ErrorGroups, Carries(c, ErrorGroups))
<1>1. Carries(c, CourseGroups) \subseteq 1 .. 7 /\ Carries(c, ErrorGroups) \subseteq 1 .. 7
  BY GroupSets DEF Carries
<1>2. /\ A \in Seq(Fields) /\ B \in Seq(Fields)
      /\ ToSet(A) = UNION {ToSet(CourseGroups[g]) : g \in Carries(c, CourseGroups)}
      /\ ToSet(B) = UNION {ToSet(ErrorGroups[g]) : g \in Carries(c, ErrorGroups)}
  BY <1>1, FieldsCarried
<1>3. /\ \A f : f \in CourseFields <=> \E g \in 1 .. 7 : f \in ToSet(CourseGroups[g])
      /\ \A f : f \in ErrorFields <=> \E g \in 1 .. 7 : f \in ToSet(ErrorGroups[g])
  BY GroupSets DEF CourseFields, ErrorFields, FieldsOf
<1>4. \A f : f \in ToSet(A) <=>
        f \in CourseFields /\ \A x \in Companions(f) : Defined(c, x)
  BY <1>1, <1>2, <1>3, CarriedWithCompanions
<1>5. \A f : f \in ToSet(B) <=>
        f \in ErrorFields /\ \A x \in Companions(f) : Defined(c, x)
  BY <1>1, <1>2, <1>3, CarriedWithCompanions
<1> HIDE DEF A, B
<1>6. /\ <<"Time">> \in Seq(Fields) /\ <<"SourceType">> \in Seq(Fields)
      /\ ToSet(<<"Time">>) = {"Time"} /\ ToSet(<<"SourceType">>) = {"SourceType"}
      /\ Len(<<"Time">>) = 1 /\ Len(<<"SourceType">>) = 1
  BY DEF Fields, ToSet
<1>7. CourseSequence(c) = <<"Time">> \o A /\ ErrorSequence(c) = <<"SourceType">> \o B
  BY DEF CourseSequence, ErrorSequence, A, B
<1>8. /\ <<"Time">> \o A \in Seq(Fields) /\ <<"SourceType">> \o B \in Seq(Fields)
      /\ Len(<<"Time">> \o A) \in Nat \ {0} /\ Len(<<"SourceType">> \o B) \in Nat \ {0}
  BY <1>2, <1>6, ConcatProperties, LenProperties
<1>9. /\ ToSet(<<"Time">> \o A) = {"Time"} \union ToSet(A)
      /\ ToSet(<<"SourceType">> \o B) = {"SourceType"} \union ToSet(B)
  <2> DEFINE t == <<"Time">>
             y == <<"SourceType">>
  <2>1. t \in Seq(Fields) /\ y \in Seq(Fields)
    BY <1>6
  <2> HIDE DEF t, y
  <2>2. ToSet(t \o A) = ToSet(t) \union ToSet(A)
    BY <1>2, <2>1, SetOfConcat
  <2>3. ToSet(y \o B) = ToSet(y) \union ToSet(B)
    BY <1>2, <2>1, SetOfConcat
  <2> QED
    BY <1>6, <2>2, <2>3 DEF t, y
<1> QED
  BY <1>4, <1>5, <1>7, <1>8, <1>9
------------------------------------------------------------------------------
(* The header read where it was written. *)

\* A bit of a payload.
Symbols == {0, 1, Opaque}

\* The size of the free-form data, with what says how long it is.
Sizes(c) ==
  Bits(7, c.size) \o <<Flag(c.size > 127)>>
  \o (IF c.size > 127 THEN Bits(8, c.size \div 128) ELSE <<>>)

\* The pieces of a header are words of their lengths.
LEMMA HeaderPieces ==
  ASSUME NEW c, IsContainer(c)
  PROVE  /\ \A n \in Nat : Bytes(n) \in Seq(Symbols) /\ Len(Bytes(n)) = 8 * n
         /\ \A b \in BOOLEAN : <<Flag(b)>> \in Seq(Symbols) /\ Len(<<Flag(b)>>) = 1
         /\ \A n \in Nat : /\ Bits(7, n) \in Seq(Symbols) /\ Len(Bits(7, n)) = 7
                           /\ Bits(8, n) \in Seq(Symbols) /\ Len(Bits(8, n)) = 8
         /\ \A S : /\ GroupFlags(CourseGroups, S) \in Seq(Symbols)
                   /\ Len(GroupFlags(CourseGroups, S)) = 7
                   /\ GroupFlags(ErrorGroups, S) \in Seq(Symbols)
                   /\ Len(GroupFlags(ErrorGroups, S)) = 7
<1>1. ASSUME NEW k \in Nat, NEW s \in [1 .. k -> Symbols]
      PROVE  s \in Seq(Symbols) /\ Len(s) = k
  <2>1. s \in Seq(Symbols)
    OBVIOUS
  <2> QED
    BY <2>1, LenProperties
<1>2. \A n \in Nat : Bytes(n) \in Seq(Symbols) /\ Len(Bytes(n)) = 8 * n
  <2> SUFFICES ASSUME NEW n \in Nat
               PROVE  Bytes(n) \in Seq(Symbols) /\ Len(Bytes(n)) = 8 * n
    OBVIOUS
  <2>1. 8 * n \in Nat /\ Bytes(n) \in [1 .. 8 * n -> Symbols]
    BY DEF Bytes, Symbols
  <2> QED
    BY <1>1, <2>1
<1>3. \A n \in Nat : /\ Bits(7, n) \in Seq(Symbols) /\ Len(Bits(7, n)) = 7
                     /\ Bits(8, n) \in Seq(Symbols) /\ Len(Bits(8, n)) = 8
  <2> SUFFICES ASSUME NEW n \in Nat
               PROVE  /\ Bits(7, n) \in Seq(Symbols) /\ Len(Bits(7, n)) = 7
                      /\ Bits(8, n) \in Seq(Symbols) /\ Len(Bits(8, n)) = 8
    OBVIOUS
  <2>1. 7 \in 1 .. 31 /\ 8 \in 1 .. 31 /\ 7 \in Nat /\ 8 \in Nat
    OBVIOUS
  <2>2. Bits(7, n) \in [1 .. 7 -> {0, 1}] /\ Bits(8, n) \in [1 .. 8 -> {0, 1}]
    BY <2>1, BitsShape
  <2>3. Bits(7, n) \in [1 .. 7 -> Symbols] /\ Bits(8, n) \in [1 .. 8 -> Symbols]
    BY <2>2 DEF Symbols
  <2> QED
    BY <1>1, <2>1, <2>3
<1>4. \A S : /\ GroupFlags(CourseGroups, S) \in [1 .. 7 -> Symbols]
             /\ GroupFlags(ErrorGroups, S) \in [1 .. 7 -> Symbols]
  BY GroupSets DEF GroupFlags, Flag, Symbols
<1>5. \A S : /\ GroupFlags(CourseGroups, S) \in Seq(Symbols)
             /\ Len(GroupFlags(CourseGroups, S)) = 7
             /\ GroupFlags(ErrorGroups, S) \in Seq(Symbols)
             /\ Len(GroupFlags(ErrorGroups, S)) = 7
  <2>1. 7 \in Nat
    OBVIOUS
  <2> QED
    BY <1>1, <1>4, <2>1
<1>6. \A b \in BOOLEAN : <<Flag(b)>> \in Seq(Symbols) /\ Len(<<Flag(b)>>) = 1
  BY DEF Flag, Symbols
<1> QED
  BY <1>2, <1>3, <1>5, <1>6

\* The size is a word of one or two bytes.
LEMMA SizesBits ==
  ASSUME NEW c, IsContainer(c)
  PROVE  /\ Sizes(c) \in Seq(Symbols)
         /\ Len(Sizes(c)) = IF c.size > 127 THEN 16 ELSE 8
<1> DEFINE n == c.size
           h == n \div 128
           A == Bits(7, n)
           F == <<Flag(n > 127)>>
           M == IF n > 127 THEN Bits(8, h) ELSE <<>>
<1>1. n \in Nat /\ n <= MAX_DATA_SIZE /\ (n > 127) \in BOOLEAN
  BY ContainerParts
<1>2. h \in Nat /\ h < 256 /\ n = (n % 128) + 128 * h /\ n % 128 \in Nat
  <2>1. n < 32768
    BY <1>1, SMT DEF MAX_DATA_SIZE
  <2>2. n % 128 \in 0 .. 127 /\ h \in Nat /\ n = (n % 128) + 128 * h
    BY <1>1, SMT
  <2>3. h < 256
    BY <1>1, <2>1, <2>2, SMT
  <2> QED
    BY <2>2, <2>3, SMT
<1>3. n <= 127 => n % 128 = n
  BY <1>1
<1> HIDE DEF n, h
<1>4. A \in Seq(Symbols) /\ Len(A) = 7 /\ F \in Seq(Symbols) /\ Len(F) = 1
  BY <1>1, HeaderPieces
<1>5. M \in Seq(Symbols) /\ Len(M) = IF n > 127 THEN 8 ELSE 0
  <2>1. Bits(8, h) \in Seq(Symbols) /\ Len(Bits(8, h)) = 8
    BY <1>2, HeaderPieces
  <2>2. <<>> \in Seq(Symbols) /\ Len(<<>>) = 0
    OBVIOUS
  <2>3. CASE n > 127
    <3>1. M = Bits(8, h)
      BY <2>3
    <3> HIDE DEF M
    <3> QED
      BY <2>1, <2>3, <3>1
  <2>4. CASE ~(n > 127)
    <3>1. M = <<>>
      BY <2>4
    <3> HIDE DEF M
    <3> QED
      BY <2>2, <2>4, <3>1
  <2> QED
    BY <2>3, <2>4
<1>6. Sizes(c) = (A \o F) \o M
  BY DEF Sizes, n, h
<1>7. F[1] = Flag(n > 127)
  OBVIOUS
<1>8. n > 127 => M = Bits(8, h)
  OBVIOUS
<1> HIDE DEF A, F, M
<1>9. A \o F \in Seq(Symbols) /\ Len(A \o F) = 8
  <2>1. A \o F \in Seq(Symbols) /\ Len(A \o F) = Len(A) + Len(F)
    BY <1>4, ConcatProperties
  <2> QED
    BY <1>4, <2>1
<1>10. Sizes(c) \in Seq(Symbols) /\ Len(Sizes(c)) = IF n > 127 THEN 16 ELSE 8
  <2>1. (A \o F) \o M \in Seq(Symbols) /\ Len((A \o F) \o M) = Len(A \o F) + Len(M)
    BY <1>5, <1>9, ConcatProperties
  <2> QED
    BY <1>5, <1>6, <1>9, <2>1
<1> QED
  BY <1>10 DEF n

\* The size is read.
LEMMA SizesRead ==
  ASSUME NEW c, IsContainer(c), NEW w, NEW at \in Nat, Holds(w, at, Sizes(c))
  PROVE  /\ w[at + 8] = 1 <=> c.size > 127
         /\ Number(Slice(w, at, 7))
              + (IF c.size > 127 THEN 128 * Number(Slice(w, at + 8, 8)) ELSE 0) = c.size
<1> DEFINE n == c.size
           h == n \div 128
           A == Bits(7, n)
           F == <<Flag(n > 127)>>
           M == IF n > 127 THEN Bits(8, h) ELSE <<>>
<1>1. n \in Nat /\ n <= MAX_DATA_SIZE /\ (n > 127) \in BOOLEAN
  BY ContainerParts
<1>2. h \in Nat /\ h < 256 /\ n = (n % 128) + 128 * h /\ n % 128 \in Nat
  <2>1. n < 32768
    BY <1>1, SMT DEF MAX_DATA_SIZE
  <2>2. n % 128 \in 0 .. 127 /\ h \in Nat /\ n = (n % 128) + 128 * h
    BY <1>1, SMT
  <2>3. h < 256
    BY <1>1, <2>1, <2>2, SMT
  <2> QED
    BY <2>2, <2>3, SMT
<1>3. n <= 127 => n % 128 = n
  BY <1>1
<1> HIDE DEF n, h
<1>4. A \in Seq(Symbols) /\ Len(A) = 7 /\ F \in Seq(Symbols) /\ Len(F) = 1
  BY <1>1, HeaderPieces
<1>5. M \in Seq(Symbols) /\ Len(M) = IF n > 127 THEN 8 ELSE 0
  <2>1. Bits(8, h) \in Seq(Symbols) /\ Len(Bits(8, h)) = 8
    BY <1>2, HeaderPieces
  <2>2. <<>> \in Seq(Symbols) /\ Len(<<>>) = 0
    OBVIOUS
  <2>3. CASE n > 127
    <3>1. M = Bits(8, h)
      BY <2>3
    <3> HIDE DEF M
    <3> QED
      BY <2>1, <2>3, <3>1
  <2>4. CASE ~(n > 127)
    <3>1. M = <<>>
      BY <2>4
    <3> HIDE DEF M
    <3> QED
      BY <2>2, <2>4, <3>1
  <2> QED
    BY <2>3, <2>4
<1>6. Sizes(c) = (A \o F) \o M
  BY DEF Sizes, n, h
<1>7. F[1] = Flag(n > 127)
  OBVIOUS
<1>8. n > 127 => M = Bits(8, h)
  OBVIOUS
<1> HIDE DEF A, F, M
<1>9. A \o F \in Seq(Symbols) /\ Len(A \o F) = 8
  <2>1. A \o F \in Seq(Symbols) /\ Len(A \o F) = Len(A) + Len(F)
    BY <1>4, ConcatProperties
  <2> QED
    BY <1>4, <2>1
<1>10. Holds(w, at, A \o F) /\ Holds(w, at + 8, M)
  <2>1. Holds(w, at, (A \o F) \o M)
    BY <1>6
  <2>2. Holds(w, at, A \o F) /\ Holds(w, at + Len(A \o F), M)
    BY <1>5, <1>9, <2>1, HoldsParts
  <2> QED
    BY <1>9, <2>2
<1>11. Holds(w, at, A) /\ Holds(w, at + 7, F)
  <2>1. Holds(w, at, A) /\ Holds(w, at + Len(A), F)
    BY <1>4, <1>10, HoldsParts
  <2> QED
    BY <1>4, <2>1
<1>12. w[at + 8] = 1 <=> n > 127
  <2>1. w[(at + 7) + 1] = F[1]
    BY <1>4, <1>11 DEF Holds
  <2>2. (at + 7) + 1 = at + 8
    OBVIOUS
  <2> QED
    BY <1>7, <2>1, <2>2 DEF Flag
<1>13. Number(Slice(w, at, 7)) = n % 128
  <2>1. Slice(w, at, 7) = A
    <3>1. A \in Seq(Symbols) /\ Len(A) = 7 /\ at \in Nat /\ Holds(w, at, A)
      BY <1>4, <1>11
    <3>2. Slice(w, at, Len(A)) = A
      BY <3>1, SliceHolds
    <3> QED
      BY <3>1, <3>2
  <2> QED
    BY <1>1, <2>1, LowBits DEF A
<1>14. n > 127 => Number(Slice(w, at + 8, 8)) = h
  <2> SUFFICES ASSUME n > 127
               PROVE  Number(Slice(w, at + 8, 8)) = h
    OBVIOUS
  <2>1. at + 8 \in Nat /\ 8 = Len(M)
    BY <1>5
  <2>2. Slice(w, at + 8, 8) = Bits(8, h)
    <3>1. Slice(w, at + 8, Len(M)) = M
      BY <1>5, <1>10, <2>1, SliceHolds
    <3> QED
      BY <1>8, <2>1, <3>1
  <2>3. 8 \in 1 .. 31 /\ 2 * 2^(8 - 1) = 256
    OBVIOUS
  <2> QED
    BY <1>2, <2>2, <2>3, NumberOfBits
<1>15. Number(Slice(w, at, 7))
         + (IF n > 127 THEN 128 * Number(Slice(w, at + 8, 8)) ELSE 0) = n
  <2>1. CASE n > 127
    BY <1>2, <1>13, <1>14, <2>1
  <2>2. CASE ~(n > 127)
    <3>1. n <= 127
      BY <1>1, <2>2
    <3> QED
      BY <1>1, <1>3, <1>13, <2>2, <3>1
  <2> QED
    BY <2>1, <2>2
<1> QED
  BY <1>12, <1>15 DEF n

\* The container after the header: the ID, and room for the data.
Opened(c, d) ==
  [field |-> [f \in Fields |-> Undefined], id |-> c.id, size |-> c.size,
   held |-> IF c.size = 0 THEN 0 ELSE IF c.size = d.size THEN d.held ELSE c.size]

\* Fields of a record of four change, one after the other.
LEMMA Updates ==
  ASSUME NEW a, NEW b, NEW s, NEW h, NEW x, NEW y,
         NEW r, r = [field |-> a, id |-> b, size |-> s, held |-> h]
  PROVE  /\ [[r EXCEPT !.size = x] EXCEPT !.held = y]
              = [field |-> a, id |-> b, size |-> x, held |-> y]
         /\ [r EXCEPT !.id = x] = [field |-> a, id |-> x, size |-> s, held |-> h]
<1>1. [r EXCEPT !.size = x] = [field |-> a, id |-> b, size |-> x, held |-> h]
  OBVIOUS
<1>2. [[field |-> a, id |-> b, size |-> x, held |-> h] EXCEPT !.held = y]
        = [field |-> a, id |-> b, size |-> x, held |-> y]
  OBVIOUS
<1>3. [r EXCEPT !.id = x] = [field |-> a, id |-> x, size |-> s, held |-> h]
  OBVIOUS
<1> QED
  BY <1>1, <1>2, <1>3

\* A container is emptied.
LEMMA Resets ==
  ASSUME NEW a, NEW b, NEW s, NEW h,
         NEW r, r = [field |-> a, id |-> b, size |-> s, held |-> h]
  PROVE  /\ Cleared(r) = [field |-> [f \in Fields |-> Undefined], id |-> 0,
                          size |-> s, held |-> h]
         /\ Freed(r) = [field |-> a, id |-> b, size |-> 0, held |-> 0]
<1>1. Freed(r) = [[r EXCEPT !.size = 0] EXCEPT !.held = 0]
  BY DEF Freed
<1>2. Cleared(r) = [[Blank EXCEPT !.size = s] EXCEPT !.held = h]
  BY DEF Cleared
<1> DEFINE u == [f \in Fields |-> Undefined]
<1>3. Blank = [field |-> u, id |-> 0, size |-> 0, held |-> 0]
  BY DEF Blank
<1> HIDE DEF u
<1>4. Cleared(r) = [field |-> u, id |-> 0, size |-> s, held |-> h]
  BY <1>2, <1>3, Updates
<1>5. Freed(r) = [field |-> a, id |-> b, size |-> 0, held |-> 0]
  BY <1>1, Updates
<1> QED
  BY <1>4, <1>5 DEF u

\* A container is named, and its data allocated.
LEMMA Setters ==
  ASSUME NEW a, NEW b, NEW s, NEW h, NEW n,
         NEW r, r = [field |-> a, id |-> b, size |-> s, held |-> h]
  PROVE  /\ Named(r, n) = [field |-> a, size |-> s, held |-> h,
                           id |-> IF n < MAX_ID_LENGTH THEN n ELSE MAX_ID_LENGTH]
         /\ n \in Nat /\ n <= MAX_DATA_SIZE =>
              Allocated(r, n) = IF n = s THEN r
                                ELSE [field |-> a, id |-> b, size |-> n, held |-> n]
<1> DEFINE e == IF n < MAX_ID_LENGTH THEN n ELSE MAX_ID_LENGTH
<1>1. Named(r, n) = [r EXCEPT !.id = e]
  BY DEF Named
<1>2. Named(r, n) = [field |-> a, id |-> e, size |-> s, held |-> h]
  <2> HIDE DEF e
  <2> QED
    BY <1>1, Updates
<1>3. ASSUME n \in Nat, n <= MAX_DATA_SIZE
      PROVE  Allocated(r, n) = IF n = s THEN r
                               ELSE [field |-> a, id |-> b, size |-> n, held |-> n]
  <2>1. MAX_DATA_SIZE \in Nat
    BY SMT DEF MAX_DATA_SIZE
  <2>2. (IF n < MAX_DATA_SIZE THEN n ELSE MAX_DATA_SIZE) = n
    BY <1>3, <2>1
  <2>3. r.size = s
    OBVIOUS
  <2>4. Allocated(r, n) = IF n = s THEN r
                          ELSE [[r EXCEPT !.size = n] EXCEPT !.held = n]
    BY <2>2, <2>3 DEF Allocated
  <2> QED
    BY <2>4, Updates
<1> QED
  BY <1>2, <1>3 DEF e

\* What the setters of a cleared container make of it.
LEMMA OpenedBySetters ==
  ASSUME NEW c, IsContainer(c), NEW d, IsContainer(d)
  PROVE  /\ c.size = 0 => Freed(Named(Cleared(d), c.id)) = Opened(c, d)
         /\ c.size > 0 => Allocated(Named(Cleared(d), c.id), c.size) = Opened(c, d)
<1> DEFINE u == [f \in Fields |-> Undefined]
           m == [field |-> u, id |-> c.id, size |-> d.size, held |-> d.held]
<1>1. c.id \in Nat /\ c.id <= MAX_ID_LENGTH /\ c.size \in Nat
      /\ c.size <= MAX_DATA_SIZE /\ MAX_ID_LENGTH \in Nat
      /\ d = [field |-> d.field, id |-> d.id, size |-> d.size, held |-> d.held]
  BY ContainerParts, SMT DEF MAX_ID_LENGTH
<1>2. (IF c.id < MAX_ID_LENGTH THEN c.id ELSE MAX_ID_LENGTH) = c.id
  BY <1>1
<1>3. Cleared(d) = [field |-> u, id |-> 0, size |-> d.size, held |-> d.held]
  BY <1>1, Resets
<1>4. Opened(c, d) =
        [field |-> u, id |-> c.id, size |-> c.size,
         held |-> IF c.size = 0 THEN 0 ELSE IF c.size = d.size THEN d.held ELSE c.size]
  BY DEF Opened
<1> HIDE DEF u
<1>5. Named(Cleared(d), c.id) = m
  BY <1>2, <1>3, Setters
<1>6. Freed(m) = [field |-> u, id |-> c.id, size |-> 0, held |-> 0]
  <2>1. m = [field |-> u, id |-> c.id, size |-> d.size, held |-> d.held]
    OBVIOUS
  <2> HIDE DEF m
  <2> QED
    BY <2>1, Resets
<1>7. Allocated(m, c.size) =
        IF c.size = d.size THEN m
        ELSE [field |-> u, id |-> c.id, size |-> c.size, held |-> c.size]
  BY <1>1, Setters
<1>8. c.size = 0 => Freed(m) = Opened(c, d)
  <2> HIDE DEF m
  <2> QED
    BY <1>4, <1>6
<1>9. c.size > 0 => Allocated(m, c.size) = Opened(c, d)
  BY <1>1, <1>4, <1>7
<1> HIDE DEF m
<1> QED
  BY <1>5, <1>8, <1>9
\* A header is its flags, the ID, and the data.
Prefix(c) ==
  GroupFlags(CourseGroups, Carries(c, CourseGroups)) \o <<Flag(Extended(c))>>
  \o Bits(7, c.id) \o <<Flag(c.size > 0)>> \o Bytes(c.id)
DataPart(c) == IF c.size > 0 THEN Sizes(c) \o Bytes(c.size) ELSE <<>>

\* Each is a word of its length.
LEMMA HeaderBits ==
  ASSUME NEW c, IsContainer(c)
  PROVE  /\ Header(c) = Prefix(c) \o DataPart(c) /\ Header(c) \in Seq(Symbols)
         /\ Prefix(c) \in Seq(Symbols) /\ DataPart(c) \in Seq(Symbols)
         /\ Len(Prefix(c)) = 16 + 8 * c.id
         /\ Len(DataPart(c)) = IF c.size = 0 THEN 0
                           ELSE (IF c.size > 127 THEN 16 ELSE 8) + 8 * c.size
         /\ Len(Header(c)) = Len(Prefix(c)) + Len(DataPart(c))
<1> DEFINE G == GroupFlags(CourseGroups, Carries(c, CourseGroups))
           E == <<Flag(Extended(c))>>
           I == Bits(7, c.id)
           Z == <<Flag(c.size > 0)>>
           Y == Bytes(c.id)
<1>1. c.id \in Nat /\ c.size \in Nat /\ (c.size > 0) \in BOOLEAN
      /\ Extended(c) \in BOOLEAN
  BY ContainerParts DEF Extended, Defined
<1>2. /\ G \in Seq(Symbols) /\ Len(G) = 7 /\ E \in Seq(Symbols) /\ Len(E) = 1
      /\ I \in Seq(Symbols) /\ Len(I) = 7 /\ Z \in Seq(Symbols) /\ Len(Z) = 1
      /\ Y \in Seq(Symbols) /\ Len(Y) = 8 * c.id
  BY <1>1, HeaderPieces
<1>3. Prefix(c) = (((G \o E) \o I) \o Z) \o Y
  BY DEF Prefix
<1> HIDE DEF G, E, I, Z, Y
<1>4. G \o E \in Seq(Symbols) /\ Len(G \o E) = Len(G) + Len(E)
  BY <1>2, ConcatProperties
<1>5. (G \o E) \o I \in Seq(Symbols) /\ Len((G \o E) \o I) = Len(G \o E) + Len(I)
  BY <1>2, <1>4, ConcatProperties
<1>6. /\ ((G \o E) \o I) \o Z \in Seq(Symbols)
      /\ Len(((G \o E) \o I) \o Z) = Len((G \o E) \o I) + Len(Z)
  BY <1>2, <1>5, ConcatProperties
<1>7. /\ (((G \o E) \o I) \o Z) \o Y \in Seq(Symbols)
      /\ Len((((G \o E) \o I) \o Z) \o Y) = Len(((G \o E) \o I) \o Z) + Len(Y)
  BY <1>2, <1>6, ConcatProperties
<1>8. Len((((G \o E) \o I) \o Z) \o Y) = 16 + 8 * c.id
  BY <1>1, <1>2, <1>4, <1>5, <1>6, <1>7
<1>9. Prefix(c) \in Seq(Symbols) /\ Len(Prefix(c)) = 16 + 8 * c.id
  BY <1>3, <1>7, <1>8
<1>10. /\ DataPart(c) \in Seq(Symbols)
       /\ Len(DataPart(c)) = IF c.size = 0 THEN 0
                         ELSE (IF c.size > 127 THEN 16 ELSE 8) + 8 * c.size
  <2>1. CASE c.size = 0
    <3>1. DataPart(c) = <<>>
      BY <2>1 DEF DataPart
    <3> QED
      BY <2>1, <3>1
  <2>2. CASE c.size # 0
    <3> DEFINE S == Sizes(c)
               D == Bytes(c.size)
    <3>1. S \in Seq(Symbols) /\ Len(S) = IF c.size > 127 THEN 16 ELSE 8
      BY SizesBits
    <3>2. D \in Seq(Symbols) /\ Len(D) = 8 * c.size
      BY <1>1, HeaderPieces
    <3>3. DataPart(c) = S \o D
      BY <1>1, <2>2 DEF DataPart
    <3> HIDE DEF S, D
    <3>4. S \o D \in Seq(Symbols) /\ Len(S \o D) = Len(S) + Len(D)
      BY <3>1, <3>2, ConcatProperties
    <3> QED
      BY <2>2, <3>1, <3>2, <3>3, <3>4
  <2> QED
    BY <2>1, <2>2
<1>11. Header(c) = Prefix(c) \o DataPart(c)
  BY DEF Header, Prefix, DataPart, Sizes
<1> DEFINE P == Prefix(c)
           T == DataPart(c)
<1>12. P \in Seq(Symbols) /\ T \in Seq(Symbols) /\ Header(c) = P \o T
  BY <1>9, <1>10, <1>11
<1> HIDE DEF P, T
<1>13. Header(c) \in Seq(Symbols) /\ Len(Header(c)) = Len(P) + Len(T)
  BY <1>12, ConcatProperties
<1> QED
  BY <1>9, <1>10, <1>11, <1>13 DEF P, T

\* The flags and the ID are read.
LEMMA PrefixRead ==
  ASSUME NEW c, IsContainer(c), NEW w, Holds(w, 0, Prefix(c))
  PROVE  /\ Slice(w, 0, 7) = GroupFlags(CourseGroups, Carries(c, CourseGroups))
         /\ w[8] = Flag(Extended(c)) /\ w[16] = Flag(c.size > 0)
         /\ Number(Slice(w, 8, 7)) = c.id
<1> DEFINE G == GroupFlags(CourseGroups, Carries(c, CourseGroups))
           E == <<Flag(Extended(c))>>
           I == Bits(7, c.id)
           Z == <<Flag(c.size > 0)>>
           Y == Bytes(c.id)
<1>1. c.id \in Nat /\ c.id < 128 /\ (c.size > 0) \in BOOLEAN
      /\ Extended(c) \in BOOLEAN
  BY ContainerParts DEF Extended, Defined, MAX_ID_LENGTH
<1>2. /\ G \in Seq(Symbols) /\ Len(G) = 7 /\ E \in Seq(Symbols) /\ Len(E) = 1
      /\ I \in Seq(Symbols) /\ Len(I) = 7 /\ Z \in Seq(Symbols) /\ Len(Z) = 1
      /\ Y \in Seq(Symbols)
  BY <1>1, HeaderPieces
<1>3. Prefix(c) = (((G \o E) \o I) \o Z) \o Y
  BY DEF Prefix
<1>4. E[1] = Flag(Extended(c)) /\ Z[1] = Flag(c.size > 0)
  OBVIOUS
<1> HIDE DEF G, E, I, Z, Y
<1>5. G \o E \in Seq(Symbols) /\ Len(G \o E) = Len(G) + Len(E)
  BY <1>2, ConcatProperties
<1>6. (G \o E) \o I \in Seq(Symbols) /\ Len((G \o E) \o I) = Len(G \o E) + Len(I)
  BY <1>2, <1>5, ConcatProperties
<1>7. ((G \o E) \o I) \o Z \in Seq(Symbols)
  BY <1>2, <1>6, ConcatProperties
<1>8. Holds(w, 0, ((G \o E) \o I) \o Z)
  <2>1. 0 \in Nat /\ Holds(w, 0, (((G \o E) \o I) \o Z) \o Y)
    BY <1>3
  <2> QED
    BY <1>2, <1>7, <2>1, HoldsParts
<1>9. Holds(w, 0, (G \o E) \o I) /\ Holds(w, 15, Z)
  <2>1. 0 \in Nat /\ 0 + Len((G \o E) \o I) = 15
    BY <1>2, <1>5, <1>6
  <2>2. /\ Holds(w, 0, (G \o E) \o I)
        /\ Holds(w, 0 + Len((G \o E) \o I), Z)
    BY <1>2, <1>6, <1>8, <2>1, HoldsParts
  <2> QED
    BY <2>1, <2>2
<1>10. Holds(w, 0, G \o E) /\ Holds(w, 8, I)
  <2>1. 0 \in Nat /\ 0 + Len(G \o E) = 8
    BY <1>2, <1>5
  <2>2. Holds(w, 0, G \o E) /\ Holds(w, 0 + Len(G \o E), I)
    BY <1>2, <1>5, <1>9, <2>1, HoldsParts
  <2> QED
    BY <2>1, <2>2
<1>11. Holds(w, 0, G) /\ Holds(w, 7, E)
  <2>1. 0 \in Nat /\ 0 + Len(G) = 7
    BY <1>2
  <2>2. Holds(w, 0, G) /\ Holds(w, 0 + Len(G), E)
    BY <1>2, <1>10, <2>1, HoldsParts
  <2> QED
    BY <2>1, <2>2
<1>12. Slice(w, 0, 7) = G
  <2>1. 0 \in Nat /\ 7 = Len(G)
    BY <1>2
  <2> QED
    BY <1>2, <1>11, <2>1, SliceHolds
<1>13. w[8] = Flag(Extended(c)) /\ w[16] = Flag(c.size > 0)
  <2>1. w[7 + 1] = E[1] /\ w[15 + 1] = Z[1]
    BY <1>2, <1>9, <1>11 DEF Holds
  <2> QED
    BY <1>4, <2>1
<1>14. Number(Slice(w, 8, 7)) = c.id
  <2>1. 8 \in Nat /\ 7 = Len(I)
    BY <1>2
  <2>2. Slice(w, 8, 7) = I
    BY <1>2, <1>10, <2>1, SliceHolds
  <2>3. 7 \in 1 .. 31 /\ 2 * 2^(7 - 1) = 128
    OBVIOUS
  <2> QED
    BY <1>1, <2>2, <2>3, NumberOfBits DEF I
<1> QED
  BY <1>12, <1>13, <1>14 DEF G

\* A header is read to its end, into a container of its ID and the size of its data.
LEMMA HeaderRead ==
  ASSUME NEW c, IsContainer(c), NEW d, IsContainer(d), NEW w, Holds(w, 0, Header(c))
  PROVE  /\ ReadHeader(w, d) = [at |-> Len(Header(c)), to |-> Opened(c, d)]
         /\ Slice(w, 0, 7) = GroupFlags(CourseGroups, Carries(c, CourseGroups))
         /\ w[8] = Flag(Extended(c))
<1> DEFINE at == 16 + 8 * c.id
<1>1. c.id \in Nat /\ c.size \in Nat /\ at \in Nat
  BY ContainerParts
<1>2. /\ Prefix(c) \in Seq(Symbols) /\ DataPart(c) \in Seq(Symbols)
      /\ Len(Prefix(c)) = at /\ Len(Header(c)) = at + Len(DataPart(c))
      /\ Len(DataPart(c)) = IF c.size = 0 THEN 0
                        ELSE (IF c.size > 127 THEN 16 ELSE 8) + 8 * c.size
  BY HeaderBits
<1> HIDE DEF at
<1>3. Holds(w, 0, Prefix(c)) /\ Holds(w, at, DataPart(c))
  <2>1. 0 \in Nat /\ 0 + Len(Prefix(c)) = at /\ Holds(w, 0, Prefix(c) \o DataPart(c))
    <3>1. Header(c) = Prefix(c) \o DataPart(c)
      BY HeaderBits
    <3>2. Holds(w, 0, Prefix(c) \o DataPart(c))
      BY <3>1
    <3>3. 0 + Len(Prefix(c)) = at
      BY <1>1, <1>2
    <3> QED
      BY <3>2, <3>3
  <2>2. Holds(w, 0, Prefix(c)) /\ Holds(w, 0 + Len(Prefix(c)), DataPart(c))
    BY <1>2, <2>1, HoldsParts
  <2> QED
    BY <2>1, <2>2
<1>4. /\ Slice(w, 0, 7) = GroupFlags(CourseGroups, Carries(c, CourseGroups))
      /\ w[8] = Flag(Extended(c)) /\ w[16] = Flag(c.size > 0)
      /\ Number(Slice(w, 8, 7)) = c.id
  BY <1>3, PrefixRead
<1>5. 16 + 8 * Number(Slice(w, 8, 7)) = at
  BY <1>4 DEF at
<1> DEFINE more == w[at + 8] = 1
           size == Number(Slice(w, at, 7))
                   + (IF more THEN 128 * Number(Slice(w, at + 8, 8)) ELSE 0)
           named == Named(Cleared(d), c.id)
<1>6. ReadHeader(w, d) =
        IF w[16] = 0 THEN [at |-> at, to |-> Freed(named)]
        ELSE [at |-> at + (IF more THEN 16 ELSE 8) + 8 * size,
              to |-> Allocated(named, size)]
  BY <1>4, <1>5 DEF ReadHeader
<1> HIDE DEF named
<1>7. CASE c.size = 0
  <2>1. w[16] = 0 /\ Len(Header(c)) = at
    BY <1>1, <1>2, <1>4, <1>7 DEF Flag
  <2>2. Freed(named) = Opened(c, d)
    BY <1>7, OpenedBySetters DEF named
  <2> QED
    BY <1>4, <1>6, <2>1, <2>2
<1>8. CASE c.size # 0
  <2>1. c.size > 0 /\ w[16] # 0
    BY <1>1, <1>4, <1>8 DEF Flag
  <2>2. Holds(w, at, Sizes(c))
    <3>1. DataPart(c) = Sizes(c) \o Bytes(c.size)
      BY <2>1 DEF DataPart
    <3>2. Sizes(c) \in Seq(Symbols) /\ Bytes(c.size) \in Seq(Symbols)
      BY <1>1, SizesBits, HeaderPieces
    <3>3. Holds(w, at, Sizes(c) \o Bytes(c.size))
      BY <1>3, <3>1
    <3> QED
      BY <1>1, <3>2, <3>3, HoldsParts
  <2>3. (more <=> c.size > 127) /\ size = c.size
    BY <1>1, <2>2, SizesRead
  <2> HIDE DEF more, size
  <2>4. at + (IF more THEN 16 ELSE 8) + 8 * size = Len(Header(c))
    <3>1. Len(Header(c)) = at + ((IF c.size > 127 THEN 16 ELSE 8) + 8 * c.size)
      BY <1>2, <1>8
    <3> QED
      BY <1>1, <2>3, <3>1
  <2>5. Allocated(named, c.size) = Opened(c, d)
    BY <2>1, OpenedBySetters DEF named
  <2> QED
    BY <1>4, <1>6, <2>1, <2>3, <2>4, <2>5
<1> QED
  BY <1>7, <1>8
------------------------------------------------------------------------------
(* A payload read as it was written. *)

\* The fields of a message can be written.
LEMMA SequencesWritable ==
  ASSUME NEW c, NEW s \in {CourseSequence(c), ErrorSequence(c)}
  PROVE  /\ Len(s) \in Nat \ {0} /\ s \in [1 .. Len(s) -> Fields]
         /\ \A i \in 1 .. Len(s) : Writable(c, s[i])
<1>1. s \in Seq(Fields) /\ Len(s) \in Nat \ {0}
  BY Sequences
<1>2. s \in [1 .. Len(s) -> Fields] /\ DOMAIN s = 1 .. Len(s)
  BY <1>1, LenProperties
<1>3. \A f \in ToSet(s) : \/ f \in {"Time", "SourceType"}
                          \/ \A x \in Companions(f) : Defined(c, x)
  BY Sequences
<1>4. \A f : f \notin {"Time", "SourceType"} => f \in Companions(f)
  BY DEF Companions
<1>5. \A i \in 1 .. Len(s) : s[i] \in ToSet(s) /\ s[i] \in Fields
  BY <1>2 DEF ToSet
<1>6. \A i \in 1 .. Len(s) : Writable(c, s[i])
  BY <1>3, <1>4, <1>5 DEF Writable
<1> QED
  BY <1>1, <1>2, <1>6

\* The course and the errors are words.
LEMMA WrittenBits ==
  ASSUME NEW c, IsContainer(c), NEW s \in {CourseSequence(c), ErrorSequence(c)}
  PROVE  WriteFields(c, s) \in Seq(Symbols)
<1> DEFINE N == Len(s)
           p == [i \in 1 .. N |-> WriteField(c, s[i])]
<1>1. /\ N \in Nat \ {0} /\ s \in [1 .. N -> Fields]
      /\ \A i \in 1 .. N : Writable(c, s[i])
  BY SequencesWritable
<1>2. ASSUME NEW b \in Seq({0, 1})
      PROVE  b \in Seq(Symbols)
  BY SeqMonotonic DEF Symbols
<1>3. \A i \in 1 .. N : WriteField(c, s[i]) \in Seq(Symbols)
  BY <1>1, <1>2, BitsOfField
<1>4. p \in [1 .. N -> Seq(Symbols)]
  BY <1>3
<1>5. WriteFields(c, s) = FlattenSeq(p)
  BY <1>1 DEF WriteFields
<1> HIDE DEF p, N
<1> QED
  BY <1>1, <1>4, <1>5, ElementsOfFlatten

\* A word is filled up to a byte.
LEMMA AlignedShape ==
  ASSUME NEW s \in Seq(Symbols)
  PROVE  \E pad \in Seq(Symbols) :
           /\ Aligned(s) = s \o pad /\ Aligned(s) \in Seq(Symbols)
           /\ Len(Aligned(s)) = Len(s) + ((-Len(s)) % 8)
           /\ Len(s) \in Nat /\ (-Len(s)) % 8 \in Nat
<1> DEFINE n == (-Len(s)) % 8
           pad == [i \in 1 .. n |-> 0]
<1>1. Len(s) \in Nat
  BY LenProperties
<1>2. n \in Nat
  BY <1>1
<1>3. Aligned(s) = s \o pad
  BY DEF Aligned
<1> HIDE DEF n
<1>4. pad \in [1 .. n -> Symbols]
  BY <1>2 DEF Symbols
<1>5. pad \in Seq(Symbols)
  BY <1>2, <1>4
<1>6. Len(pad) = n
  BY <1>2, <1>4, <1>5, LenProperties
<1> HIDE DEF pad
<1>7. s \o pad \in Seq(Symbols) /\ Len(s \o pad) = Len(s) + Len(pad)
  BY <1>5, ConcatProperties
<1> QED
  BY <1>1, <1>2, <1>3, <1>5, <1>6, <1>7 DEF n

\* Flags read back name the groups they were made of.
LEMMA FlagsRead ==
  ASSUME NEW groups \in {CourseGroups, ErrorGroups}, NEW S, S \subseteq 1 .. 7
  PROVE  Flagged(GroupFlags(groups, S), groups) = Carried(groups, S)
<1>1. DOMAIN groups = 1 .. 7
  BY GroupSets
<1>2. {g \in DOMAIN groups : GroupFlags(groups, S)[g] = 1} = S
  <2>1. \A g \in DOMAIN groups : GroupFlags(groups, S)[g] = Flag(g \in S)
    BY DEF GroupFlags
  <2>2. \A g \in DOMAIN groups : Flag(g \in S) = 1 <=> g \in S
    BY DEF Flag
  <2> QED
    BY <1>1, <2>1, <2>2
<1> QED
  BY <1>2 DEF Flagged

\* The course is read after the header.
LEMMA CourseRead ==
  ASSUME NEW c, IsContainer(c), NEW d, IsContainer(d), NEW w,
         Holds(w, 0, Header(c) \o Course(c))
  PROVE  ReadCourse(w, d) =
           [at |-> Len(Header(c) \o Course(c)),
            to |-> Given(Opened(c, d), c, ToSet(CourseSequence(c)))]
<1> DEFINE s == CourseSequence(c)
           K == Carries(c, CourseGroups)
           H == Header(c)
           C == Course(c)
<1>1. H \in Seq(Symbols) /\ C \in Seq(Symbols) /\ C = WriteFields(c, s)
  BY HeaderBits, WrittenBits DEF Course
<1>2. K \subseteq 1 .. 7
  BY GroupSets DEF Carries
<1>3. <<"Time">> \o Flagged(GroupFlags(CourseGroups, K), CourseGroups) = s
  BY <1>2, FlagsRead DEF CourseSequence
<1>4. /\ Len(s) \in Nat \ {0} /\ s \in [1 .. Len(s) -> Fields]
      /\ \A i \in 1 .. Len(s) : Writable(c, s[i])
  BY SequencesWritable
<1>5. Holds(w, 0, H \o C)
  OBVIOUS
<1>6. Slice(w, 0, 7) = GroupFlags(CourseGroups, K)
      /\ ReadHeader(w, d) = [at |-> Len(H), to |-> Opened(c, d)]
  <2>1. Holds(w, 0, H)
    <3> HIDE DEF H, C
    <3>1. 0 \in Nat
      OBVIOUS
    <3> QED
      BY <1>1, <1>5, <3>1, HoldsParts
  <2> QED
    BY <2>1, HeaderRead
<1> HIDE DEF H, C, s, K
<1>7. Holds(w, Len(H), C) /\ Len(H) \in Nat
  <2>1. 0 \in Nat
    OBVIOUS
  <2>2. Holds(w, 0 + Len(H), C) /\ Len(H) \in Nat
    BY <1>1, <1>5, <2>1, HoldsParts
  <2>3. 0 + Len(H) = Len(H)
    BY <2>2
  <2> QED
    BY <2>2, <2>3
<1>8. Open(Opened(c, d))
  BY DEF Open, Opened
<1>9. ReadCourse(w, d) = ReadFields(w, [at |-> Len(H), to |-> Opened(c, d)], s)
  BY <1>3, <1>6 DEF ReadCourse
<1>10. ReadFields(w, [at |-> Len(H), to |-> Opened(c, d)], s)
         = [at |-> Len(H) + Len(C), to |-> Given(Opened(c, d), c, ToSet(s))]
  <2> DEFINE N == Len(s)
             o == Opened(c, d)
             a == Len(H)
  <2>1. /\ N \in Nat \ {0} /\ s \in [1 .. N -> Fields] /\ Open(o) /\ a \in Nat
        /\ \A i \in 1 .. N : Writable(c, s[i])
        /\ Holds(w, a, WriteFields(c, s))
    BY <1>1, <1>4, <1>7, <1>8
  <2> HIDE DEF N, o, a
  <2>2. ReadFields(w, [at |-> a, to |-> o], s)
          = [at |-> a + Len(WriteFields(c, s)), to |-> Given(o, c, ToSet(s))]
    BY <2>1, ReadWritten
  <2> QED
    BY <1>1, <2>2 DEF o, a
<1>11. Len(H \o C) = Len(H) + Len(C)
  BY <1>1, ConcatProperties
<1> QED
  BY <1>9, <1>10, <1>11 DEF H, C, s
\* What the errors follow: the header and the course, and in extended content their
\* alignment and the flags of the errors.
LEMMA RealignedShape ==
  ASSUME NEW c, IsContainer(c), NEW k \in Seq(Symbols)
  PROVE  /\ Len(k) \in Nat /\ Len(k) + ((-Len(k)) % 8) \in Nat
         /\ Aligned(k) \in Seq(Symbols)
         /\ Len(Aligned(k)) = Len(k) + ((-Len(k)) % 8)
         /\ ErrorFlags(c) \in Seq(Symbols)
         /\ Realigned(c, k) \in Seq(Symbols)
         /\ Len(Realigned(c, k)) =
              IF Extended(c) THEN (Len(k) + ((-Len(k)) % 8)) + 8 ELSE Len(k)
<1> DEFINE R == Realigned(c, k)
           G == GroupFlags(ErrorGroups, Carries(c, ErrorGroups))
           F == ErrorFlags(c)
           A == Aligned(k)
           at == Len(k) + ((-Len(k)) % 8)
<1>1. Extended(c) \in BOOLEAN
  BY DEF Extended, Defined
<1>2. G \in Seq(Symbols) /\ Len(G) = 7 /\ F = G \o <<0>>
  BY HeaderPieces DEF ErrorFlags
<1>3. F \in Seq(Symbols) /\ Len(F) = 8
  <2>1. <<0>> \in Seq(Symbols) /\ Len(<<0>>) = 1
    BY DEF Symbols
  <2> DEFINE z == <<0>>
  <2> HIDE DEF z, G, F
  <2>2. G \o z \in Seq(Symbols) /\ Len(G \o z) = Len(G) + Len(z)
    BY <1>2, <2>1, ConcatProperties DEF z
  <2> QED
    BY <1>2, <2>1, <2>2 DEF z
<1>4. /\ Len(k) \in Nat /\ at \in Nat /\ A \in Seq(Symbols) /\ Len(A) = at
  <2>1. \E pad \in Seq(Symbols) :
           /\ Aligned(k) = k \o pad /\ Aligned(k) \in Seq(Symbols)
           /\ Len(Aligned(k)) = Len(k) + ((-Len(k)) % 8)
           /\ Len(k) \in Nat /\ (-Len(k)) % 8 \in Nat
    BY AlignedShape
  <2> QED
    BY <2>1
<1>5. R = IF Extended(c) THEN A \o F ELSE k
  BY DEF Realigned
<1> HIDE DEF F, A
<1>6. R \in Seq(Symbols) /\ Len(R) = IF Extended(c) THEN at + 8 ELSE Len(k)
  <2>1. A \o F \in Seq(Symbols) /\ Len(A \o F) = Len(A) + Len(F)
    BY <1>3, <1>4, ConcatProperties
  <2> HIDE DEF R, at
  <2> QED
    BY <1>1, <1>3, <1>4, <1>5, <2>1
<1> QED
  BY <1>3, <1>4, <1>6 DEF F, A

\* The errors are read after the course, wherever their flags are.
LEMMA ErrorsRead ==
  ASSUME NEW c, IsContainer(c), NEW w, NEW q, Open(q), w[8] = Flag(Extended(c)),
         NEW k \in Seq(Symbols), Holds(w, 0, Realigned(c, k) \o Errors(c))
  PROVE  ReadErrors(w, [at |-> Len(k), to |-> q]) =
           [at |-> Len(Realigned(c, k) \o Errors(c)),
            to |-> Given(q, c, ToSet(ErrorSequence(c)))]
<1> DEFINE s == ErrorSequence(c)
           K == Carries(c, ErrorGroups)
           R == Realigned(c, k)
           X == Errors(c)
           G == GroupFlags(ErrorGroups, K)
           F == ErrorFlags(c)
           A == Aligned(k)
           r == [at |-> Len(k), to |-> q]
           at == Len(k) + ((-Len(k)) % 8)
           extended == w[8] = 1
           flags == IF extended THEN Slice(w, at, 7) ELSE [g \in 1 .. 7 |-> 0]
<1>1. extended <=> Extended(c)
  BY DEF Flag
<1>2. /\ K \subseteq 1 .. 7 /\ (~Extended(c) => K = {})
      /\ Extended(c) \in BOOLEAN
  BY GroupSets DEF Carries, Extended, Defined
<1>3. X \in Seq(Symbols) /\ X = WriteFields(c, s)
  BY WrittenBits DEF Errors
<1>4. G \in Seq(Symbols) /\ Len(G) = 7 /\ F = G \o <<0>>
  BY HeaderPieces DEF ErrorFlags
<1>5. /\ Len(k) \in Nat /\ at \in Nat /\ A \in Seq(Symbols) /\ Len(A) = at
      /\ F \in Seq(Symbols) /\ R \in Seq(Symbols)
      /\ Len(R) = IF Extended(c) THEN at + 8 ELSE Len(k)
  BY RealignedShape
<1>6. R = IF Extended(c) THEN A \o F ELSE k
  BY DEF Realigned
<1> HIDE DEF X, F, A, s, R
<1>7. Holds(w, 0, R) /\ Holds(w, Len(R), X) /\ Len(R) \in Nat
      /\ R \o X \in Seq(Symbols) /\ Len(R \o X) = Len(R) + Len(X)
  <2>1. 0 \in Nat /\ Holds(w, 0, R \o X)
    BY DEF R, X
  <2>2. Holds(w, 0, R) /\ Holds(w, 0 + Len(R), X) /\ Len(R) \in Nat
    BY <1>3, <1>5, <2>1, HoldsParts
  <2>3. 0 + Len(R) = Len(R)
    BY <2>2
  <2>4. R \o X \in Seq(Symbols) /\ Len(R \o X) = Len(R) + Len(X)
    BY <1>3, <1>5, ConcatProperties
  <2> QED
    BY <2>2, <2>3, <2>4
<1>8. <<"SourceType">> \o Flagged(flags, ErrorGroups) = s
  <2>1. CASE Extended(c)
    <3>1. Holds(w, 0, A \o F)
      BY <1>6, <1>7, <2>1
    <3>2. Holds(w, at, G)
      <4>1. 0 \in Nat /\ 0 + Len(A) = at /\ <<0>> \in Seq(Symbols)
        BY <1>5 DEF Symbols
      <4>2. Holds(w, 0 + Len(A), F)
        BY <1>5, <3>1, <4>1, HoldsParts
      <4>3. Holds(w, at, G \o <<0>>)
        BY <1>4, <4>1, <4>2
      <4> DEFINE z == <<0>>
      <4> HIDE DEF z, at, G
      <4>4. z \in Seq(Symbols) /\ Holds(w, at, G \o z)
        BY <4>1, <4>3 DEF z
      <4> QED
        BY <1>4, <1>5, <4>4, HoldsParts
    <3>3. Slice(w, at, 7) = G
      <4>1. 7 = Len(G) /\ G \in Seq(Symbols) /\ at \in Nat
        BY <1>4, <1>5
      <4> HIDE DEF at, G
      <4> QED
        BY <3>2, <4>1, SliceHolds
    <3>4. flags = G
      BY <1>1, <2>1, <3>3
    <3> QED
      BY <1>2, <3>4, FlagsRead DEF ErrorSequence, s
  <2>2. CASE ~Extended(c)
    <3>1. flags = [g \in 1 .. 7 |-> 0]
      BY <1>1, <2>2
    <3>2. [g \in 1 .. 7 |-> 0] = GroupFlags(ErrorGroups, {})
      BY GroupSets DEF GroupFlags, Flag
    <3>3. K = {} /\ {} \subseteq 1 .. 7
      BY <1>2, <2>2
    <3>4. Flagged(GroupFlags(ErrorGroups, {}), ErrorGroups) = Carried(ErrorGroups, {})
      BY <3>3, FlagsRead
    <3>5. flags = GroupFlags(ErrorGroups, {})
      BY <3>1, <3>2
    <3> HIDE DEF flags
    <3> QED
      BY <3>3, <3>4, <3>5 DEF ErrorSequence, s
  <2> QED
    BY <2>1, <2>2
<1>9. (IF extended THEN [r EXCEPT !.at = at + 8] ELSE r) = [at |-> Len(R), to |-> q]
  <2>1. [r EXCEPT !.at = at + 8] = [at |-> at + 8, to |-> q]
    OBVIOUS
  <2> QED
    BY <1>1, <1>5, <2>1
<1>10. ReadErrors(w, r) = ReadFields(w, [at |-> Len(R), to |-> q], s)
  <2>1. r.at = Len(k)
    OBVIOUS
  <2>2. ReadErrors(w, r)
          = ReadFields(w, IF extended THEN [r EXCEPT !.at = at + 8] ELSE r,
                       <<"SourceType">> \o Flagged(flags, ErrorGroups))
    BY <2>1 DEF ReadErrors
  <2> QED
    BY <1>8, <1>9, <2>2
<1>11. ReadFields(w, [at |-> Len(R), to |-> q], s)
         = [at |-> Len(R) + Len(X), to |-> Given(q, c, ToSet(s))]
  <2> DEFINE N == Len(s)
             a == Len(R)
  <2>1. /\ N \in Nat \ {0} /\ s \in [1 .. N -> Fields]
        /\ \A i \in 1 .. N : Writable(c, s[i])
    BY SequencesWritable DEF s
  <2>2. a \in Nat /\ Holds(w, a, WriteFields(c, s))
    BY <1>3, <1>7
  <2> HIDE DEF N, a
  <2>3. ReadFields(w, [at |-> a, to |-> q], s)
          = [at |-> a + Len(WriteFields(c, s)), to |-> Given(q, c, ToSet(s))]
    BY <2>1, <2>2, ReadWritten
  <2> QED
    BY <1>3, <2>3 DEF a
<1> QED
  BY <1>7, <1>10, <1>11 DEF R, X, s

\* What a message delivers of a container.
Delivered(c, d) ==
  [field |-> [f \in Fields |-> IF \A x \in Companions(f) : Defined(c, x)
                               THEN Received(c, f) ELSE Undefined],
   id |-> c.id, size |-> c.size,
   held |-> IF c.size = 0 THEN 0 ELSE IF c.size = d.size THEN d.held ELSE c.size]

\* An undefined time or source type is read as such.
LEMMA UndefinedReceived ==
  ASSUME NEW c, IsContainer(c), NEW f \in {"Time", "SourceType"}, ~Defined(c, f)
  PROVE  Received(c, f) = Undefined
<1>1. Writable(c, f) /\ f \notin CourseFields \union ErrorFields
  BY Layout DEF Writable, Fields
<1>2. Received(c, f) = c.field[f]
  BY <1>1, FieldReceived
<1> QED
  BY <1>2 DEF Defined

\* What the two passes give together.
LEMMA DeliveredInTwo ==
  ASSUME NEW c, IsContainer(c), NEW d
  PROVE  Given(Given(Opened(c, d), c, ToSet(CourseSequence(c))),
               c, ToSet(ErrorSequence(c))) = Delivered(c, d)
<1> DEFINE A == ToSet(CourseSequence(c))
           B == ToSet(ErrorSequence(c))
           g == Given(Opened(c, d), c, A)
<1>1. /\ \A f : f \in A <=> \/ f = "Time"
                            \/ f \in CourseFields /\ \A x \in Companions(f) : Defined(c, x)
      /\ \A f : f \in B <=> \/ f = "SourceType"
                            \/ f \in ErrorFields /\ \A x \in Companions(f) : Defined(c, x)
  BY Sequences
<1> HIDE DEF A, B
<1>2. ASSUME NEW f \in Fields
      PROVE  (IF f \in B THEN Received(c, f) ELSE
              IF f \in A THEN Received(c, f) ELSE Undefined)
               = IF \A x \in Companions(f) : Defined(c, x) THEN Received(c, f)
                 ELSE Undefined
  <2>1. CASE f \in {"Time", "SourceType"}
    <3>1. Companions(f) = {f} /\ (f \in A \/ f \in B)
      BY <1>1, <2>1 DEF Companions
    <3>2. Defined(c, f) \/ Received(c, f) = Undefined
      BY <2>1, UndefinedReceived
    <3> QED
      BY <3>1, <3>2
  <2>2. CASE f \notin {"Time", "SourceType"}
    <3>1. f \in CourseFields \/ f \in ErrorFields
      BY <2>2 DEF Fields
    <3>2. f \in A \/ f \in B <=> \A x \in Companions(f) : Defined(c, x)
      BY <1>1, <2>2, <3>1
    <3> QED
      BY <3>2
  <2> QED
    BY <2>1, <2>2
<1>3. \A f \in Fields : g.field[f] = IF f \in A THEN Received(c, f) ELSE Undefined
  BY DEF Given, Opened
<1>4. g.id = c.id /\ g.size = c.size
      /\ g.held = IF c.size = 0 THEN 0 ELSE IF c.size = d.size THEN d.held ELSE c.size
  BY DEF Given, Opened
<1> HIDE DEF g
<1>5. [f \in Fields |-> IF f \in B THEN Received(c, f) ELSE g.field[f]]
        = [f \in Fields |-> IF \A x \in Companions(f) : Defined(c, x)
                            THEN Received(c, f) ELSE Undefined]
  BY <1>2, <1>3
<1>6. Given(g, c, B) = Delivered(c, d)
  BY <1>4, <1>5 DEF Given, Delivered
<1> QED
  BY <1>6 DEF g, A, B

\* A whole number of bytes is read, and they are all of them.
LEMMA WholeBytes ==
  ASSUME NEW n \in Nat
  PROVE  LET m == n + ((-n) % 8)
         IN  /\ m % 8 = 0 /\ m \in Nat
             /\ 8 * ((n + 7) \div 8) = m /\ (n + 7) \div 8 = m \div 8
OBVIOUS

\* What unserialize() makes of what serialize() wrote, for every container and
\* whatever the container it reads into had before (payload.cpp:33-370, 372-660):
\* it returns the size of the payload, and of the source's container there is the ID,
\* the size of the data, and every field that has its companions.
THEOREM CodecRoundTrip ==
  ASSUME NEW c, IsContainer(c), NEW d, IsContainer(d)
  PROVE  /\ Unserialized(Payload(c), d) =
              [to |-> Delivered(c, d), result |-> Len(Payload(c)) \div 8]
         /\ Len(Payload(c)) \in Nat /\ Len(Payload(c)) % 8 = 0
<1> DEFINE H == Header(c)
           C == Course(c)
           k == H \o C
           R == Realigned(c, k)
           X == Errors(c)
           T == R \o X
           w == Payload(c)
           q == Given(Opened(c, d), c, ToSet(CourseSequence(c)))
<1>1. H \in Seq(Symbols) /\ C \in Seq(Symbols) /\ X \in Seq(Symbols)
  BY HeaderBits, WrittenBits DEF Course, Errors
<1>2. k \in Seq(Symbols)
  <2> HIDE DEF H, C
  <2> QED
    BY <1>1, ConcatProperties
<1>3. w = Aligned(T) /\ R \in Seq(Symbols)
  BY <1>2, RealignedShape DEF Payload
<1>4. T \in Seq(Symbols)
  <2> HIDE DEF R, X
  <2> QED
    BY <1>1, <1>3, ConcatProperties
<1>5. PICK pad \in Seq(Symbols) :
        /\ w = T \o pad /\ w \in Seq(Symbols)
        /\ Len(w) = Len(T) + ((-Len(T)) % 8) /\ Len(T) \in Nat
  <2> HIDE DEF T
  <2>1. \E pad \in Seq(Symbols) :
          /\ Aligned(T) = T \o pad /\ Aligned(T) \in Seq(Symbols)
          /\ Len(Aligned(T)) = Len(T) + ((-Len(T)) % 8)
          /\ Len(T) \in Nat /\ (-Len(T)) % 8 \in Nat
    BY <1>4, AlignedShape
  <2> QED
    BY <1>3, <2>1
<1>6. Holds(w, 0, T)
  <2> HIDE DEF T, w
  <2>1. DOMAIN w = 1 .. Len(w) /\ Len(w) \in Nat
    BY <1>5, LenProperties
  <2>2. Holds(w, 0, T \o pad)
    BY <1>5, <2>1 DEF Holds
  <2>3. 0 \in Nat
    OBVIOUS
  <2> QED
    BY <1>4, <1>5, <2>2, <2>3, HoldsParts
<1>7. Holds(w, 0, R)
  <2> HIDE DEF w, R, X
  <2>1. 0 \in Nat
    OBVIOUS
  <2> QED
    BY <1>1, <1>3, <1>6, <2>1, HoldsParts
<1>8. Holds(w, 0, k)
  <2>1. CASE ~Extended(c)
    <3>1. R = k
      BY <2>1 DEF Realigned
    <3> QED
      BY <1>7, <3>1
  <2>2. CASE Extended(c)
    <3> DEFINE A == Aligned(k)
               F == ErrorFlags(c)
    <3>1. R = A \o F
      BY <2>2 DEF Realigned
    <3>2. A \in Seq(Symbols) /\ F \in Seq(Symbols)
      BY <1>2, RealignedShape
    <3>3. PICK fill \in Seq(Symbols) : A = k \o fill
      BY <1>2, AlignedShape
    <3> HIDE DEF A, F, R, w, k
    <3>4. 0 \in Nat /\ Holds(w, 0, A \o F)
      BY <1>7, <3>1
    <3>5. Holds(w, 0, A)
      BY <3>2, <3>4, HoldsParts
    <3>6. Holds(w, 0, k \o fill)
      BY <3>3, <3>5
    <3> QED
      BY <1>2, <3>3, <3>4, <3>6, HoldsParts
  <2> QED
    BY <2>1, <2>2
<1>9. Holds(w, 0, H)
  <2> HIDE DEF w, H, C
  <2>1. 0 \in Nat
    OBVIOUS
  <2> QED
    BY <1>1, <1>8, <2>1, HoldsParts
<1>10. w[8] = Flag(Extended(c))
  BY <1>9, HeaderRead
<1>11. ReadCourse(w, d) = [at |-> Len(k), to |-> q]
  BY <1>8, CourseRead
<1>12. ReadErrors(w, [at |-> Len(k), to |-> q]) = [at |-> Len(T), to |-> Delivered(c, d)]
  <2>1. Open(q)
    BY DEF Open, Given, Opened
  <2>2. Given(q, c, ToSet(ErrorSequence(c))) = Delivered(c, d)
    BY DeliveredInTwo
  <2> HIDE DEF w, k, q
  <2>3. Holds(w, 0, Realigned(c, k) \o Errors(c))
    BY <1>6
  <2>4. ReadErrors(w, [at |-> Len(k), to |-> q]) =
          [at |-> Len(Realigned(c, k) \o Errors(c)),
           to |-> Given(q, c, ToSet(ErrorSequence(c)))]
    BY <1>2, <1>10, <2>1, <2>3, ErrorsRead
  <2> QED
    BY <2>2, <2>4
<1> HIDE DEF w, T, k, q
<1> DEFINE size == (Len(T) + 7) \div 8
<1>13. ReadErrors(w, ReadCourse(w, d)) = [at |-> Len(T), to |-> Delivered(c, d)]
  BY <1>11, <1>12
<1>14. Unserialized(w, d) =
         [to |-> Delivered(c, d),
          result |-> IF 8 * size = Len(w) THEN size ELSE BadMessage]
  BY <1>13 DEF Unserialized
<1>15. /\ Len(w) % 8 = 0 /\ Len(w) \in Nat
       /\ 8 * size = Len(w) /\ size = Len(w) \div 8
  BY <1>5, WholeBytes
<1> HIDE DEF size
<1>16. Unserialized(w, d) = [to |-> Delivered(c, d), result |-> Len(w) \div 8]
  BY <1>14, <1>15
<1> QED
  BY <1>15, <1>16 DEF w
\* It is a container.
LEMMA DeliveredIsContainer ==
  ASSUME NEW c, IsContainer(c), NEW d, IsContainer(d)
  PROVE  IsContainer(Delivered(c, d))
<1> DEFINE e == Delivered(c, d)
<1>1. /\ c.id \in Nat /\ c.id <= MAX_ID_LENGTH
      /\ c.size \in Nat /\ c.size <= MAX_DATA_SIZE
      /\ d.held \in Nat /\ d.held <= MAX_DATA_SIZE
      /\ c.field \in [Fields -> Nat \union {Undefined}]
      /\ \A f \in Fields : Fits(f, c.field[f])
  BY ContainerParts
<1>2. /\ e.id = c.id /\ e.size = c.size /\ e.held \in Nat /\ e.held <= MAX_DATA_SIZE
      /\ e = [field |-> e.field, id |-> e.id, size |-> e.size, held |-> e.held]
  <2>1. e.held \in {0, d.held, c.size}
    BY DEF Delivered
  <2>2. 0 <= MAX_DATA_SIZE
    BY SMT DEF MAX_DATA_SIZE
  <2>3. e.id = c.id /\ e.size = c.size
        /\ e = [field |-> e.field, id |-> e.id, size |-> e.size, held |-> e.held]
    BY DEF Delivered
  <2> HIDE DEF e
  <2> QED
    BY <1>1, <2>1, <2>2, <2>3
<1>3. ASSUME NEW f \in Fields
      PROVE  /\ e.field[f] \in Nat \union {Undefined} /\ Fits(f, e.field[f])
  <2>1. e.field[f] = IF \A x \in Companions(f) : Defined(c, x) THEN Received(c, f)
                     ELSE Undefined
    BY DEF Delivered
  <2> HIDE DEF e
  <2>2. CASE \A x \in Companions(f) : Defined(c, x)
    <3>1. Writable(c, f)
      BY <2>2 DEF Writable, Companions
    <3>2. \/ e.field[f] = c.field[f]
          \/ f \in CourseFields \union ErrorFields /\ e.field[f] = OverflowMark
      BY <2>1, <2>2, <3>1, FieldReceived
    <3>3. OverflowMark \in Nat
      BY SMT DEF OverflowMark
    <3>4. f \in CourseFields \union ErrorFields => Fits(f, OverflowMark)
      BY SMT DEF Fits
    <3> QED
      BY <1>1, <3>2, <3>3, <3>4
  <2>3. CASE ~ \A x \in Companions(f) : Defined(c, x)
    BY <2>1, <2>3, SMT DEF Fits
  <2> QED
    BY <2>2, <2>3
<1>4. e.field \in [Fields -> Nat \union {Undefined}]
  <2>1. e.field = [f \in Fields |-> e.field[f]]
    BY DEF Delivered
  <2> HIDE DEF e
  <2> QED
    BY <1>3, <2>1
<1> HIDE DEF e
<1>5. IsContainer(e)
  BY <1>1, <1>2, <1>3, <1>4, ContainerParts
<1> QED
  BY <1>5 DEF e

------------------------------------------------------------------------------
(* Setters and getters. *)

\* The ranges of the course fields: what is between the overflows fits, and is
\* neither of their marks.
LEMMA Scales ==
  ASSUME NEW f \in CourseFields
  PROVE  /\ Scale[f][1] \in Nat /\ Scale[f][2] \in Int /\ Scale[f][3] \in Int
         /\ f \in Angles => Scale[f][1] = 0 /\ Scale[f][2] = 0
         /\ f \notin Angles => Rounded(Scale[f][2]) + Scale[f][1] >= 1
         /\ Rounded(Scale[f][3]) + Scale[f][1] < OverflowMark
         /\ Rounded(Scale[f][3]) + Scale[f][1] < 2 * 2^(Width(f) - 1)
         /\ Rounded(Scale[f][3]) + Scale[f][1] = 2 * 2^(Width(f) - 1) - 1 =>
              Rounded(Scale[f][3] - 1) < Rounded(Scale[f][3])
<1> USE DEF Scale, Angles, Rounded, OverflowMark, Width, CourseWidth
<1>1. CASE f = "Latitude"
  BY <1>1, SMT
<1>2. CASE f = "Longitude"
  BY <1>2, SMT
<1>3. CASE f = "Elevation"
  BY <1>3, SMT
<1>4. CASE f = "Bearing"
  BY <1>4, SMT
<1>5. CASE f = "GndSpeed"
  BY <1>5, SMT
<1>6. CASE f = "VrtSpeed"
  BY <1>6, SMT
<1>7. CASE f = "BearingDt"
  BY <1>7, SMT
<1>8. CASE f = "GndSpeedDt"
  BY <1>8, SMT
<1>9. CASE f = "VrtSpeedDt"
  BY <1>9, SMT
<1>10. CASE f = "Heading"
  BY <1>10, SMT
<1>11. CASE f = "AppSpeed"
  BY <1>11, SMT
<1> HIDE DEF Scale, Angles, Rounded, OverflowMark, Width, CourseWidth
<1> QED
  BY <1>1, <1>2, <1>3, <1>4, <1>5, <1>6, <1>7, <1>8, <1>9, <1>10, <1>11, Layout

\* Rounding keeps the order, and is half a step off at most.
LEMMA RoundedIsClose ==
  ASSUME NEW q \in Int
  PROVE  /\ Rounded(q) \in Int /\ 2 * Rounded(q) - q \in {0, 1}
         /\ \A p \in Int : p <= q => Rounded(p) <= Rounded(q)
BY DEF Rounded

\* What the setters of the course fields make of a quantity.
LEMMA StoredCourseRange ==
  ASSUME NEW f \in CourseFields, NEW q \in Int
  PROVE  LET n == StoredCourse(f, q)
         IN  \/ n = OverflowMark /\ (q > Scale[f][3] \/ (f \in Angles /\ q < 0))
             \/ n = 0 /\ f \notin Angles /\ q < Scale[f][2]
             \/ /\ n = Rounded(q) + Scale[f][1] /\ n \in Nat
                /\ (f \notin Angles => n # 0) /\ n < OverflowMark
                /\ n < 2 * 2^(Width(f) - 1)
                /\ n = 2 * 2^(Width(f) - 1) - 1 => q >= Scale[f][3]
<1> DEFINE b == Scale[f][1]
           lo == Scale[f][2]
           hi == Scale[f][3]
           n == StoredCourse(f, q)
           p == 2^(Width(f) - 1)
<1>1. /\ b \in Nat /\ lo \in Int /\ hi \in Int
      /\ f \in Angles => b = 0 /\ lo = 0
      /\ f \notin Angles => Rounded(lo) + b >= 1
      /\ Rounded(hi) + b < OverflowMark
      /\ Rounded(hi) + b < 2 * p
      /\ Rounded(hi) + b = 2 * p - 1 => Rounded(hi - 1) < Rounded(hi)
  BY Scales
<1>2. n = IF q < lo THEN (IF f \in Angles THEN OverflowMark ELSE 0) ELSE
          IF q > hi THEN OverflowMark ELSE Rounded(q) + b
  BY DEF StoredCourse
<1>3. OverflowMark \in Nat /\ p \in Nat
  <2>1. OverflowMark \in Nat
    BY SMT DEF OverflowMark
  <2>2. f \in Fields
    BY DEF Fields
  <2>3. Width(f) - 1 \in 0 .. 30
    BY <2>2, Widths
  <2> QED
    BY <2>1, <2>3, Powers
<1> HIDE DEF b, lo, hi, n, p
<1>4. CASE q < lo
  BY <1>1, <1>2, <1>4 DEF n, lo
<1>5. CASE q > hi /\ ~(q < lo)
  BY <1>1, <1>2, <1>5 DEF n, hi
<1>6. CASE ~(q > hi) /\ ~(q < lo)
  <2>1. n = Rounded(q) + b
    BY <1>2, <1>6
  <2>2. lo <= q /\ q <= hi
    BY <1>1, <1>6
  <2>3. /\ Rounded(lo) \in Int /\ Rounded(q) \in Int /\ Rounded(hi) \in Int
        /\ Rounded(lo) <= Rounded(q) /\ Rounded(q) <= Rounded(hi)
    BY <1>1, <2>2, RoundedIsClose
  <2>4. n < OverflowMark /\ n < 2 * p /\ (n = 2 * p - 1 => q >= hi)
    <3>1. n < OverflowMark /\ n < 2 * p
      BY <1>1, <1>3, <2>1, <2>3
    <3>2. ASSUME n = 2 * p - 1, ~(q >= hi)
          PROVE  FALSE
      <4>1. hi - 1 \in Int /\ q <= hi - 1
        BY <1>1, <3>2
      <4>2. Rounded(q) <= Rounded(hi - 1) /\ Rounded(hi - 1) \in Int
        BY <4>1, RoundedIsClose
      <4>3. Rounded(hi) + b = 2 * p - 1
        BY <1>1, <1>3, <2>1, <2>3, <3>2
      <4> QED
        BY <1>1, <1>3, <2>1, <2>3, <3>2, <4>2, <4>3
    <3> QED
      BY <3>1, <3>2
  <2>5. CASE f \in Angles
    <3>1. Rounded(lo) = 0
      BY <1>1, <2>5 DEF Rounded
    <3>2. n \in Nat
      BY <1>1, <2>1, <2>3, <3>1
    <3> QED
      BY <2>1, <2>4, <2>5, <3>2 DEF n, b, p, hi
  <2>6. CASE f \notin Angles
    <3>1. n \in Nat /\ n # 0
      BY <1>1, <2>1, <2>3, <2>6
    <3> QED
      BY <2>1, <2>4, <3>1 DEF n, b, p, hi
  <2> QED
    BY <2>5, <2>6
<1> QED
  BY <1>4, <1>5, <1>6

\* The same of the errors.
LEMMA StoredErrorRange ==
  ASSUME NEW f \in ErrorFields, NEW q \in Int
  PROVE  LET n == StoredError(f, q)
             size == IF q < 0 THEN -q ELSE q
         IN  /\ size \in Nat
             /\ \/ n = OverflowMark /\ size > LargestError(f)
                \/ /\ n = Rounded(size) /\ n \in Nat /\ n < OverflowMark
                   /\ n < 2 * 2^(Width(f) - 1)
                   /\ n = 2 * 2^(Width(f) - 1) - 1 => size >= LargestError(f)
<1> DEFINE n == StoredError(f, q)
           size == IF q < 0 THEN -q ELSE q
<1>1. size \in Nat
  OBVIOUS
<1>2. Width(f) \in {8, 12}
  BY Widths DEF Fields
<1>3. n = IF size > LargestError(f) THEN OverflowMark ELSE Rounded(size)
  BY DEF StoredError
<1> HIDE DEF n, size
<1>4. CASE Width(f) = 12
  <2>1. LargestError(f) = 8189 /\ 2 * 2^(Width(f) - 1) = 4096
    BY <1>4, SMT DEF LargestError
  <2>2. size <= 8189 => /\ Rounded(size) \in Nat /\ Rounded(size) < 4096
                        /\ Rounded(size) < OverflowMark
                        /\ Rounded(size) = 4095 => size >= 8189
    BY <1>1, SMT DEF Rounded, OverflowMark
  <2> QED
    BY <1>1, <1>3, <2>1, <2>2, SMT DEF n, size
<1>5. CASE Width(f) = 8
  <2>1. LargestError(f) = 509 /\ 2 * 2^(Width(f) - 1) = 256
    BY <1>5, SMT DEF LargestError
  <2>2. size <= 509 => /\ Rounded(size) \in Nat /\ Rounded(size) < 256
                       /\ Rounded(size) < OverflowMark
                       /\ Rounded(size) = 255 => size >= 509
    BY <1>1, SMT DEF Rounded, OverflowMark
  <2> QED
    BY <1>1, <1>3, <2>1, <2>2, SMT DEF n, size
<1> QED
  BY <1>2, <1>4, <1>5
\* A quantity a setter takes: any, of the source type one of the four there are.
Quantity(f, q) == q \in Int /\ (f = "SourceType" => q \in 1 .. 4)

\* What a setter stores fits the bits of its field.
LEMMA StoredFits ==
  ASSUME NEW f \in Fields, NEW q, Quantity(f, q)
  PROVE  /\ Stored(f, q) \in Nat /\ Stored(f, q) # Undefined
         /\ Fits(f, Stored(f, q))
<1>1. q \in Int
  BY DEF Quantity
<1>2. \A n \in Nat : n # Undefined
  BY CodecAssumption
<1>3. OverflowMark \in Nat
  BY SMT DEF OverflowMark
<1>4. CASE f = "Time"
  <2> DEFINE n == Stored(f, q)
  <2>1. n = Rounded(q % Day)
    BY <1>4 DEF Stored, StoredTime
  <2>2. q % Day \in Nat /\ q % Day < Day /\ Day = 1728000 /\ Day \div 2 = 864000
    BY <1>1, SMT DEF Day
  <2> HIDE DEF n
  <2> DEFINE half == Day \div 2
  <2>3. n \in Nat /\ n <= half /\ half \in Nat
    BY <2>1, <2>2, SMT DEF Rounded
  <2>4. n \in 0 .. half
    <3> HIDE DEF half
    <3> QED
      BY <2>3
  <2>5. Fits(f, n)
    BY <1>4, <2>4, SMT DEF Fits
  <2> QED
    BY <1>2, <2>3, <2>5, SMT DEF n
<1>5. CASE f = "SourceType"
  <2>1. Stored(f, q) = q /\ q \in 1 .. 4
    BY <1>5, Layout DEF Stored, Quantity
  <2>2. Fits(f, q)
    BY <1>5, <2>1, SMT DEF Fits
  <2> QED
    BY <1>2, <2>1, <2>2
<1>6. CASE f \notin {"Time", "SourceType"}
  <2> DEFINE n == Stored(f, q)
  <2>1. f \in CourseFields \union ErrorFields
    BY <1>6 DEF Fields
  <2>2. n \in Nat /\ (n = OverflowMark \/ (n < OverflowMark /\ n < 2 * 2^(Width(f) - 1)))
    <3>1. CASE f \in CourseFields
      <4>1. n = StoredCourse(f, q)
        BY <1>6, <3>1 DEF Stored
      <4>2. 0 < OverflowMark /\ 0 < 2 * 2^(Width(f) - 1)
        <5>1. Width(f) - 1 \in 0 .. 30
          BY <2>1, Widths DEF Fields
        <5>2. 2^(Width(f) - 1) \in Nat \ {0}
          BY <5>1, Powers
        <5>3. 0 < 2 * 2^(Width(f) - 1)
          BY <5>2
        <5>4. 0 < OverflowMark
          BY SMT DEF OverflowMark
        <5> QED
          BY <5>3, <5>4
      <4> HIDE DEF n
      <4> QED
        BY <1>1, <1>3, <3>1, <4>1, <4>2, StoredCourseRange
    <3>2. CASE f \in ErrorFields
      <4>1. n = StoredError(f, q)
        BY <1>6, <3>2, Layout DEF Stored
      <4> HIDE DEF n
      <4> QED
        BY <1>1, <1>3, <3>2, <4>1, StoredErrorRange
    <3> QED
      BY <2>1, <3>1, <3>2
  <2> HIDE DEF n
  <2>3. Width(f) # 31 => 2^Width(f) = 2 * 2^(Width(f) - 1)
    <3>1. Width(f) \in 1 .. 31
      BY Widths
    <3>2. Width(f) # 31 => Width(f) \in 0 .. 30 /\ Width(f) > 0
      BY <3>1
    <3> QED
      BY <3>2, Powers
  <2>4. Fits(f, n)
    <3>1. n = OverflowMark \/ IF Width(f) = 31 THEN n < OverflowMark ELSE n < 2^Width(f)
      BY <2>2, <2>3
    <3> QED
      BY <2>1, <3>1, SMT DEF Fits
  <2> QED
    BY <1>2, <2>2, <2>4 DEF n
<1> QED
  BY <1>4, <1>5, <1>6

\* What a getter makes of a course field stands for the quantity.
LEMMA CourseStandsFor ==
  ASSUME NEW f \in CourseFields, NEW q \in Int
  PROVE  /\ StandsFor(f, StoredCourse(f, q), q)
         /\ StoredCourse(f, q) = 2 * 2^(Width(f) - 1) - 1 => StandsFor(f, OverflowMark, q)
<1> DEFINE b == Scale[f][1]
           lo == Scale[f][2]
           hi == Scale[f][3]
           n == StoredCourse(f, q)
           p == 2^(Width(f) - 1)
<1>1. b \in Nat /\ lo \in Int /\ hi \in Int
  BY Scales
<1>2. f \notin ErrorFields /\ f # "Time" /\ f # "SourceType"
  BY Layout
<1>3. OverflowMark \in Nat /\ OverflowMark # 0
  BY SMT DEF OverflowMark
<1>4. /\ \A m \in Int : m # Undefined /\ m # Above /\ m # Below
      /\ Undefined \notin {Above, Below} /\ Above # Below
  BY CodecAssumption
<1>5. \A m : StandsFor(f, m, q) <=>
        LET v == CourseValue(f, m)
        IN  CASE v = Above -> q >= hi \/ (f \in Angles /\ q < 0)
              [] v = Below -> q < lo
              [] OTHER -> v - q \in -1 .. 1
  BY <1>2 DEF StandsFor
<1>6. \A m : CourseValue(f, m) =
        IF m = Undefined THEN Undefined ELSE
        IF m = 0 /\ f \notin Angles THEN Below ELSE
        IF m = OverflowMark THEN Above ELSE 2 * (m - b)
  BY DEF CourseValue
<1>7. \/ n = OverflowMark /\ (q > hi \/ (f \in Angles /\ q < 0))
      \/ n = 0 /\ f \notin Angles /\ q < lo
      \/ /\ n = Rounded(q) + b /\ n \in Nat
         /\ (f \notin Angles => n # 0) /\ n < OverflowMark
         /\ n = 2 * p - 1 => q >= hi
  BY StoredCourseRange
<1>8. p \in Nat \ {0} /\ 2 * p - 1 # 0
  <2>1. f \in Fields
    BY DEF Fields
  <2>2. Width(f) - 1 \in 0 .. 30
    BY <2>1, Widths
  <2>3. p \in Nat \ {0}
    BY <2>2, Powers
  <2> HIDE DEF p
  <2> QED
    BY <2>3
<1> HIDE DEF b, lo, hi, n, p
<1>9. CourseValue(f, OverflowMark) = Above
  BY <1>3, <1>4, <1>6
<1>10. q >= hi \/ (f \in Angles /\ q < 0) => StandsFor(f, OverflowMark, q)
  <2>1. Above # Below
    BY <1>4
  <2> QED
    BY <1>5, <1>9, <2>1
<1>11. CASE n = OverflowMark /\ (q > hi \/ (f \in Angles /\ q < 0))
  <2>1. StandsFor(f, OverflowMark, q)
    BY <1>1, <1>10, <1>11
  <2> QED
    BY <1>11, <2>1 DEF n
<1>12. CASE n = 0 /\ f \notin Angles /\ q < lo
  <2>1. CourseValue(f, n) = Below /\ Below # Above
    BY <1>4, <1>6, <1>12
  <2>2. StandsFor(f, n, q)
    BY <1>5, <1>12, <2>1
  <2> QED
    BY <1>8, <1>12, <2>2 DEF n, p
<1>13. CASE /\ n = Rounded(q) + b /\ n \in Nat
            /\ (f \notin Angles => n # 0) /\ n < OverflowMark
            /\ n = 2 * p - 1 => q >= hi
  <2>1. Rounded(q) \in Int /\ 2 * Rounded(q) - q \in {0, 1}
    BY RoundedIsClose
  <2>2. CourseValue(f, n) = 2 * (n - b) /\ 2 * (n - b) \in Int
        /\ 2 * (n - b) = 2 * Rounded(q)
    BY <1>1, <1>3, <1>4, <1>6, <1>13, <2>1
  <2> DEFINE v == CourseValue(f, n)
  <2>3. v \in Int /\ v # Above /\ v # Below /\ v - q \in -1 .. 1
    BY <1>4, <2>1, <2>2
  <2> HIDE DEF v
  <2>4. StandsFor(f, n, q)
    BY <1>5, <2>3 DEF v
  <2> QED
    BY <1>10, <1>13, <2>4 DEF n, p
<1> QED
  BY <1>7, <1>11, <1>12, <1>13

\* So does what is made of an error.
LEMMA ErrorStandsFor ==
  ASSUME NEW f \in ErrorFields, NEW q \in Int
  PROVE  /\ StandsFor(f, StoredError(f, q), q)
         /\ StoredError(f, q) = 2 * 2^(Width(f) - 1) - 1 => StandsFor(f, OverflowMark, q)
<1> DEFINE size == IF q < 0 THEN -q ELSE q
           n == StoredError(f, q)
           p == 2^(Width(f) - 1)
           top == LargestError(f)
<1>1. f # "Time" /\ f # "SourceType"
  BY Layout
<1>2. /\ \A m \in Int : m # Undefined /\ m # Above
      /\ Undefined # Above
  BY CodecAssumption
<1>3. \A m : StandsFor(f, m, q) <=>
        LET v == ErrorValue(f, m)
        IN  IF v = Above THEN size >= top ELSE v - size \in -1 .. 1
  BY <1>1 DEF StandsFor
<1>4. OverflowMark \in Nat /\ top \in Int
  BY SMT DEF OverflowMark, LargestError
<1>5. \A m : ErrorValue(f, m) = IF m = Undefined THEN Undefined ELSE
                                IF m = OverflowMark THEN Above ELSE 2 * m
  BY DEF ErrorValue
<1>6. /\ size \in Nat
      /\ \/ n = OverflowMark /\ size > top
         \/ /\ n = Rounded(size) /\ n \in Nat /\ n < OverflowMark
            /\ n = 2 * p - 1 => size >= top
  BY StoredErrorRange
<1> HIDE DEF size, n, p, top
<1>7. ErrorValue(f, OverflowMark) = Above
  BY <1>2, <1>4, <1>5
<1>8. size >= top => StandsFor(f, OverflowMark, q)
  BY <1>3, <1>7
<1>9. CASE n = OverflowMark /\ size > top
  <2>1. StandsFor(f, OverflowMark, q)
    BY <1>4, <1>6, <1>8, <1>9
  <2> QED
    BY <1>9, <2>1 DEF n
<1>10. CASE /\ n = Rounded(size) /\ n \in Nat /\ n < OverflowMark
            /\ n = 2 * p - 1 => size >= top
  <2>1. 2 * n - size \in {0, 1}
    BY <1>6, <1>10, RoundedIsClose
  <2> DEFINE v == ErrorValue(f, n)
  <2>2. v = 2 * n
    BY <1>2, <1>4, <1>5, <1>10
  <2>3. v # Above /\ v - size \in -1 .. 1
    BY <1>2, <1>6, <1>10, <2>1, <2>2
  <2> HIDE DEF v
  <2>4. StandsFor(f, n, q)
    BY <1>3, <2>3 DEF v
  <2> QED
    BY <1>8, <1>10, <2>4 DEF n, p
<1> QED
  BY <1>6, <1>9, <1>10

\* What is stored stands for the quantity, and so does the mark of an overflow where
\* a payload has that for it.
LEMMA StoredStandsFor ==
  ASSUME NEW f \in Fields, NEW q, Quantity(f, q)
  PROVE  /\ StandsFor(f, Stored(f, q), q)
         /\ /\ f \in CourseFields \union ErrorFields
            /\ Stored(f, q) = 2 * 2^(Width(f) - 1) - 1
            => StandsFor(f, OverflowMark, q)
<1>1. q \in Int
  BY DEF Quantity
<1>2. CASE f = "Time"
  <2>1. q % Day \in Int
    BY <1>1, SMT DEF Day
  <2>2. 2 * Rounded(q % Day) - (q % Day) \in {0, 1}
    BY <2>1, RoundedIsClose
  <2>3. Stored(f, q) = Rounded(q % Day)
    BY <1>2 DEF Stored, StoredTime
  <2>4. 2 * Stored(f, q) - (q % Day) \in -1 .. 1
    BY <2>2, <2>3
  <2>5. StandsFor(f, Stored(f, q), q)
    BY <1>2, <2>4 DEF StandsFor
  <2> QED
    BY <1>2, <2>5, Layout
<1>3. CASE f = "SourceType"
  <2>1. StandsFor(f, Stored(f, q), q)
    BY <1>3, Layout DEF StandsFor, Stored
  <2> QED
    BY <1>3, <2>1, Layout
<1>4. CASE f \in CourseFields
  <2>1. Stored(f, q) = StoredCourse(f, q)
    BY <1>4, Layout DEF Stored
  <2> QED
    BY <1>1, <1>4, <2>1, CourseStandsFor
<1>5. CASE f \in ErrorFields
  <2>1. Stored(f, q) = StoredError(f, q)
    BY <1>5, Layout DEF Stored
  <2> QED
    BY <1>1, <1>5, <2>1, ErrorStandsFor
<1> QED
  BY <1>2, <1>3, <1>4, <1>5 DEF Fields

\* A quantity given to a setter, whatever it is, is read at the other end of a
\* message within half a step, or as the overflow it is (setters data.cpp:225-445,
\* putBits() and getBits() payload.cpp:192-645).
THEOREM CodecAccuracy ==
  ASSUME NEW c, IsContainer(c), NEW f \in Fields, NEW q, Quantity(f, q),
         c.field[f] = Stored(f, q)
  PROVE  /\ Defined(c, f) /\ Received(c, f) # Undefined
         /\ StandsFor(f, Received(c, f), q)
<1>1. Stored(f, q) # Undefined
  BY StoredFits
<1>2. Defined(c, f) /\ Writable(c, f)
  BY <1>1 DEF Defined, Writable
<1>3. OverflowMark # Undefined
  <2>1. OverflowMark \in Int
    BY SMT DEF OverflowMark
  <2> QED
    BY <2>1, CodecAssumption
<1>4. \/ Received(c, f) = Stored(f, q)
      \/ /\ f \in CourseFields \union ErrorFields
         /\ Received(c, f) = OverflowMark
         /\ Stored(f, q) = 2 * 2^(Width(f) - 1) - 1
  BY <1>2, FieldReceived
<1> QED
  BY <1>1, <1>2, <1>3, <1>4, StoredStandsFor
------------------------------------------------------------------------------
(* The inductive invariant. *)

\* What the source has been given is what its container holds.
Meant ==
  /\ meant \in [Fields -> Int \union {Undefined}]
  /\ \A f \in Fields :
       IF meant[f] = Undefined THEN src.field[f] = Undefined
       ELSE Quantity(f, meant[f]) /\ src.field[f] = Stored(f, meant[f])

\* The message on its way, and what it delivered.
Message ==
  /\ pc = "wire" => wire = Payload(src)
  /\ pc \in {"peer", "hub"} =>
       /\ result = Len(wire) \div 8
       /\ dst.id = src.id /\ dst.size = src.size
       /\ \A f \in Fields : dst.field[f] =
            IF \A x \in Companions(f) : Defined(src, x) THEN Received(src, f)
            ELSE Undefined

\* A field of a record has the latest quantity, or neither is known.
Agrees(f, n, q) ==
  (n # Undefined <=> q # Undefined) /\ (n # Undefined => StandsFor(f, n, q))

\* What the hub has of a field.
Recorded(f) == IF kept = None THEN Undefined ELSE kept.field[f]

\* The hub's record has the latest of each field, but for what is at the peer.
Record ==
  /\ \A f \in Fields :
       IF pc = "peer" /\ dst.field[f] # Undefined THEN known[f] = meant[f]
       ELSE Agrees(f, Recorded(f), known[f])
  /\ kept # None => kept.id = src.id /\ (~crashed => kept.held >= kept.size)
  /\ pc = "hub" => kept # None /\ kept.size = dst.size
  /\ crashed => pc = "hub"

IInv == TypeOK /\ Meant /\ Message /\ Record

\* What a source fills in is what it means.
LEMMA FilledShape ==
  ASSUME NEW s \in [fields : SUBSET Fields, id : Nat, size : Nat]
  PROVE  /\ IsContainer(Filled(s)) /\ Meaning(s) \in [Fields -> Int \union {Undefined}]
         /\ \A f \in Fields :
              IF Meaning(s)[f] = Undefined THEN Filled(s).field[f] = Undefined
              ELSE /\ Quantity(f, Meaning(s)[f])
                   /\ Filled(s).field[f] = Stored(f, Meaning(s)[f])
<1> DEFINE u == [f \in Fields |-> Undefined]
           v == [f \in Fields |-> IF f \in s.fields THEN Stored(f, Usual[f])
                                  ELSE Undefined]
           i == IF s.id < MAX_ID_LENGTH THEN s.id ELSE MAX_ID_LENGTH
           n == IF s.size < MAX_DATA_SIZE THEN s.size ELSE MAX_DATA_SIZE
           r == [field |-> u, id |-> i, size |-> 0, held |-> 0]
           e == Filled(s)
<1>1. s.fields \subseteq Fields /\ s.id \in Nat /\ s.size \in Nat
  OBVIOUS
<1>2. MAX_ID_LENGTH \in Nat /\ MAX_DATA_SIZE \in Nat
  BY SMT DEF MAX_ID_LENGTH, MAX_DATA_SIZE
<1>3. i \in Nat /\ i <= MAX_ID_LENGTH /\ n \in Nat /\ n <= MAX_DATA_SIZE
  BY <1>1, <1>2
<1>4. ASSUME NEW f \in Fields
      PROVE  Quantity(f, Usual[f]) /\ Usual[f] # Undefined
  BY CodecAssumption DEF Quantity, Quantities
<1>5. ASSUME NEW f \in Fields
      PROVE  /\ v[f] \in Nat \union {Undefined} /\ Fits(f, v[f])
             /\ f \in s.fields => v[f] = Stored(f, Usual[f])
             /\ f \notin s.fields => v[f] = Undefined
  <2>1. Fits(f, Undefined)
    BY SMT DEF Fits
  <2> QED
    BY <1>4, <2>1, StoredFits
<1>6. v \in [Fields -> Nat \union {Undefined}]
  <2> HIDE DEF v
  <2>1. v = [f \in Fields |-> v[f]]
    BY DEF v
  <2> QED
    BY <1>5, <2>1
<1>7. e = [field |-> v, id |-> i, size |-> n, held |-> n]
  <2>1. Blank = [field |-> u, id |-> 0, size |-> 0, held |-> 0]
    BY DEF Blank
  <2>2. e = [Allocated(Named(Blank, s.id), s.size) EXCEPT !.field = v]
    BY DEF Filled
  <2> HIDE DEF u, v, i, n, e
  <2>3. Named(Blank, s.id) = r
    BY <2>1, Setters DEF i
  <2>4. Allocated(r, s.size) = IF n = r.size THEN r
                               ELSE [[r EXCEPT !.size = n] EXCEPT !.held = n]
    BY DEF Allocated, n
  <2>5. [[r EXCEPT !.size = n] EXCEPT !.held = n]
          = [field |-> u, id |-> i, size |-> n, held |-> n]
    <3>1. [r EXCEPT !.size = n] = [field |-> u, id |-> i, size |-> n, held |-> 0]
      OBVIOUS
    <3>2. [[field |-> u, id |-> i, size |-> n, held |-> 0] EXCEPT !.held = n]
            = [field |-> u, id |-> i, size |-> n, held |-> n]
      OBVIOUS
    <3> QED
      BY <3>1, <3>2
  <2>6. Allocated(r, s.size) = [field |-> u, id |-> i, size |-> n, held |-> n]
    BY <2>4, <2>5
  <2>7. [[field |-> u, id |-> i, size |-> n, held |-> n] EXCEPT !.field = v]
          = [field |-> v, id |-> i, size |-> n, held |-> n]
    OBVIOUS
  <2> QED
    BY <2>2, <2>3, <2>6, <2>7
<1> DEFINE m == Meaning(s)
<1>8. m = [f \in Fields |-> IF f \in s.fields THEN Usual[f] ELSE Undefined]
  BY DEF Meaning
<1> HIDE DEF u, v, i, n, e, m
<1>9. /\ e.field = v /\ e.id = i /\ e.size = n /\ e.held = n
      /\ e = [field |-> e.field, id |-> e.id, size |-> e.size, held |-> e.held]
  BY <1>7
<1>10. IsContainer(e)
  BY <1>3, <1>5, <1>6, <1>9, ContainerParts
<1>11. m \in [Fields -> Int \union {Undefined}]
  BY <1>8, CodecAssumption
<1>12. ASSUME NEW f \in Fields
       PROVE  IF m[f] = Undefined THEN e.field[f] = Undefined
              ELSE Quantity(f, m[f]) /\ e.field[f] = Stored(f, m[f])
  BY <1>4, <1>5, <1>8, <1>9
<1> QED
  BY <1>10, <1>11, <1>12 DEF e, m

\* What copy() makes of an empty container: all but the data.
LEMMA CopiedShape ==
  ASSUME NEW c, IsContainer(c)
  PROVE  Copied(Blank, c) = [field |-> c.field, id |-> c.id, size |-> c.size, held |-> 0]
<1> DEFINE over == [field |-> c.field, id |-> c.id, size |-> c.size, held |-> 0]
<1>1. c = [field |-> c.field, id |-> c.id, size |-> c.size, held |-> c.held]
      /\ c.size \in Nat /\ c.size <= MAX_DATA_SIZE
  BY ContainerParts
<1>2. Blank.held = 0
  BY DEF Blank
<1>3. [c EXCEPT !.held = 0] = over
  BY <1>1
<1>4. Copied(Blank, c) = IF c.size > 0 THEN Allocated(over, c.size) ELSE Freed(over)
  BY <1>2, <1>3 DEF Copied
<1> HIDE DEF over
<1>5. over = [field |-> c.field, id |-> c.id, size |-> c.size, held |-> 0]
  BY DEF over
<1>6. Allocated(over, c.size) = over
  BY <1>1, <1>5, Setters
<1>7. Freed(over) = [field |-> c.field, id |-> c.id, size |-> 0, held |-> 0]
  BY <1>5, Resets
<1> QED
  BY <1>1, <1>4, <1>5, <1>6, <1>7

\* What sync() makes of a record.
LEMMA SyncedShape ==
  ASSUME NEW to, IsContainer(to), NEW c, IsContainer(c)
  PROVE  Synced(to, c) =
           [field |-> [f \in Fields |-> IF Defined(c, f) THEN c.field[f] ELSE to.field[f]],
            id |-> to.id, size |-> c.size,
            held |-> IF c.size = 0 THEN 0 ELSE IF c.size = to.size THEN to.held ELSE c.size]
<1> DEFINE v == [f \in Fields |-> IF Defined(c, f) THEN c.field[f] ELSE to.field[f]]
           h == IF c.size = 0 THEN 0 ELSE IF c.size = to.size THEN to.held ELSE c.size
           a == IF c.size > 0 THEN Allocated(to, c.size) ELSE Freed(to)
<1>1. /\ to = [field |-> to.field, id |-> to.id, size |-> to.size, held |-> to.held]
      /\ c.size \in Nat /\ c.size <= MAX_DATA_SIZE
  BY ContainerParts
<1>2. Synced(to, c) = [a EXCEPT !.field = v]
  BY DEF Synced
<1>3. a = [field |-> to.field, id |-> to.id, size |-> c.size, held |-> h]
  <2>1. Allocated(to, c.size) =
          IF c.size = to.size THEN to
          ELSE [field |-> to.field, id |-> to.id, size |-> c.size, held |-> c.size]
    BY <1>1, Setters
  <2>2. Freed(to) = [field |-> to.field, id |-> to.id, size |-> 0, held |-> 0]
    BY <1>1, Resets
  <2> QED
    BY <1>1, <2>1, <2>2
<1> HIDE DEF v, h, a
<1>4. [a EXCEPT !.field = v]
        = [field |-> v, id |-> to.id, size |-> c.size, held |-> h]
  BY <1>3
<1> QED
  BY <1>2, <1>4 DEF v, h

\* A field of a message that arrived stands for what its source was given.
LEMMA Heard ==
  ASSUME TypeOK, Meant, Message, pc \in {"peer", "hub"}, NEW f \in Fields,
         dst.field[f] # Undefined
  PROVE  meant[f] # Undefined /\ StandsFor(f, dst.field[f], meant[f])
<1>1. dst.field[f] = Received(src, f) /\ \A x \in Companions(f) : Defined(src, x)
  BY DEF Message
<1>2. f \in Companions(f)
  BY DEF Companions
<1>3. src.field[f] # Undefined
  BY <1>1, <1>2 DEF Defined
<1>4. meant[f] # Undefined /\ Quantity(f, meant[f]) /\ src.field[f] = Stored(f, meant[f])
  BY <1>3 DEF Meant
<1> QED
  BY <1>1, <1>4, CodecAccuracy DEF TypeOK

\* An empty container.
LEMMA BlankIsContainer == IsContainer(Blank)
<1> DEFINE u == [f \in Fields |-> Undefined]
<1>1. Blank = [field |-> u, id |-> 0, size |-> 0, held |-> 0]
  BY DEF Blank
<1>2. 0 <= MAX_ID_LENGTH /\ 0 <= MAX_DATA_SIZE
  BY SMT DEF MAX_ID_LENGTH, MAX_DATA_SIZE
<1>3. \A f \in Fields : Fits(f, Undefined)
  BY SMT DEF Fits
<1>4. u \in [Fields -> Nat \union {Undefined}] /\ \A f \in Fields : u[f] = Undefined
  OBVIOUS
<1> HIDE DEF u
<1>5. /\ Blank.field = u /\ Blank.id = 0 /\ Blank.size = 0 /\ Blank.held = 0
      /\ Blank = [field |-> Blank.field, id |-> Blank.id, size |-> Blank.size,
                  held |-> Blank.held]
  BY <1>1
<1> QED
  BY <1>2, <1>3, <1>4, <1>5, ContainerParts

\* The first message is filled in, nothing is known.
LEMMA InitRight == Init => IInv
<1> SUFFICES ASSUME Init PROVE IInv
  OBVIOUS
<1>1. PICK s \in Sources : src = Filled(s) /\ meant = Meaning(s)
  BY DEF Init
<1>2. s \in [fields : SUBSET Fields, id : Nat, size : Nat]
  BY CodecAssumption
<1>3. IsContainer(src) /\ Meant
  BY <1>1, <1>2, FilledShape DEF Meant
<1>4. TypeOK
  <2>1. /\ pc = "source" /\ wire = None /\ dst = Blank /\ result = None /\ kept = None
        /\ odd = 0 /\ messages = 1 /\ crashed = FALSE
    BY DEF Init
  <2>2. 0 \in 0 .. MaxOdd /\ 1 \in 1 .. MaxMessages
    BY CodecAssumption
  <2> QED
    BY <1>3, <2>1, <2>2, BlankIsContainer DEF TypeOK
<1>5. Message
  BY DEF Init, Message
<1>6. Record
  BY DEF Init, Record, Agrees, Recorded
<1> QED
  BY <1>3, <1>4, <1>5, <1>6 DEF IInv

\* A setter changes a field, and what it means.
LEMMA SetKeeps ==
  ASSUME IInv, NEW f \in Fields, NEW q \in Boundaries[f], Set(f, q)
  PROVE  IInv'
<1> USE DEF IInv
<1> DEFINE n == Stored(f, q)
           v == [src.field EXCEPT ![f] = n]
<1>1. Quantity(f, q) /\ q # Undefined
  BY CodecAssumption DEF Quantity, Quantities
<1>2. n \in Nat /\ n # Undefined /\ Fits(f, n)
  BY <1>1, StoredFits
<1>3. /\ src = [field |-> src.field, id |-> src.id, size |-> src.size, held |-> src.held]
      /\ src.field \in [Fields -> Nat \union {Undefined}]
      /\ src.id \in Nat /\ src.id <= MAX_ID_LENGTH
      /\ src.size \in Nat /\ src.size <= MAX_DATA_SIZE
      /\ src.held \in Nat /\ src.held <= MAX_DATA_SIZE
      /\ \A g \in Fields : Fits(g, src.field[g])
  BY ContainerParts DEF TypeOK
<1> HIDE DEF n
<1>4. /\ v \in [Fields -> Nat \union {Undefined}] /\ v[f] = n
      /\ \A g \in Fields \ {f} : v[g] = src.field[g]
  BY <1>2, <1>3
<1>5. src' = [src EXCEPT !.field = v]
  BY DEF Set, n
<1> HIDE DEF v
<1>6. src' = [field |-> v, id |-> src.id, size |-> src.size, held |-> src.held]
  BY <1>3, <1>5
<1>7. /\ src'.field = v /\ src'.id = src.id /\ src'.size = src.size
      /\ src'.held = src.held
      /\ src' = [field |-> src'.field, id |-> src'.id, size |-> src'.size,
                 held |-> src'.held]
  BY <1>6
<1>8. \A g \in Fields : Fits(g, src'.field[g])
  BY <1>2, <1>3, <1>4, <1>7
<1>9. IsContainer(src')
  BY <1>3, <1>4, <1>7, <1>8, ContainerParts
<1>10. TypeOK'
  <2>1. odd' \in 0 .. MaxOdd
    BY CodecAssumption DEF Set, TypeOK
  <2> QED
    BY <1>9, <2>1 DEF Set, TypeOK
<1>11. Meant'
  <2>1. meant' = [meant EXCEPT ![f] = q]
    BY DEF Set
  <2>2. meant' \in [Fields -> Int \union {Undefined}]
    BY <1>1, <2>1 DEF Meant, Quantity
  <2>3. ASSUME NEW g \in Fields
        PROVE  IF meant'[g] = Undefined THEN src'.field[g] = Undefined
               ELSE Quantity(g, meant'[g]) /\ src'.field[g] = Stored(g, meant'[g])
    <3>1. CASE g = f
      BY <1>1, <1>4, <1>7, <2>1, <3>1 DEF Meant, n
    <3>2. CASE g # f
      BY <1>4, <1>7, <2>1, <3>2 DEF Meant
    <3> QED
      BY <3>1, <3>2
  <2> QED
    BY <2>2, <2>3 DEF Meant
<1>12. Message'
  BY DEF Set, Message
<1>13. Record'
  BY <1>7 DEF Set, Record, Recorded
<1> QED
  BY <1>10, <1>11, <1>12, <1>13

\* The payload leaves.
LEMMA SerializeKeeps == IInv /\ Serialize => IInv'
<1> SUFFICES ASSUME IInv, Serialize PROVE IInv'
  OBVIOUS
<1> USE DEF IInv
<1>1. Len(Payload(src)) % 8 = 0
  BY CodecRoundTrip DEF TypeOK
<1>2. TypeOK'
  BY <1>1 DEF Serialize, TypeOK
<1>3. Meant'
  BY DEF Serialize, Meant
<1>4. Message'
  BY DEF Serialize, Message
<1>5. Record'
  BY DEF Serialize, Record, Recorded
<1> QED
  BY <1>2, <1>3, <1>4, <1>5

\* It is read back.
LEMMA UnserializeKeeps == IInv /\ Unserialize => IInv'
<1> SUFFICES ASSUME IInv, Unserialize PROVE IInv'
  OBVIOUS
<1> USE DEF IInv
<1> DEFINE e == Delivered(src, dst)
<1>1. IsContainer(src) /\ IsContainer(dst) /\ wire = Payload(src)
  BY DEF TypeOK, Message, Unserialize
<1>2. /\ Unserialized(wire, dst) = [to |-> e, result |-> Len(wire) \div 8]
      /\ Len(wire) \in Nat /\ Len(wire) % 8 = 0
  BY <1>1, CodecRoundTrip
<1>3. /\ IsContainer(e) /\ e.id = src.id /\ e.size = src.size
      /\ \A f \in Fields : e.field[f] =
           IF \A x \in Companions(f) : Defined(src, x) THEN Received(src, f) ELSE Undefined
  <2>1. IsContainer(e)
    BY <1>1, DeliveredIsContainer
  <2> QED
    BY <2>1 DEF Delivered
<1> HIDE DEF e
<1>4. dst' = e /\ result' = Len(wire) \div 8
  BY <1>2 DEF Unserialize
<1>5. TypeOK'
  <2>1. Len(wire) \div 8 \in Nat
    BY <1>2
  <2> QED
    BY <1>3, <1>4, <2>1 DEF Unserialize, TypeOK
<1>6. Meant'
  BY DEF Unserialize, Meant
<1>7. Message'
  BY <1>3, <1>4 DEF Unserialize, Message
<1>8. Record'
  <2>1. ASSUME NEW f \in Fields
        PROVE  IF dst'.field[f] # Undefined THEN known'[f] = meant'[f]
               ELSE Agrees(f, Recorded(f), known'[f])
    BY DEF Unserialize, Record
  <2>2. pc' = "peer" /\ pc = "wire" /\ UNCHANGED <<kept, src, crashed>>
    BY DEF Unserialize
  <2> QED
    BY <2>1, <2>2 DEF Record, Recorded
<1> QED
  BY <1>5, <1>6, <1>7, <1>8

\* The hub copies it, or synchronises its record.
LEMMA KeepKeeps == IInv /\ Keep => IInv'
<1> SUFFICES ASSUME IInv, Keep PROVE IInv'
  OBVIOUS
<1> USE DEF IInv
<1>1. /\ dst.field \in [Fields -> Nat \union {Undefined}]
      /\ dst.id \in Nat /\ dst.id <= MAX_ID_LENGTH
      /\ dst.size \in Nat /\ dst.size <= MAX_DATA_SIZE
      /\ \A f \in Fields : Fits(f, dst.field[f])
  BY ContainerParts DEF TypeOK
<1>2. /\ IsContainer(kept') /\ kept'.id = src.id /\ kept'.size = dst.size
      /\ crashed' \in BOOLEAN
      /\ ~crashed' => kept'.held >= kept'.size
      /\ \A f \in Fields : kept'.field[f] =
           IF dst.field[f] # Undefined THEN dst.field[f] ELSE Recorded(f)
  <2>1. CASE kept = None
    <3>1. kept' = Copied(Blank, dst) /\ crashed' = ~CopyIsSafe(Blank, dst)
      BY <2>1 DEF Keep
    <3>2. kept' = [field |-> dst.field, id |-> dst.id, size |-> dst.size, held |-> 0]
      BY <3>1, CopiedShape DEF TypeOK
    <3>3. /\ kept'.field = dst.field /\ kept'.id = dst.id
          /\ kept'.size = dst.size /\ kept'.held = 0
          /\ kept' = [field |-> kept'.field, id |-> kept'.id, size |-> kept'.size,
                      held |-> kept'.held]
      BY <3>2
    <3>4. IsContainer(kept')
      <4>1. 0 \in Nat /\ 0 <= MAX_DATA_SIZE
        BY SMT DEF MAX_DATA_SIZE
      <4> QED
        BY <1>1, <3>3, <4>1, ContainerParts
    <3>5. crashed' \in BOOLEAN /\ (~crashed' => kept'.held >= kept'.size)
      BY <1>1, <3>1, <3>3 DEF CopyIsSafe
    <3>6. dst.id = src.id
      BY DEF Message, Keep
    <3> QED
      BY <2>1, <3>3, <3>4, <3>5, <3>6 DEF Recorded
  <2>2. CASE kept # None
    <3> DEFINE v == [f \in Fields |-> IF Defined(dst, f) THEN dst.field[f]
                                      ELSE kept.field[f]]
               h == IF dst.size = 0 THEN 0
                    ELSE IF dst.size = kept.size THEN kept.held ELSE dst.size
    <3>1. kept' = Synced(kept, dst) /\ crashed' = crashed
      BY <2>2 DEF Keep
    <3>2. /\ kept.field \in [Fields -> Nat \union {Undefined}]
          /\ kept.id \in Nat /\ kept.id <= MAX_ID_LENGTH
          /\ kept.size \in Nat /\ kept.size <= MAX_DATA_SIZE
          /\ kept.held \in Nat /\ kept.held <= MAX_DATA_SIZE
          /\ \A f \in Fields : Fits(f, kept.field[f])
      BY <2>2, ContainerParts DEF TypeOK
    <3>3. ~crashed /\ kept.id = src.id /\ kept.held >= kept.size
      BY <2>2 DEF Record, Keep, TypeOK
    <3>4. /\ v \in [Fields -> Nat \union {Undefined}]
          /\ \A f \in Fields :
               v[f] = IF dst.field[f] # Undefined THEN dst.field[f] ELSE kept.field[f]
      BY <1>1, <3>2 DEF Defined
    <3>5. h \in Nat /\ h <= MAX_DATA_SIZE /\ h >= dst.size
      BY <1>1, <3>2, <3>3
    <3>6. kept' = [field |-> v, id |-> kept.id, size |-> dst.size, held |-> h]
      BY <2>2, <3>1, SyncedShape DEF TypeOK
    <3> HIDE DEF v, h
    <3>7. /\ kept'.field = v /\ kept'.id = kept.id
          /\ kept'.size = dst.size /\ kept'.held = h
          /\ kept' = [field |-> kept'.field, id |-> kept'.id, size |-> kept'.size,
                      held |-> kept'.held]
      BY <3>6
    <3>8. \A f \in Fields : Fits(f, v[f])
      BY <1>1, <3>2, <3>4
    <3>9. IsContainer(kept')
      BY <1>1, <3>2, <3>4, <3>5, <3>7, <3>8, ContainerParts
    <3> QED
      BY <2>2, <3>1, <3>3, <3>4, <3>5, <3>7, <3>9 DEF Recorded, TypeOK
  <2> QED
    BY <2>1, <2>2
<1>3. kept' # None
  BY <1>2, CodecAssumption DEF IsContainer
<1>4. TypeOK'
  BY <1>2 DEF Keep, TypeOK
<1>5. Meant'
  BY DEF Keep, Meant
<1>6. Message'
  BY DEF Keep, Message
<1>7. Record'
  <2>1. ASSUME NEW f \in Fields PROVE Agrees(f, kept'.field[f], known[f])
    <3>1. CASE dst.field[f] # Undefined
      <4>1. known[f] = meant[f] /\ pc \in {"peer", "hub"}
        BY <3>1 DEF Record, Keep
      <4>2. meant[f] # Undefined /\ StandsFor(f, dst.field[f], meant[f])
        BY <3>1, <4>1, Heard
      <4> QED
        BY <1>2, <3>1, <4>1, <4>2 DEF Agrees
    <3>2. CASE dst.field[f] = Undefined
      BY <1>2, <3>2 DEF Record
    <3> QED
      BY <3>1, <3>2
  <2>2. pc' = "hub" /\ UNCHANGED <<src, dst, known, meant>>
    BY DEF Keep
  <2> QED
    BY <1>2, <1>3, <2>1, <2>2 DEF Record, Recorded
<1> QED
  BY <1>4, <1>5, <1>6, <1>7

\* The source fills in its next message, under the same ID.
LEMMA AgainKeeps == IInv /\ Again => IInv'
<1> SUFFICES ASSUME IInv, Again PROVE IInv'
  OBVIOUS
<1> USE DEF IInv
<1>1. PICK s \in Followers : src' = [Filled(s) EXCEPT !.id = src.id] /\ meant' = Meaning(s)
  BY DEF Again
<1> DEFINE e == Filled(s)
<1>2. s \in [fields : SUBSET Fields, id : Nat, size : Nat]
  BY CodecAssumption
<1>3. /\ IsContainer(e) /\ Meaning(s) \in [Fields -> Int \union {Undefined}]
      /\ \A f \in Fields :
           IF Meaning(s)[f] = Undefined THEN e.field[f] = Undefined
           ELSE Quantity(f, Meaning(s)[f]) /\ e.field[f] = Stored(f, Meaning(s)[f])
  BY <1>2, FilledShape
<1> HIDE DEF e
<1>4. /\ e = [field |-> e.field, id |-> e.id, size |-> e.size, held |-> e.held]
      /\ e.field \in [Fields -> Nat \union {Undefined}]
      /\ e.size \in Nat /\ e.size <= MAX_DATA_SIZE
      /\ e.held \in Nat /\ e.held <= MAX_DATA_SIZE
      /\ \A f \in Fields : Fits(f, e.field[f])
  BY <1>3, ContainerParts
<1>5. src.id \in Nat /\ src.id <= MAX_ID_LENGTH
  BY ContainerParts DEF TypeOK
<1>6. src' = [e EXCEPT !.id = src.id]
  BY <1>1 DEF e
<1>7. src' = [field |-> e.field, id |-> src.id, size |-> e.size, held |-> e.held]
  BY <1>4, <1>6
<1>8. /\ src'.field = e.field /\ src'.id = src.id /\ src'.size = e.size
      /\ src'.held = e.held
      /\ src' = [field |-> src'.field, id |-> src'.id, size |-> src'.size,
                 held |-> src'.held]
  BY <1>7
<1>9. IsContainer(src')
  BY <1>4, <1>5, <1>8, ContainerParts
<1>10. TypeOK'
  <2>1. messages' \in 1 .. MaxMessages
    BY CodecAssumption DEF Again, TypeOK
  <2> QED
    BY <1>9, <2>1 DEF Again, TypeOK
<1>11. Meant'
  BY <1>1, <1>3, <1>8 DEF Meant
<1>12. Message'
  BY DEF Again, Message
<1>13. Record'
  <2>1. /\ pc' = "source" /\ pc = "hub" /\ ~crashed
        /\ UNCHANGED <<dst, kept, known, crashed>>
    BY DEF Again
  <2> QED
    BY <1>8, <2>1 DEF Record, Recorded
<1> QED
  BY <1>10, <1>11, <1>12, <1>13

\* What a container holds is what its setters were given, on its way, at the peer
\* and in the hub's record (data.cpp:225-445, 714-875; payload.cpp:81-655): the
\* inductive invariant holds in every state of every source.
THEOREM CodecInvariant == Spec => []IInv
<1>1. IInv /\ [Next]_vars => IInv'
  <2> SUFFICES ASSUME IInv, [Next]_vars PROVE IInv'
    OBVIOUS
  <2>1. ASSUME NEW f \in Fields, NEW q \in Boundaries[f], Set(f, q) PROVE IInv'
    BY <2>1, SetKeeps
  <2>2. CASE Serialize
    BY <2>2, SerializeKeeps
  <2>3. CASE Unserialize
    BY <2>3, UnserializeKeeps
  <2>4. CASE Keep
    BY <2>4, KeepKeeps
  <2>5. CASE Again
    BY <2>5, AgainKeeps
  <2>6. CASE UNCHANGED vars
    <3>1. TypeOK' /\ Meant' /\ Message'
      BY <2>6 DEF vars, IInv, TypeOK, Meant, Message
    <3>2. Record'
      BY <2>6 DEF vars, IInv, Record, Recorded
    <3> QED
      BY <3>1, <3>2 DEF IInv
  <2> QED
    BY <2>1, <2>2, <2>3, <2>4, <2>5, <2>6 DEF Next
<1> QED
  BY <1>1, InitRight, PTL DEF Spec

\* Type correctness: the fields of every container on the way fit the bits a
\* payload has for them, so that putBits() cuts nothing (data.cpp:225-445,
\* payload.cpp:192-370).
THEOREM CodecTypes == Spec => []TypeOK
BY CodecInvariant, PTL DEF IInv

\* The two ends agree on the layout of every payload: the ID, the data and each
\* field whose companions are there arrive, and nothing else (payload.cpp:81-655).
THEOREM CodecConveyed == Spec => []Conveyed
<1>1. IInv => Conveyed
  <2> SUFFICES ASSUME IInv, pc \in {"peer", "hub"} PROVE Conveyed
    BY DEF Conveyed
  <2>1. /\ result = Len(wire) \div 8
        /\ dst.id = src.id /\ dst.size = src.size
        /\ \A f \in Fields : dst.field[f] =
             IF \A x \in Companions(f) : Defined(src, x) THEN Received(src, f)
             ELSE Undefined
    BY DEF IInv, Message
  <2>2. ASSUME NEW f \in Fields, \A x \in Companions(f) : Defined(src, x)
        PROVE  Received(src, f) \in {src.field[f], OverflowMark}
    <3>1. f \in Companions(f)
      BY DEF Companions
    <3>2. Writable(src, f)
      BY <2>2, <3>1 DEF Writable
    <3> QED
      BY <3>2, FieldReceived DEF IInv, TypeOK
  <2>3. ASSUME NEW f \in Fields
        PROVE  IF \A x \in Companions(f) : Defined(src, x)
               THEN dst.field[f] \in {src.field[f], OverflowMark}
               ELSE dst.field[f] = Undefined
    BY <2>1, <2>2
  <2> QED
    BY <2>1, <2>3 DEF Conveyed
<1> QED
  BY <1>1, CodecInvariant, PTL

\* A quantity given to a setter is read at the other end within half a step, or
\* as the overflow of its range (data.cpp:225-680, payload.cpp:420-645).
THEOREM CodecAccurate == Spec => []Accurate
<1>1. IInv => Accurate
  BY Heard DEF IInv, Accurate, Defined
<1> QED
  BY <1>1, CodecInvariant, PTL

\* The hub's record has, of each field, the latest quantity its source's messages
\* carried, and the data of the last one (data.cpp:714-875).
THEOREM CodecKeepsLatest == Spec => []KeepsLatest
<1>1. IInv => KeepsLatest
  <2> SUFFICES ASSUME IInv, pc = "hub", ~crashed
               PROVE  /\ kept.size = dst.size /\ kept.held >= kept.size
                      /\ kept.id = dst.id
                      /\ \A f \in Fields :
                           /\ Defined(kept, f) <=> known[f] # Undefined
                           /\ Defined(kept, f) => StandsFor(f, kept.field[f], known[f])
    BY DEF KeepsLatest
  <2>1. kept # None /\ kept.size = dst.size /\ kept.held >= kept.size
        /\ kept.id = src.id /\ dst.id = src.id
    BY DEF IInv, Record, Message
  <2>2. ASSUME NEW f \in Fields PROVE Agrees(f, kept.field[f], known[f])
    BY <2>1 DEF IInv, Record, Recorded
  <2> QED
    BY <2>1, <2>2 DEF Agrees, Defined
<1> QED
  BY <1>1, CodecInvariant, PTL
=============================================================================
