-------------------------- MODULE InstantTextProofs --------------------------
(***************************************************************************)
(* Proofs about InstantText for the nine digits that RFC3339Nano has, and  *)
(* for every horizon.  With nine digits everything about one fraction is   *)
(* arithmetic with constants; nothing here is by induction over digits.    *)
(***************************************************************************)
EXTENDS InstantText, RunStoreProofs, SequenceTheorems

\* The nanoseconds of a second.
Fractions == {f \in Nat : f < 1000000000}

\* The digits of a fraction, one by one.
LEMMA DigitValues ==
    ASSUME Digits = 9, NEW f \in Fractions
    PROVE  /\ DigitAt(f, 1) = (f \div 100000000) % 10
           /\ DigitAt(f, 2) = (f \div 10000000) % 10
           /\ DigitAt(f, 3) = (f \div 1000000) % 10
           /\ DigitAt(f, 4) = (f \div 100000) % 10
           /\ DigitAt(f, 5) = (f \div 10000) % 10
           /\ DigitAt(f, 6) = (f \div 1000) % 10
           /\ DigitAt(f, 7) = (f \div 100) % 10
           /\ DigitAt(f, 8) = (f \div 10) % 10
           /\ DigitAt(f, 9) = f % 10
<1>1. /\ 10^(9 - 1) = 100000000
      /\ 10^(9 - 2) = 10000000
      /\ 10^(9 - 3) = 1000000
      /\ 10^(9 - 4) = 100000
      /\ 10^(9 - 5) = 10000
      /\ 10^(9 - 6) = 1000
      /\ 10^(9 - 7) = 100
      /\ 10^(9 - 8) = 10
      /\ 10^(9 - 9) = 1
  BY SMT
<1> QED
  BY <1>1, SMT DEF DigitAt, Fractions

\* A digit is a digit.
LEMMA DigitType ==
    ASSUME Digits = 9, NEW f \in Fractions, NEW k \in 1..9
    PROVE  DigitAt(f, k) \in 0..9
<1>1. \/ k = 1 \/ k = 2 \/ k = 3 \/ k = 4 \/ k = 5 \/ k = 6 \/ k = 7 \/ k = 8 \/ k = 9
  OBVIOUS
<1>2. ASSUME NEW m \in Nat \ {0}
      PROVE  (f \div m) % 10 \in 0..9
  BY SMT DEF Fractions
<1>3. f % 10 \in 0..9
  BY SMT DEF Fractions
<1> QED
  BY <1>1, <1>2, <1>3, DigitValues, SMT

\* Two fractions with the same digits are the same.
LEMMA DigitsDetermine ==
    ASSUME Digits = 9, NEW f \in Fractions, NEW g \in Fractions,
           \A k \in 1..9 : DigitAt(f, k) = DigitAt(g, k)
    PROVE  f = g
<1>1. /\ f % 10 = g % 10
      /\ (f \div 10) % 10 = (g \div 10) % 10
      /\ (f \div 100) % 10 = (g \div 100) % 10
      /\ (f \div 1000) % 10 = (g \div 1000) % 10
      /\ (f \div 10000) % 10 = (g \div 10000) % 10
      /\ (f \div 100000) % 10 = (g \div 100000) % 10
      /\ (f \div 1000000) % 10 = (g \div 1000000) % 10
      /\ (f \div 10000000) % 10 = (g \div 10000000) % 10
      /\ (f \div 100000000) % 10 = (g \div 100000000) % 10
  BY DigitValues, SMT
<1>2. f \div 1000000000 = 0 /\ g \div 1000000000 = 0 /\ f \in Nat /\ g \in Nat
  BY SMT DEF Fractions
<1>3. f \div 100000000 = g \div 100000000
  BY <1>1, <1>2, SMT
<1>4. f \div 10000000 = g \div 10000000
  BY <1>1, <1>2, <1>3, SMT
<1>5. f \div 1000000 = g \div 1000000
  BY <1>1, <1>2, <1>4, SMT
<1>6. f \div 100000 = g \div 100000
  BY <1>1, <1>2, <1>5, SMT
<1>7. f \div 10000 = g \div 10000
  BY <1>1, <1>2, <1>6, SMT
<1>8. f \div 1000 = g \div 1000
  BY <1>1, <1>2, <1>7, SMT
<1>9. f \div 100 = g \div 100
  BY <1>1, <1>2, <1>8, SMT
<1>10. f \div 10 = g \div 10
  BY <1>1, <1>2, <1>9, SMT
<1> QED
  BY <1>1, <1>2, <1>10, SMT

-----------------------------------------------------------------------------
(* Texts *)

\* How many digits are written: up to the last one that is not zero.
LEMMA WrittenDigits ==
    ASSUME Digits = 9, NEW f \in Fractions
    PROVE  /\ Written(f) \in Nat /\ Written(f) <= 9
           /\ \A k \in (Written(f) + 1)..9 : DigitAt(f, k) = 0
<1> DEFINE Q(n) == /\ \A k \in (n + 1)..9 : DigitAt(f, k) = 0
                   /\ n > 0 => DigitAt(f, n) # 0
<1>1. \E n \in 0..9 : Q(n)
  <2>1. CASE DigitAt(f, 9) # 0
    <3>1. Q(9)
      BY <2>1
    <3> QED
      BY <3>1
  <2>2. CASE DigitAt(f, 9) = 0 /\ DigitAt(f, 8) # 0
    <3>1. Q(8)
      BY <2>2
    <3> QED
      BY <3>1
  <2>3. CASE DigitAt(f, 9) = 0 /\ DigitAt(f, 8) = 0 /\ DigitAt(f, 7) # 0
    <3>1. Q(7)
      BY <2>3
    <3> QED
      BY <3>1
  <2>4. CASE /\ \A k \in 7..9 : DigitAt(f, k) = 0
             /\ DigitAt(f, 6) # 0
    <3>1. Q(6)
      BY <2>4
    <3> QED
      BY <3>1
  <2>5. CASE /\ \A k \in 6..9 : DigitAt(f, k) = 0
             /\ DigitAt(f, 5) # 0
    <3>1. Q(5)
      BY <2>5
    <3> QED
      BY <3>1
  <2>6. CASE /\ \A k \in 5..9 : DigitAt(f, k) = 0
             /\ DigitAt(f, 4) # 0
    <3>1. Q(4)
      BY <2>6
    <3> QED
      BY <3>1
  <2>7. CASE /\ \A k \in 4..9 : DigitAt(f, k) = 0
             /\ DigitAt(f, 3) # 0
    <3>1. Q(3)
      BY <2>7
    <3> QED
      BY <3>1
  <2>8. CASE /\ \A k \in 3..9 : DigitAt(f, k) = 0
             /\ DigitAt(f, 2) # 0
    <3>1. Q(2)
      BY <2>8
    <3> QED
      BY <3>1
  <2>9. CASE /\ \A k \in 2..9 : DigitAt(f, k) = 0
             /\ DigitAt(f, 1) # 0
    <3>1. Q(1)
      BY <2>9
    <3> QED
      BY <3>1
  <2>10. CASE \A k \in 1..9 : DigitAt(f, k) = 0
    <3>1. Q(0)
      BY <2>10
    <3> QED
      BY <3>1
  <2> QED
    BY <2>1, <2>2, <2>3, <2>4, <2>5, <2>6, <2>7, <2>8, <2>9, <2>10
<1>2. Written(f) = CHOOSE n \in 0..9 : Q(n)
  BY DEF Written
<1>3. Written(f) \in 0..9 /\ Q(Written(f))
  BY <1>1, <1>2
<1>4. Written(f) \in Nat /\ Written(f) <= 9
  BY <1>3, SMT
<1> QED
  BY <1>3, <1>4

\* A time is a second and a fraction.
LEMMA TimeParts ==
    ASSUME Digits = 9, NEW t \in Times
    PROVE  /\ PerSecond = 1000000000
           /\ t \in Nat
           /\ t # Zero
           /\ t \div PerSecond \in Nat
           /\ t % PerSecond \in Fractions
<1>1. PerSecond = 1000000000
  BY SMT DEF PerSecond
<1>2. PerSecond \in Nat /\ PerSecond >= 1
  BY <1>1, SMT
<1>3. PICK s \in Nat, f \in Nat : s >= 1 /\ t = s * PerSecond + f
  <2>1. PICK s \in Cursors, f \in 0..(PerSecond - 1) : t = s * PerSecond + f
    BY DEF Times, Within
  <2>2. s \in Nat /\ s >= 1 /\ f \in Nat
    BY <1>2, ConstantsAssumption, SMT DEF Cursors
  <2> QED
    BY <2>1, <2>2
<1>4. t \in Nat /\ t >= 1
  BY <1>1, <1>3, SMT
<1>5. t \div PerSecond \in Nat /\ t % PerSecond \in Nat /\ t % PerSecond < PerSecond
  BY <1>2, <1>4, SMT
<1> QED
  BY <1>1, <1>4, <1>5, SMT DEF Zero, Fractions

\* The text of a time: the second first, and then, when there is a fraction, a dot and
\* the digits that are written.
LEMMA TextOf ==
    ASSUME Digits = 9, NEW t \in Times
    PROVE  /\ formatTime(t)[1] = t \div PerSecond
           /\ Len(formatTime(t)) \in Nat /\ Len(formatTime(t)) >= 2
           /\ t % PerSecond = 0 => Len(formatTime(t)) = 2
           /\ t % PerSecond # 0 =>
                 /\ Len(formatTime(t)) > 2
                 /\ Len(formatTime(t)) = 3 + Written(t % PerSecond)
                 /\ \A k \in 1..Written(t % PerSecond) :
                       formatTime(t)[2 + k] = Digit(DigitAt(t % PerSecond, k))
<1> DEFINE q == t \div PerSecond
           f == t % PerSecond
           w == Written(f)
           fraction == [k \in 1..w |-> Digit(DigitAt(f, k))]
<1>1. q \in Nat /\ t # Zero /\ f \in Fractions
  BY TimeParts
<1>2. w \in Nat /\ w <= 9
  BY <1>1, WrittenDigits
<1>3. \A k \in 1..w : Digit(DigitAt(f, k)) \in Int
  <2> SUFFICES ASSUME NEW k \in 1..w
               PROVE  Digit(DigitAt(f, k)) \in Int
    OBVIOUS
  <2>1. k \in 1..9
    BY <1>2
  <2>2. DigitAt(f, k) \in 0..9
    BY <1>1, <2>1, DigitType
  <2> QED
    BY <2>2, SMT DEF Digit
<1>4. fraction \in Seq(Int) /\ Len(fraction) = w
  <2>1. fraction \in [1..w -> Int]
    BY <1>3
  <2>2. fraction \in Seq(Int)
    BY <1>2, <2>1, SeqDef
  <2> QED
    BY <1>2, <2>2, LenProperties
<1> HIDE DEF q, f, w, fraction
<1>5. CASE f = 0
  <2>1. formatTime(t) = <<q>> \o <<>> \o <<Zulu>>
    BY <1>1, <1>5 DEF formatTime, q, f
  <2>2. <<q>> \in Seq(Int) /\ <<Zulu>> \in Seq(Int)
    BY <1>1 DEF Zulu
  <2>3. formatTime(t) = <<q>> \o <<Zulu>>
    BY <2>1, <2>2, ConcatEmptySeq
  <2>4. Len(formatTime(t)) = 2 /\ formatTime(t)[1] = q
    BY <2>2, <2>3, ConcatProperties
  <2>5. Len(formatTime(t)) \in Nat /\ Len(formatTime(t)) >= 2
    BY <2>4
  <2> QED
    BY <2>4, <2>5, <1>5 DEF q, f
<1>6. CASE f # 0
  <2>1. formatTime(t) = <<q>> \o (<<Dot>> \o fraction) \o <<Zulu>>
    BY <1>1, <1>6 DEF formatTime, q, f, w, fraction
  <2>2. <<q>> \in Seq(Int) /\ <<Dot>> \in Seq(Int) /\ <<Zulu>> \in Seq(Int)
    BY <1>1 DEF Dot, Zulu
  <2> DEFINE y == <<Dot>> \o fraction
             z == <<q>> \o y
  <2>3. /\ y \in Seq(Int)
        /\ Len(y) = 1 + w
        /\ \A k \in 1..w : y[1 + k] = fraction[k]
    BY <2>2, <1>2, <1>4, ConcatProperties
  <2> HIDE DEF y
  <2>4. /\ z \in Seq(Int)
        /\ Len(z) = 2 + w
        /\ z[1] = q
        /\ \A k \in 1..w : z[2 + k] = y[1 + k]
    BY <2>2, <2>3, <1>2, ConcatProperties
  <2> HIDE DEF z
  <2>5. formatTime(t) = z \o <<Zulu>>
    BY <2>1 DEF y, z
  <2>6. /\ Len(formatTime(t)) = 3 + w
        /\ formatTime(t)[1] = q
        /\ \A k \in 1..w : formatTime(t)[2 + k] = z[2 + k]
    BY <2>2, <2>4, <2>5, <1>2, ConcatProperties
  <2>7. \A k \in 1..w : formatTime(t)[2 + k] = Digit(DigitAt(f, k))
    BY <2>3, <2>4, <2>6 DEF fraction
  <2>8. Len(formatTime(t)) \in Nat /\ Len(formatTime(t)) >= 2 /\ Len(formatTime(t)) > 2
    BY <2>6, <1>2
  <2> QED
    BY <2>6, <2>7, <2>8, <1>6 DEF q, f, w
<1> QED
  BY <1>5, <1>6

\* Different times have different texts: none of the zeros that are left out matters.
LEMMA TextsDiffer ==
    ASSUME Digits = 9, NEW t \in Times, NEW u \in Times, formatTime(t) = formatTime(u)
    PROVE  t = u
<1> DEFINE f == t % PerSecond
           g == u % PerSecond
<1>1. /\ t \in Nat /\ u \in Nat /\ PerSecond \in Nat /\ PerSecond >= 1
      /\ f \in Fractions /\ g \in Fractions
  <2>1. PerSecond = 1000000000
    BY TimeParts
  <2>2. PerSecond \in Nat /\ PerSecond >= 1
    BY <2>1, SMT
  <2> QED
    BY <2>2, TimeParts
<1>2. t \div PerSecond = u \div PerSecond
  BY TextOf
<1>3. /\ Written(f) \in Nat /\ \A k \in (Written(f) + 1)..9 : DigitAt(f, k) = 0
      /\ Written(g) \in Nat /\ \A k \in (Written(g) + 1)..9 : DigitAt(g, k) = 0
  BY <1>1, WrittenDigits
<1>4. f = g
  <2>1. CASE f = 0 \/ g = 0
    <3> DEFINE m == Len(formatTime(t))
    <3>1. Len(formatTime(u)) = m
      BY Zenon
    <3>2. /\ m \in Nat
          /\ f = 0 => m = 2
          /\ f # 0 => m > 2
      BY TextOf
    <3>3. /\ g = 0 => m = 2
          /\ g # 0 => m > 2
      BY <3>1, TextOf
    <3> HIDE DEF m, f, g
    <3> QED
      BY <2>1, <3>2, <3>3
  <2>2. CASE f # 0 /\ g # 0
    <3>1. /\ Len(formatTime(t)) = 3 + Written(f)
          /\ \A k \in 1..Written(f) : formatTime(t)[2 + k] = Digit(DigitAt(f, k))
          /\ Len(formatTime(u)) = 3 + Written(g)
          /\ \A k \in 1..Written(g) : formatTime(u)[2 + k] = Digit(DigitAt(g, k))
      BY <2>2, TextOf
    <3> HIDE DEF f, g
    <3>2. Written(f) = Written(g)
      BY <3>1, <1>3
    <3>3. ASSUME NEW k \in 1..9
          PROVE  DigitAt(f, k) = DigitAt(g, k)
      <4>1. CASE k \in 1..Written(f)
        <5>1. Digit(DigitAt(f, k)) = Digit(DigitAt(g, k))
          BY <4>1, <3>1, <3>2
        <5>2. DigitAt(f, k) \in 0..9 /\ DigitAt(g, k) \in 0..9
          BY <1>1, DigitType
        <5> QED
          BY <5>1, <5>2 DEF Digit
      <4>2. CASE k \notin 1..Written(f)
        <5>1. k \in (Written(f) + 1)..9
          BY <4>2, <1>3
        <5> QED
          BY <5>1, <3>2, <1>3
      <4> QED
        BY <4>1, <4>2
    <3> QED
      BY <3>3, <1>1, DigitsDetermine
  <2> QED
    BY <2>1, <2>2
<1> QED
  BY <1>1, <1>2, <1>4, SMT

\* The order of texts is the order of seconds: it errs by less than one.
LEMMA TextsInOrder ==
    ASSUME Digits = 9, NEW t \in Times, NEW u \in Times
    PROVE  IF Passed(t, u) THEN t < u + PerSecond ELSE u < t + PerSecond
<1> DEFINE x == formatTime(t)
           y == formatTime(u)
           p == t \div PerSecond
           q == u \div PerSecond
<1>1. /\ t \in Nat /\ u \in Nat /\ PerSecond \in Nat /\ PerSecond >= 1
      /\ p \in Nat /\ q \in Nat
  <2>1. PerSecond = 1000000000
    BY TimeParts
  <2>2. PerSecond \in Nat /\ PerSecond >= 1
    BY <2>1, SMT
  <2> QED
    BY <2>2, TimeParts
<1>2. x[1] = p /\ y[1] = q
  BY TextOf
<1>3. Len(x) \in Nat /\ Len(x) >= 2 /\ Len(y) \in Nat /\ Len(y) >= 2
  BY TextOf
<1>4. Passed(t, u) <=> AtMost(x, y)
  BY DEF Passed
<1> HIDE DEF x, y
<1>5. AtMost(x, y) => p <= q
  <2> SUFFICES ASSUME AtMost(x, y)
               PROVE  p <= q
    OBVIOUS
  <2> HIDE DEF p, q
  <2>1. CASE x = y
    BY <2>1, <1>1, <1>2
  <2>2. ASSUME NEW k \in 1..Len(y),
               \A j \in 1..(k - 1) : j <= Len(x) /\ x[j] = y[j],
               k > Len(x) \/ x[k] < y[k]
        PROVE  p <= q
    <3>1. CASE k = 1
      BY <3>1, <2>2, <1>1, <1>2, <1>3
    <3>2. CASE k # 1
      <4>1. 1 \in 1..(k - 1)
        BY <3>2, <1>3
      <4> QED
        BY <4>1, <2>2, <1>1, <1>2
    <3> QED
      BY <3>1, <3>2
  <2> QED
    BY <2>1, <2>2 DEF AtMost
<1>6. ~AtMost(x, y) => q <= p
  <2> HIDE DEF p, q
  <2>1. p < q => AtMost(x, y)
    BY <1>2, <1>3 DEF AtMost
  <2> QED
    BY <2>1, <1>1
<1>7. /\ p <= q => t < u + PerSecond
      /\ q <= p => u < t + PerSecond
  BY <1>1, SMT
<1> QED
  BY <1>4, <1>5, <1>6, <1>7

\* The empty text of the zero time comes before every other.
LEMMA ZeroFirst ==
    ASSUME Digits = 9, NEW t \in Times
    PROVE  Passed(Zero, t) /\ ~Passed(t, Zero)
<1>1. formatTime(Zero) = <<>> /\ Len(formatTime(Zero)) = 0
  BY EmptySeq DEF formatTime
<1>2. Len(formatTime(t)) \in Nat /\ Len(formatTime(t)) >= 2
  BY TextOf
<1> DEFINE x == formatTime(t)
           e == formatTime(Zero)
<1> HIDE DEF x, e
<1>3. Len(e) = 0 /\ Len(x) \in Nat /\ Len(x) >= 2
  BY <1>1, <1>2 DEF x, e
<1>4. AtMost(e, x)
  BY <1>3 DEF AtMost
<1>5. ~AtMost(x, e)
  BY <1>3 DEF AtMost
<1> QED
  BY <1>4, <1>5 DEF Passed, x, e

\* With RFC3339Nano and for every schedule, no two instants share a text and every
\* cursor counts as due less than a second early or late, whatever is left out of its
\* fraction; the zero instant is always due.
THEOREM CursorTextsKeepTime ==
    ASSUME Digits = 9
    PROVE  StoreSpec => []CursorsKeepTime
<1>1. StoreTypeOK => CursorsKeepTime
  <2> SUFFICES ASSUME StoreTypeOK, NEW d \in Definitions
               PROVE  KeepsTime[cursor[d]]
    BY DEF CursorsKeepTime
  <2>1. cursor[d] \in Cursors
    BY DEF StoreTypeOK
  <2>2. ASSUME NEW t \in Within(cursor[d])
        PROVE  /\ \A u \in Times :
                     /\ formatTime(t) = formatTime(u) => t = u
                     /\ IF Passed(t, u) THEN t < u + PerSecond ELSE u < t + PerSecond
               /\ Passed(Zero, t) /\ ~Passed(t, Zero)
    <3>1. t \in Times
      BY <2>1 DEF Times
    <3> QED
      BY <3>1, TextsDiffer, TextsInOrder, ZeroFirst
  <2> QED
    BY <2>1, <2>2 DEF KeepsTime
<1>2. StoreSpec => []StoreTypeOK
  BY StoreTypeCorrect
<1> QED
  BY <1>1, <1>2, PTL
=============================================================================
