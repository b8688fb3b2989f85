----------------------------- MODULE InstantText -----------------------------
(***************************************************************************)
(* How the store writes instants down and compares them.  next_run_at,     *)
(* next_retry_at and lease_expires_at are text columns in RFC3339Nano,     *)
(* which leaves out the zeros at the end of the fraction, and the database *)
(* compares them as text, byte by byte.  Every process of every driver     *)
(* writes UTC, so all instants have the same date and time format up to    *)
(* the second, and those parts compare like numbers.                       *)
(*                                                                         *)
(* An instant of RunStore is taken for a second here, and divided further. *)
(***************************************************************************)
EXTENDS RunStore, Sequences

CONSTANT Digits     \* digits of the fraction (nine in RFC3339Nano)

ASSUME DigitsAssumption == Digits \in Nat \ {0}

PerSecond == 10^Digits
Within(s) == {s * PerSecond + f : f \in 0..(PerSecond - 1)}   \* the times in a second
Times     == UNION {Within(s) : s \in Cursors}
Zero      == 0      \* time.Time{}, before every instant in use

\* Characters by their place in the byte order: "." < digits < "Z".  The fixed part up
\* to the second is one character of its own.
Dot      == 0
Digit(d) == d + 1
Zulu     == 11

\* The k-th digit of a fraction, and the number of digits that are written.
DigitAt(f, k) == (f \div 10^(Digits - k)) % 10
Written(f) == CHOOSE n \in 0..Digits :
                 /\ \A k \in (n + 1)..Digits : DigitAt(f, k) = 0
                 /\ n > 0 => DigitAt(f, n) # 0

\* Faulty variant: RFC3339, which has no fraction.
WholeSeconds(t) == IF t = Zero THEN <<>> ELSE <<t \div PerSecond, Zulu>>

formatTime(t) ==
    LET f == t % PerSecond
        fraction == [k \in 1..Written(f) |-> Digit(DigitAt(f, k))]
    IN  IF t = Zero THEN <<>>
        ELSE <<t \div PerSecond>> \o (IF f = 0 THEN <<>> ELSE <<Dot>> \o fraction) \o <<Zulu>>

\* The byte order of two texts.
AtMost(x, y) ==
    \/ x = y
    \/ \E k \in 1..Len(y) :
          /\ \A j \in 1..(k - 1) : j <= Len(x) /\ x[j] = y[j]
          /\ k > Len(x) \/ x[k] < y[k]

\* next_run_at <= now, lease_expires_at <= now, next_retry_at <= now.
Passed(deadline, now) == AtMost(formatTime(deadline), formatTime(now))

-----------------------------------------------------------------------------
\* The texts of the times in second s, against those of all times.
KeepsTime == [s \in Cursors |->
    \A t \in Within(s) :
        /\ \A u \in Times :
              /\ formatTime(t) = formatTime(u) => t = u
              /\ IF Passed(t, u) THEN t < u + PerSecond ELSE u < t + PerSecond
        /\ Passed(Zero, t) /\ ~Passed(t, Zero)]

\* A cursor on record, whatever its fraction of a second, shares its text with no other
\* instant, so that the compare-and-swap and the run id, which use the text, tell
\* instants apart; and it counts as due less than a second early or late, although
\* the texts of one second are not in the order of time.  The zero instant, which is
\* written as the empty text, is always due.
CursorsKeepTime == \A d \in Definitions : KeepsTime[cursor[d]]
=============================================================================
