-------------------------- MODULE HotWallets_proofs --------------------------
(***************************************************************************)
(* The arithmetic of reset_period: the next reset of a monthly wallet.     *)
(***************************************************************************)
EXTENDS HotWallets, TLAPS

\* A quotient and its remainder.
LEMMA Division ==
    ASSUME NEW a \in Nat, NEW s \in Nat \ {0}
    PROVE  /\ a \div s \in Nat /\ a % s \in 0 .. s - 1
           /\ a = s * (a \div s) + (a % s) /\ s * (a \div s) \in Nat
  <1>1. /\ a \div s \in Nat /\ a % s \in 0 .. s - 1
        /\ a = s * (a \div s) + (a % s)
    OBVIOUS
  <1>2. \A x, y \in Nat : x * y \in Nat
    OBVIOUS
  <1> QED  BY <1>1, <1>2

\* A larger factor makes a larger product.
LEMMA Grows ==
    ASSUME NEW s \in Nat, NEW p \in Nat, NEW q \in Nat, p < q
    PROVE  s * p + s <= s * q
  <1>1. PICK d \in Nat : q = p + 1 + d
    <2>1. q - p - 1 \in Nat /\ q = p + 1 + (q - p - 1)
      OBVIOUS
    <2> QED  BY <2>1
  <1>2. s * q = s * p + s + s * d
    BY <1>1
  <1>3. s * d \in Nat /\ s * p \in Nat
    OBVIOUS
  <1> QED  BY <1>2, <1>3

\* There is only one quotient.
LEMMA OneQuotient ==
    ASSUME NEW s \in Nat \ {0}, NEW q \in Nat, NEW r \in 0 .. s - 1
    PROVE  (s * q + r) \div s = q
  <1> DEFINE a == s * q + r
             p == a \div s
  <1>1. s * q \in Nat /\ a \in Nat
    OBVIOUS
  <1>2. p \in Nat /\ a % s \in 0 .. s - 1 /\ a = s * p + (a % s) /\ s * p \in Nat
    BY <1>1, Division
  <1>3. a = s * q + r
    OBVIOUS
  <1> HIDE DEF a, p
  <1>4. ~(p < q)
    BY <1>1, <1>2, <1>3, Grows
  <1>5. ~(q < p)
    BY <1>1, <1>2, <1>3, Grows
  <1>6. p = q
    BY <1>2, <1>4, <1>5
  <1> QED  BY <1>6 DEF p, a

\* A division by a product is one division after the other.
LEMMA TwoDivisions ==
    ASSUME NEW a \in Nat, NEW s \in Nat \ {0}, NEW n \in Nat \ {0}
    PROVE  a \div (n * s) = (a \div s) \div n
  <1> DEFINE months == a \div s
             years == months \div n
  <1>1. /\ months \in Nat /\ a % s \in 0 .. s - 1 /\ a = s * months + (a % s)
    BY Division
  <1> HIDE DEF months
  <1>2. years \in Nat /\ months % n \in 0 .. n - 1 /\ months = n * years + (months % n)
    BY <1>1, Division
  <1> HIDE DEF years
  <1> DEFINE rest == s * (months % n) + (a % s)
  <1>3. a = (n * s) * years + rest
    <2>1. s * (n * years + (months % n)) = (n * s) * years + s * (months % n)
      BY <1>1, <1>2
    <2>2. s * months = s * (n * years + (months % n))
      BY <1>2
    <2> QED  BY <1>1, <1>2, <2>1, <2>2
  <1>4. rest \in 0 .. n * s - 1
    <2>1. s * (months % n) + s <= s * n
      BY <1>2, Grows
    <2>2. s * (months % n) \in Nat /\ s * n = n * s /\ s * n \in Nat
      BY <1>2
    <2> QED  BY <1>1, <2>1, <2>2
  <1>5. n * s \in Nat \ {0}
    OBVIOUS
  <1> HIDE DEF rest
  <1>6. a \div (n * s) = years
    BY <1>2, <1>3, <1>4, <1>5, OneQuotient
  <1> QED  BY <1>6 DEF years, months

\* Later times are in later months, and what is later than the start of a
\* month is in that month or after it.
LEMMA LaterMonth ==
    ASSUME NEW s \in Nat \ {0}, NEW a \in Nat, NEW b \in Nat, a <= b
    PROVE  a \div s <= b \div s
  <1> DEFINE p == a \div s
             q == b \div s
  <1>1. p \in Nat /\ a % s \in 0 .. s - 1 /\ a = s * p + (a % s) /\ s * p \in Nat
    BY Division
  <1>2. q \in Nat /\ b % s \in 0 .. s - 1 /\ b = s * q + (b % s) /\ s * q \in Nat
    BY Division
  <1> HIDE DEF p, q
  <1>3. ~(q < p)
    BY <1>1, <1>2, Grows
  <1> QED  BY <1>1, <1>2, <1>3 DEF p, q

\* A time that is not before a month is in it or in a later one.
LEMMA InOrAfterMonth ==
    ASSUME NEW s \in Nat \ {0}, NEW month \in Nat, NEW t \in Nat, t >= month * s
    PROVE  t \div s >= month
  <1>1. month * s = s * month + 0 /\ month * s \in Nat /\ 0 \in 0 .. s - 1
    OBVIOUS
  <1>2. (month * s) \div s = month
    BY <1>1, OneQuotient
  <1>3. (month * s) \div s <= t \div s
    BY <1>1, LaterMonth
  <1> QED  BY <1>2, <1>3

\* A number of months is so many years and the rest.
LEMMA YearAndMonth ==
    ASSUME NEW t \in Nat
    PROVE  /\ Year(t) \in Nat /\ Month(t) \in 1 .. 12
           /\ 12 * Year(t) + Month(t) - 1 = t \div SecondsPerMonth
  <1> DEFINE months == t \div SecondsPerMonth
  <1>1. months \in Nat
    BY HotWalletsAssumption, Division
  <1>2. t \div (12 * SecondsPerMonth) = months \div 12
    BY HotWalletsAssumption, TwoDivisions
  <1> HIDE DEF months
  <1>3. months = 12 * (months \div 12) + (months % 12) /\ months \div 12 \in Nat
        /\ months % 12 \in 0 .. 11
    BY <1>1
  <1>4. Year(t) = months \div 12 /\ Month(t) = (months % 12) + 1
    BY <1>2 DEF Year, Month, months
  <1>5. /\ Year(t) \in Nat /\ Month(t) \in 1 .. 12
        /\ 12 * Year(t) + Month(t) - 1 = months
    BY <1>3, <1>4
  <1> QED  BY <1>5 DEF months

\* Whatever becomes of the sum of months in reset_period, the reset is the
\* first second of the month that is period_multiple months from now.
LEMMA NextMonth ==
    ASSUME NEW w, w.period_multiple \in Nat, NEW t \in Nat,
           NEW next \in NextResetMonths(w, t)
    PROVE  next = (t \div SecondsPerMonth + w.period_multiple) * SecondsPerMonth
  <1> DEFINE working == Month(t) + w.period_multiple
             months == t \div SecondsPerMonth + w.period_multiple
  <1>1. /\ Year(t) \in Nat /\ working \in Nat /\ months \in Nat
        /\ 12 * Year(t) + working - 1 = months
    <2>1. /\ Year(t) \in Nat /\ Month(t) \in 1 .. 12
          /\ 12 * Year(t) + Month(t) - 1 = t \div SecondsPerMonth
      BY YearAndMonth
    <2>2. t \div SecondsPerMonth \in Nat
      BY HotWalletsAssumption, Division
    <2> QED  BY <2>1, <2>2
  <1>2. \/ next = FirstOfMonth(Year(t), working)
        \/ next = FirstOfMonth(Year(t) + working \div 12, working % 12)
    BY DEF NextResetMonths
  <1>3. next = months * SecondsPerMonth
    <2> HIDE DEF working, months
    <2>1. 12 * (Year(t) + working \div 12) + (working % 12) - 1 = months
      <3>1. working = 12 * (working \div 12) + (working % 12)
            /\ working \div 12 \in Nat /\ working % 12 \in Nat
        BY <1>1
      <3> QED  BY <1>1, <3>1
    <2> QED  BY <1>1, <1>2, <2>1 DEF FirstOfMonth
  <1> QED  BY <1>3 DEF months
=============================================================================
