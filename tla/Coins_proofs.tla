---------------------------- MODULE Coins_proofs ----------------------------
(***************************************************************************)
(* The theorem that no coin leaves under a spend limit uncharged: what was *)
(* charged in a transaction covers what was sent and what the messages     *)
(* that wait still carry.  The sums this takes are not computed, they are  *)
(* witnessed: by the running totals from each place of a sequence to its   *)
(* end.                                                                    *)
(***************************************************************************)
EXTENDS Fees_proofs

-----------------------------------------------------------------------------
(***************************************************************************)
(* Sums of sequences of numbers.                                           *)
(***************************************************************************)
\* p[k] is what the numbers of w after the k-th add up to.
RunningTotals(w, p) ==
    /\ p \in [0 .. Len(w) -> Nat]
    /\ p[Len(w)] = 0
    /\ \A k \in 1 .. Len(w) : p[k - 1] = w[k] + p[k]

SumsTo(w, t) == \E p : RunningTotals(w, p) /\ p[0] = t

\* A sum is a number.
LEMMA SumType ==
    ASSUME NEW w \in Seq(Nat), NEW t, SumsTo(w, t) PROVE t \in Nat
  BY DEF SumsTo, RunningTotals

\* Zeros add up to zero.
LEMMA SumOfZeros ==
    ASSUME NEW w \in Seq(Nat), \A k \in DOMAIN w : w[k] = 0 PROVE SumsTo(w, 0)
  <1> DEFINE p == [k \in 0 .. Len(w) |-> 0]
  <1>1. Len(w) \in Nat /\ DOMAIN w = 1 .. Len(w)
    OBVIOUS
  <1>2. RunningTotals(w, p) /\ p[0] = 0
    BY <1>1 DEF RunningTotals
  <1> QED  BY <1>2 DEF SumsTo

\* Two sequences after each other.
LEMMA SumOfConcat ==
    ASSUME NEW v \in Seq(Nat), NEW w \in Seq(Nat), NEW s, NEW t,
           SumsTo(v, s), SumsTo(w, t)
    PROVE  SumsTo(v \o w, s + t)
  <1>1. PICK p : RunningTotals(v, p) /\ p[0] = s
    BY DEF SumsTo
  <1>2. PICK q : RunningTotals(w, q) /\ q[0] = t
    BY DEF SumsTo
  <1>3. PICK m \in Nat, n \in Nat : m = Len(v) /\ n = Len(w)
    OBVIOUS
  <1> DEFINE u == v \o w
             r == [k \in 0 .. m + n |-> IF k <= m THEN p[k] + t ELSE q[k - m]]
  <1>4. /\ Len(u) = m + n
        /\ \A k \in 1 .. m : u[k] = v[k] /\ v[k] \in Nat
        /\ \A k \in 1 .. n : u[m + k] = w[k] /\ w[k] \in Nat
    <2>1. /\ Len(u) = m + n
          /\ \A k \in 1 .. m : u[k] = v[k] /\ v[k] \in Nat
          /\ \A k \in 1 .. n : w[k] \in Nat
      BY <1>3
    <2>2. ASSUME NEW k \in 1 .. n PROVE u[m + k] = w[k]
      BY <1>3
    <2> QED  BY <2>1, <2>2
  <1>5. /\ p \in [0 .. m -> Nat] /\ q \in [0 .. n -> Nat] /\ t \in Nat /\ s \in Nat
        /\ p[m] = 0 /\ q[n] = 0 /\ q[0] = t /\ p[0] = s
        /\ \A k \in 1 .. m : p[k - 1] = v[k] + p[k]
        /\ \A k \in 1 .. n : q[k - 1] = w[k] + q[k]
    BY <1>1, <1>2, <1>3 DEF RunningTotals
  <1> HIDE DEF u
  <1>6. /\ \A k \in 0 .. m : r[k] = p[k] + t /\ p[k] \in Nat
        /\ \A k \in 0 .. n : r[m + k] = q[k] /\ q[k] \in Nat
    <2>1. ASSUME NEW k \in 0 .. m PROVE r[k] = p[k] + t /\ p[k] \in Nat
      BY <1>5
    <2>2. ASSUME NEW k \in 0 .. n PROVE r[m + k] = q[k] /\ q[k] \in Nat
      <3>1. CASE k = 0
        BY <1>5, <3>1
      <3>2. CASE k # 0
        <4>1. m + k \in 0 .. m + n /\ ~(m + k <= m) /\ m + k - m = k
          BY <3>2
        <4> QED  BY <1>5, <4>1
      <3> QED  BY <3>1, <3>2
    <2> QED  BY <2>1, <2>2
  <1>7. DOMAIN r = 0 .. m + n /\ r = [k \in 0 .. m + n |-> r[k]]
    OBVIOUS
  <1> HIDE DEF r
  <1>8. ASSUME NEW k \in 0 .. m + n
        PROVE  k \in 0 .. m \/ \E j \in 0 .. n : k = m + j
    <2>1. k \in 0 .. m \/ (k - m \in 0 .. n /\ k = m + (k - m))
      OBVIOUS
    <2> QED  BY <2>1
  <1>9. r \in [0 .. m + n -> Nat] /\ r[m + n] = 0 /\ r[0] = s + t
    <2>1. ASSUME NEW k \in 0 .. m + n PROVE r[k] \in Nat
      <3>1. CASE k \in 0 .. m
        <4>1. r[k] = p[k] + t /\ p[k] \in Nat /\ t \in Nat
          BY <1>5, <1>6, <3>1
        <4> QED  BY <4>1
      <3>2. ASSUME NEW j \in 0 .. n, k = m + j PROVE r[k] \in Nat
        BY <1>6, <3>2
      <3> QED  BY <1>8, <3>1, <3>2
    <2>2. r[m + n] = 0
      <3>1. n \in 0 .. n
        OBVIOUS
      <3> QED  BY <1>5, <1>6, <3>1
    <2>3. r[0] = s + t
      <3>1. 0 \in 0 .. m
        OBVIOUS
      <3> QED  BY <1>5, <1>6, <3>1
    <2> QED  BY <1>7, <2>1, <2>2, <2>3
  <1>10. ASSUME NEW k \in 1 .. m + n PROVE r[k - 1] = u[k] + r[k]
    <2>1. CASE k \in 1 .. m
      <3>1. k - 1 \in 0 .. m /\ k \in 0 .. m
        BY <2>1
      <3>2. r[k - 1] = p[k - 1] + t /\ r[k] = p[k] + t /\ p[k] \in Nat
        BY <1>6, <3>1
      <3>3. p[k - 1] = u[k] + p[k] /\ u[k] \in Nat
        BY <1>4, <1>5, <2>1
      <3> QED  BY <1>5, <3>2, <3>3
    <2>2. CASE k \notin 1 .. m
      <3>1. PICK j \in 1 .. n : k = m + j /\ k - 1 = m + (j - 1)
        <4>1. k - m \in 1 .. n /\ k = m + (k - m) /\ k - 1 = m + ((k - m) - 1)
          BY <2>2
        <4> QED  BY <4>1
      <3>2. j \in 0 .. n /\ j - 1 \in 0 .. n
        OBVIOUS
      <3>3. r[k - 1] = q[j - 1] /\ r[k] = q[j] /\ u[k] = w[j]
        BY <1>4, <1>6, <3>1, <3>2
      <3>4. q[j - 1] = w[j] + q[j]
        BY <1>5
      <3> QED  BY <3>3, <3>4
    <2> QED  BY <2>1, <2>2
  <1>11. RunningTotals(u, r) /\ r[0] = s + t
    BY <1>4, <1>9, <1>10 DEF RunningTotals
  <1> QED  BY <1>11 DEF SumsTo, u

\* One more number at the end.
LEMMA SumOfAppend ==
    ASSUME NEW w \in Seq(Nat), NEW x \in Nat, NEW t, SumsTo(w, t)
    PROVE  SumsTo(Append(w, x), t + x)
  <1> DEFINE one == <<x>>
             p == [k \in 0 .. 1 |-> IF k = 0 THEN x ELSE 0]
  <1>1. /\ one \in Seq(Nat) /\ Len(one) = 1 /\ one[1] = x
        /\ Append(w, x) = w \o one
    OBVIOUS
  <1>2. /\ p \in [0 .. 1 -> Nat] /\ p[1] = 0 /\ p[0] = x
    OBVIOUS
  <1> HIDE DEF one, p
  <1>3. RunningTotals(one, p)
    <2>1. \A k \in 1 .. 1 : k = 1 /\ k - 1 = 0
      OBVIOUS
    <2> QED  BY <1>1, <1>2, <2>1 DEF RunningTotals
  <1>4. SumsTo(one, x)
    BY <1>2, <1>3 DEF SumsTo
  <1> QED  BY <1>1, <1>4, SumOfConcat

\* Another first number, or none.
LEMMA SumOfTail ==
    ASSUME NEW w \in Seq(Nat), w # << >>, NEW t, SumsTo(w, t)
    PROVE  /\ t - w[1] \in Nat /\ w[1] \in Nat
           /\ SumsTo(Tail(w), t - w[1])
           /\ \A x \in Nat : SumsTo([w EXCEPT ![1] = x], t - w[1] + x)
  <1>1. PICK p : RunningTotals(w, p) /\ p[0] = t
    BY DEF SumsTo
  <1>2. PICK n \in Nat : n = Len(w) /\ n > 0
    OBVIOUS
  <1>3. /\ p \in [0 .. n -> Nat] /\ p[n] = 0 /\ p[0] = t
        /\ \A k \in 1 .. n : p[k - 1] = w[k] + p[k] /\ w[k] \in Nat /\ p[k] \in Nat
    BY <1>1, <1>2 DEF RunningTotals
  <1>4. w[1] \in Nat /\ p[1] \in Nat /\ p[0] = w[1] + p[1] /\ t - w[1] = p[1]
    <2>1. 1 \in 1 .. n /\ 1 - 1 = 0
      BY <1>2
    <2> QED  BY <1>3, <2>1
  <1>5. SumsTo(Tail(w), p[1])
    <2> DEFINE v == Tail(w)
               q == [k \in 0 .. n - 1 |-> p[k + 1]]
    <2>1. Len(v) = n - 1 /\ \A k \in 1 .. n - 1 : v[k] = w[k + 1]
      BY <1>2
    <2>2. /\ q \in [0 .. n - 1 -> Nat]
          /\ \A k \in 0 .. n - 1 : q[k] = p[k + 1]
      BY <1>2, <1>3
    <2> HIDE DEF v, q
    <2>3. q[n - 1] = 0 /\ q[0] = p[1]
      BY <1>2, <1>3, <2>2
    <2>4. ASSUME NEW k \in 1 .. n - 1 PROVE q[k - 1] = v[k] + q[k]
      <3>1. /\ k \in 0 .. n - 1 /\ k - 1 \in 0 .. n - 1 /\ k + 1 \in 1 .. n
            /\ (k - 1) + 1 = k /\ (k + 1) - 1 = k
        BY <1>2
      <3>2. q[k - 1] = p[k] /\ q[k] = p[k + 1] /\ v[k] = w[k + 1]
        BY <2>1, <2>2, <3>1
      <3>3. p[k] = w[k + 1] + p[k + 1]
        BY <1>3, <3>1
      <3> QED  BY <3>2, <3>3
    <2>5. RunningTotals(v, q)
      BY <2>1, <2>2, <2>3, <2>4 DEF RunningTotals
    <2> QED  BY <2>3, <2>5 DEF SumsTo, v
  <1>6. ASSUME NEW x \in Nat PROVE SumsTo([w EXCEPT ![1] = x], p[1] + x)
    <2> DEFINE v == [w EXCEPT ![1] = x]
               q == [p EXCEPT ![0] = p[1] + x]
    <2>1. Len(v) = n /\ v[1] = x /\ \A k \in 2 .. n : v[k] = w[k]
      BY <1>2
    <2>2. /\ q \in [0 .. n -> Nat] /\ q[0] = p[1] + x
          /\ \A k \in 1 .. n : q[k] = p[k]
      BY <1>2, <1>3, <1>4
    <2> HIDE DEF v, q
    <2>3. q[n] = 0
      BY <1>2, <1>3, <2>2
    <2>4. ASSUME NEW k \in 1 .. n PROVE q[k - 1] = v[k] + q[k]
      <3>1. CASE k = 1
        <4>1. k - 1 = 0 /\ q[1] = p[1]
          BY <2>2, <3>1
        <4>2. q[k - 1] = p[1] + x /\ v[k] + q[k] = x + p[1]
          BY <2>1, <2>2, <3>1, <4>1
        <4> QED  BY <1>4, <4>2
      <3>2. CASE k # 1
        <4>1. k \in 2 .. n /\ k - 1 \in 1 .. n
          BY <3>2
        <4>2. q[k - 1] = p[k - 1] /\ q[k] = p[k] /\ v[k] = w[k]
          BY <2>1, <2>2, <4>1
        <4>3. p[k - 1] = w[k] + p[k]
          BY <1>3
        <4> QED  BY <4>2, <4>3
      <3> QED  BY <3>1, <3>2
    <2>5. RunningTotals(v, q)
      BY <2>1, <2>2, <2>3, <2>4 DEF RunningTotals
    <2> QED  BY <2>2, <2>5 DEF SumsTo, v
  <1> QED  BY <1>4, <1>5, <1>6

-----------------------------------------------------------------------------
(***************************************************************************)
(* What coins and messages carry of one denom.                             *)
(***************************************************************************)
AmountOf(coin, d) == IF coin.denom = d THEN coin.amount ELSE 0
Amounts(coins, d) == [k \in 1 .. Len(coins) |-> AmountOf(coins[k], d)]
Total(coins, d, t) == SumsTo(Amounts(coins, d), t)

\* A coin counts for a number, which is 0 in other denoms.
LEMMA AmountType ==
    ASSUME NEW coin \in Coin, NEW d PROVE AmountOf(coin, d) \in Nat
  BY PricingAssumption DEF AmountOf, Coin, Uint128

\* One number for each coin.
LEMMA AmountsType ==
    ASSUME NEW coins \in Seq(Coin), NEW d
    PROVE  Amounts(coins, d) \in Seq(Nat) /\ Len(Amounts(coins, d)) = Len(coins)
  <1>1. Len(coins) \in Nat /\ \A k \in 1 .. Len(coins) : AmountOf(coins[k], d) \in Nat
    BY AmountType
  <1> QED  BY <1>1 DEF Amounts

\* No coins are worth nothing.
LEMMA NoCoins ==
    ASSUME NEW d PROVE Total(<< >>, d, 0)
  <1>1. Amounts(<< >>, d) = << >>
    BY DEF Amounts
  <1>2. << >> \in Seq(Nat) /\ \A k \in DOMAIN << >> : << >>[k] = 0
    OBVIOUS
  <1>3. SumsTo(<< >>, 0)
    BY <1>2, SumOfZeros
  <1> QED  BY <1>1, <1>3 DEF Total

\* A coin more adds its amount to the total.
LEMMA OneMoreCoin ==
    ASSUME NEW coins \in Seq(Coin), NEW coin \in Coin, NEW d, NEW t, Total(coins, d, t)
    PROVE  Total(Append(coins, coin), d, t + AmountOf(coin, d))
  <1>1. Amounts(coins, d) \in Seq(Nat) /\ AmountOf(coin, d) \in Nat
    BY AmountsType, AmountType
  <1>2. Amounts(Append(coins, coin), d) = Append(Amounts(coins, d), AmountOf(coin, d))
    <2> DEFINE more == Append(coins, coin)
    <2>1. /\ Len(more) = Len(coins) + 1 /\ Len(coins) \in Nat
          /\ more[Len(coins) + 1] = coin
          /\ \A k \in 1 .. Len(coins) : more[k] = coins[k]
      BY AppendProperties
    <2> HIDE DEF more
    <2>2. Amounts(more, d) = Append(Amounts(coins, d), AmountOf(coin, d))
      BY <2>1 DEF Amounts
    <2> QED  BY <2>2 DEF more
  <1> QED  BY <1>1, <1>2, SumOfAppend DEF Total

\* A coin that is charged or sent takes its amount from the total.
LEMMA OneCoinLess ==
    ASSUME NEW coins \in Seq(Coin), coins # << >>, NEW d, NEW t, Total(coins, d, t)
    PROVE  /\ t \in Nat /\ t - AmountOf(Head(coins), d) \in Nat
           /\ Total(Tail(coins), d, t - AmountOf(Head(coins), d))
  <1>1. /\ Amounts(coins, d) \in Seq(Nat) /\ Len(coins) \in Nat /\ Len(coins) > 0
        /\ Len(Amounts(coins, d)) = Len(coins)
    BY AmountsType
  <1>2. Amounts(coins, d) # << >> /\ Amounts(coins, d)[1] = AmountOf(Head(coins), d)
    <2>1. Head(coins) = coins[1]
      OBVIOUS
    <2> QED  BY <1>1, <2>1 DEF Amounts
  <1>3. Amounts(Tail(coins), d) = Tail(Amounts(coins, d))
    <2> DEFINE rest == Tail(coins)
    <2>1. /\ Len(rest) = Len(coins) - 1
          /\ \A k \in 1 .. Len(coins) - 1 : rest[k] = coins[k + 1]
      BY <1>1
    <2> HIDE DEF rest
    <2>2. Amounts(rest, d) = Tail(Amounts(coins, d))
      BY <1>1, <2>1 DEF Amounts
    <2> QED  BY <2>2 DEF rest
  <1>4. SumsTo(Amounts(coins, d), t)
    BY DEF Total
  <1> QED  BY <1>1, <1>2, <1>3, <1>4, SumOfTail, SumType DEF Total

\* Of an outgoing message, what counts is what left under a limit: the coins
\* that the classification sees in it.
Carries(o, d, t) ==
    IF o.origin = "limit" THEN Total(MsgFunds(o.msg), d, t) ELSE t = 0

\* What the messages of q carry is at each place of w, and t altogether.
CarryEach(q, d, w) ==
    /\ w \in Seq(Nat) /\ Len(w) = Len(q)
    /\ \A k \in 1 .. Len(q) : Carries(q[k], d, w[k])
CarryAll(q, d, t) == \E w : CarryEach(q, d, w) /\ SumsTo(w, t)

\* What is not under a limit carries nothing that had to be charged.
LEMMA CarryNothing ==
    ASSUME NEW q \in Seq(Outgoing), NEW d, \A k \in DOMAIN q : q[k].origin # "limit"
    PROVE  CarryAll(q, d, 0)
  <1> DEFINE w == [k \in 1 .. Len(q) |-> 0]
  <1>1. /\ Len(q) \in Nat /\ DOMAIN q = 1 .. Len(q)
        /\ w \in Seq(Nat) /\ Len(w) = Len(q) /\ \A k \in DOMAIN w : w[k] = 0
    OBVIOUS
  <1>2. \A k \in 1 .. Len(q) : w[k] = 0
    OBVIOUS
  <1> HIDE DEF w
  <1>3. CarryEach(q, d, w) /\ SumsTo(w, 0)
    BY <1>1, <1>2, SumOfZeros DEF CarryEach, Carries
  <1> QED  BY <1>3 DEF CarryAll

\* What a handler returns is added to what is waiting.
LEMMA CarryConcat ==
    ASSUME NEW p \in Seq(Outgoing), NEW q \in Seq(Outgoing), NEW d, NEW s, NEW t,
           CarryAll(p, d, s), CarryAll(q, d, t)
    PROVE  CarryAll(p \o q, d, s + t)
  <1>1. PICK v : CarryEach(p, d, v) /\ SumsTo(v, s)
    BY DEF CarryAll
  <1>2. PICK w : CarryEach(q, d, w) /\ SumsTo(w, t)
    BY DEF CarryAll
  <1>3. v \in Seq(Nat) /\ w \in Seq(Nat) /\ Len(v) = Len(p) /\ Len(w) = Len(q)
    BY <1>1, <1>2 DEF CarryEach
  <1>4. SumsTo(v \o w, s + t)
    BY <1>1, <1>2, <1>3, SumOfConcat
  <1>5. PICK m \in Nat, n \in Nat : m = Len(p) /\ n = Len(q)
    OBVIOUS
  <1>6. ASSUME NEW k \in 1 .. m + n PROVE Carries((p \o q)[k], d, (v \o w)[k])
    <2>1. CASE k \in 1 .. m
      <3>1. (p \o q)[k] = p[k] /\ (v \o w)[k] = v[k]
        BY <1>3, <1>5, <2>1
      <3> QED  BY <1>1, <1>5, <2>1, <3>1 DEF CarryEach
    <2>2. CASE k \notin 1 .. m
      <3>1. /\ k - m \in 1 .. n
            /\ (p \o q)[k] = q[k - m] /\ (v \o w)[k] = w[k - m]
        BY <1>3, <1>5, <2>2
      <3> QED  BY <1>2, <1>5, <3>1 DEF CarryEach
    <2> QED  BY <2>1, <2>2
  <1>7. v \o w \in Seq(Nat) /\ Len(v \o w) = m + n /\ Len(p \o q) = m + n
    <2>1. v \o w \in Seq(Nat) /\ Len(v \o w) = Len(v) + Len(w)
      BY <1>3, ConcatProperties
    <2>2. Len(p \o q) = m + n
      BY <1>5, ConcatProperties
    <2> QED  BY <1>3, <1>5, <2>1, <2>2
  <1>8. CarryEach(p \o q, d, v \o w)
    BY <1>6, <1>7 DEF CarryEach
  <1> QED  BY <1>4, <1>8 DEF CarryAll

\* A message that is passed adds its coins.
LEMMA CarryAppend ==
    ASSUME NEW q \in Seq(Outgoing), NEW o \in Outgoing, NEW d, NEW t, NEW x \in Nat,
           CarryAll(q, d, t), Carries(o, d, x)
    PROVE  CarryAll(Append(q, o), d, t + x)
  <1>1. PICK w : CarryEach(q, d, w) /\ SumsTo(w, t)
    BY DEF CarryAll
  <1>2. PICK m \in Nat : m = Len(q)
    OBVIOUS
  <1>3. w \in Seq(Nat) /\ Len(w) = m /\ \A k \in 1 .. m : Carries(q[k], d, w[k])
    BY <1>1, <1>2 DEF CarryEach
  <1> DEFINE p == Append(q, o)
             v == Append(w, x)
  <1>4. /\ Len(p) = m + 1 /\ p[m + 1] = o /\ \A k \in 1 .. m : p[k] = q[k]
        /\ Len(v) = m + 1 /\ v[m + 1] = x /\ \A k \in 1 .. m : v[k] = w[k]
        /\ v \in Seq(Nat)
    BY <1>2, <1>3, AppendProperties
  <1>5. SumsTo(v, t + x)
    BY <1>1, <1>3, SumOfAppend
  <1> HIDE DEF p, v
  <1>6. \A k \in 1 .. m + 1 : k = m + 1 \/ k \in 1 .. m
    OBVIOUS
  <1>7. CarryEach(p, d, v)
    BY <1>3, <1>4, <1>6 DEF CarryEach
  <1> QED  BY <1>5, <1>7 DEF CarryAll, p

\* A message that is done leaves no more than there was.
LEMMA CarryTail ==
    ASSUME NEW q \in Seq(Outgoing), q # << >>, NEW d, NEW t, CarryAll(q, d, t)
    PROVE  \E s \in Nat : s <= t /\ CarryAll(Tail(q), d, s)
  <1>1. PICK w : CarryEach(q, d, w) /\ SumsTo(w, t)
    BY DEF CarryAll
  <1>2. PICK m \in Nat : m = Len(q) /\ m > 0
    OBVIOUS
  <1>3. /\ w \in Seq(Nat) /\ w # << >> /\ Len(w) = m
        /\ \A k \in 1 .. m : Carries(q[k], d, w[k])
    BY <1>1, <1>2 DEF CarryEach
  <1> DEFINE p == Tail(q)
             v == Tail(w)
  <1>4. /\ Len(p) = m - 1 /\ \A k \in 1 .. m - 1 : p[k] = q[k + 1]
        /\ Len(v) = m - 1 /\ \A k \in 1 .. m - 1 : v[k] = w[k + 1]
        /\ v \in Seq(Nat)
    BY <1>2, <1>3
  <1>5. t - w[1] \in Nat /\ w[1] \in Nat /\ t \in Nat /\ SumsTo(v, t - w[1])
    BY <1>1, <1>3, SumOfTail, SumType
  <1> HIDE DEF p, v
  <1>6. \A k \in 1 .. m - 1 : k + 1 \in 1 .. m
    BY <1>2
  <1>7. CarryEach(p, d, v)
    BY <1>3, <1>4, <1>6 DEF CarryEach
  <1>8. CarryAll(p, d, t - w[1])
    BY <1>5, <1>7 DEF CarryAll
  <1> QED  BY <1>5, <1>8 DEF p

\* The classification sees the coins of a message in their order.
LEMMA FirstCoinSeen ==
    ASSUME NEW m \in Message, m.funds # << >>, NEW n, n = [m EXCEPT !.funds = Tail(@)]
    PROVE  /\ MsgFunds(m) # << >> /\ Head(MsgFunds(m)) = Head(m.funds)
           /\ MsgFunds(n) = Tail(MsgFunds(m))
  <1>1. /\ m.funds \in Seq(Coin) /\ n.funds = Tail(m.funds) /\ n.kind = m.kind
        /\ n.call = m.call /\ n.to = m.to /\ n.amount = m.amount
    BY DEF Message
  <1> DEFINE coin == [denom |-> m.to, amount |-> m.amount]
  <1>2. coin \in Coin
    BY ObiProxyAssumption DEF Message, Coin
  <1>3. /\ Append(m.funds, coin) # << >> /\ Head(Append(m.funds, coin)) = Head(m.funds)
        /\ Append(Tail(m.funds), coin) = Tail(Append(m.funds, coin))
    BY <1>1, <1>2
  <1> QED  BY <1>1, <1>3 DEF MsgFunds

\* The first message loses its first coin.
LEMMA CarrySent ==
    ASSUME NEW q \in Seq(Outgoing), q # << >>, q[1].msg.funds # << >>, NEW d, NEW t,
           CarryAll(q, d, t), NEW p, p = [q EXCEPT ![1].msg.funds = Tail(@)]
    PROVE  LET sent == IF q[1].origin = "limit" THEN AmountOf(Head(q[1].msg.funds), d) ELSE 0
           IN  t - sent \in Nat /\ sent \in Nat /\ CarryAll(p, d, t - sent)
  <1>1. PICK w : CarryEach(q, d, w) /\ SumsTo(w, t)
    BY DEF CarryAll
  <1>2. PICK m \in Nat : m = Len(q) /\ m > 0
    OBVIOUS
  <1>3. /\ w \in Seq(Nat) /\ w # << >> /\ Len(w) = m
        /\ \A k \in 1 .. m : Carries(q[k], d, w[k])
    BY <1>1, <1>2 DEF CarryEach
  <1>4. /\ t \in Nat /\ t - w[1] \in Nat /\ w[1] \in Nat
        /\ \A x \in Nat : SumsTo([w EXCEPT ![1] = x], t - w[1] + x)
    BY <1>1, <1>3, SumOfTail, SumType
  <1>5. /\ q[1] \in Outgoing /\ q[1].msg \in Message /\ 1 \in 1 .. m
        /\ q[1].msg.funds \in Seq(Coin) /\ Carries(q[1], d, w[1])
    <2>1. 1 \in 1 .. m /\ 1 \in DOMAIN q /\ q[1] \in Outgoing
      BY <1>2
    <2>2. q[1].msg \in Message
      BY <2>1 DEF Outgoing
    <2>3. q[1].msg.funds \in Seq(Coin)
      BY <2>2 DEF Message
    <2> QED  BY <1>3, <2>1, <2>2, <2>3
  <1>6. /\ Len(p) = m /\ \A k \in 2 .. m : p[k] = q[k]
        /\ p[1].origin = q[1].origin
        /\ p[1].msg = [q[1].msg EXCEPT !.funds = Tail(@)]
    <2>1. 1 \in DOMAIN q /\ q[1] \in Outgoing
      BY <1>2, <1>5
    <2>2. p[1].origin = q[1].origin /\ p[1].msg = [q[1].msg EXCEPT !.funds = Tail(@)]
      BY <2>1 DEF Outgoing
    <2> QED  BY <1>2, <2>2
  <1> DEFINE sent == IF q[1].origin = "limit" THEN AmountOf(Head(q[1].msg.funds), d) ELSE 0
  <1>7. w[1] - sent \in Nat /\ sent \in Nat /\ Carries(p[1], d, w[1] - sent)
    <2>1. CASE q[1].origin = "limit"
      <3>1. /\ MsgFunds(q[1].msg) # << >> /\ MsgFunds(q[1].msg) \in Seq(Coin)
            /\ Head(MsgFunds(q[1].msg)) = Head(q[1].msg.funds)
            /\ MsgFunds(p[1].msg) = Tail(MsgFunds(q[1].msg))
        BY <1>5, <1>6, FirstCoinSeen, MsgFundsType
      <3>2. Total(MsgFunds(q[1].msg), d, w[1])
        BY <1>5, <2>1 DEF Carries
      <3>3. w[1] - sent \in Nat /\ Total(MsgFunds(p[1].msg), d, w[1] - sent)
        BY <2>1, <3>1, <3>2, OneCoinLess
      <3>4. sent \in Nat
        BY <1>5, <2>1, AmountType
      <3> QED  BY <1>6, <2>1, <3>3, <3>4 DEF Carries
    <2>2. CASE q[1].origin # "limit"
      BY <1>4, <1>5, <1>6, <2>2 DEF Carries
    <2> QED  BY <2>1, <2>2
  <1> HIDE DEF sent
  <1> DEFINE v == [w EXCEPT ![1] = w[1] - sent]
  <1>8. /\ v \in Seq(Nat) /\ Len(v) = m /\ v[1] = w[1] - sent
        /\ \A k \in 2 .. m : v[k] = w[k]
    BY <1>2, <1>3, <1>7
  <1>9. SumsTo(v, t - sent)
    <2>1. t - w[1] + (w[1] - sent) = t - sent
      BY <1>4, <1>7
    <2> QED  BY <1>4, <1>7, <2>1
  <1> HIDE DEF v
  <1>10. \A k \in 1 .. m : k = 1 \/ k \in 2 .. m
    OBVIOUS
  <1>11. CarryEach(p, d, v)
    BY <1>3, <1>6, <1>7, <1>8, <1>10 DEF CarryEach
  <1>12. t - sent \in Nat /\ CarryAll(p, d, t - sent)
    BY <1>4, <1>7, <1>8, <1>9, <1>11, SumType DEF CarryAll
  <1> QED  BY <1>7, <1>12 DEF sent

-----------------------------------------------------------------------------
(***************************************************************************)
(* What was charged covers what was sent and what is still to be sent: by  *)
(* the messages that wait, by the ones attached to the response, and by    *)
(* the message whose coins are being charged.                              *)
(***************************************************************************)
Passed(d, t) ==
    IF phase = "charge"
    THEN \E done \in Seq(Coin) :
            MsgFunds(Head(call.msgs)) = done \o call.coins /\ Total(done, d, t)
    ELSE t = 0

CoveredBy(d, waiting, attached, passed) ==
    /\ CarryAll(queue, d, waiting)
    /\ CarryAll(call.out, d, attached)
    /\ Passed(d, passed)
    /\ flow.sent[d] + waiting + attached + passed <= flow.charged[d]
Covered(d) == \E waiting, attached, passed \in Nat : CoveredBy(d, waiting, attached, passed)

SpendInv == FeesInv /\ \A d \in Denom : Covered(d)

\* What was sent and charged of a denom are numbers.
LEMMA FlowType ==
    ASSUME TypeOK, NEW d \in Denom
    PROVE  flow.sent[d] \in Nat /\ flow.charged[d] \in Nat
  BY DEF TypeOK

\* Nothing waits where there is no message.
LEMMA NothingCarried ==
    ASSUME NEW d PROVE CarryAll(<< >>, d, 0)
  <1>1. << >> \in Seq(Outgoing) /\ \A k \in DOMAIN << >> : << >>[k].origin # "limit"
    OBVIOUS
  <1> QED  BY <1>1, CarryNothing

\* No handler returns a message under a limit.
LEMMA HandleCovered ==
    ASSUME FeesInv, NEW d \in Denom, Covered(d), NEW s, NEW c \in Calls, NEW rest,
           rest \in Seq(Outgoing), rest = queue \/ (queue # << >> /\ rest = Tail(queue)),
           phase # "charge", Handle(s, c, rest)
    PROVE  Covered(d)'
  <1>1. TypeOK /\ cfg \in State /\ hist \in History /\ queue \in Seq(Outgoing)
    BY DEF FeesInv, TypeOK
  <1>2. PICK waiting \in Nat, attached \in Nat, passed \in Nat :
            CoveredBy(d, waiting, attached, passed)
    BY DEF Covered
  <1>3. PICK left \in Nat : left <= waiting /\ CarryAll(rest, d, left)
    <2>1. CarryAll(queue, d, waiting) /\ waiting <= waiting
      BY <1>2 DEF CoveredBy
    <2>2. CASE rest = queue
      BY <2>1, <2>2
    <2>3. CASE queue # << >> /\ rest = Tail(queue)
      BY <1>1, <2>1, <2>3, CarryTail
    <2> QED  BY <2>2, <2>3
  <1>4. PICK out : Returned(out) /\ queue' = out \o rest
    BY <1>1, HandleOut
  <1>5. CarryAll(out, d, 0) /\ out \in Seq(Outgoing)
    BY <1>4, CarryNothing DEF Returned
  <1>6. CarryAll(queue', d, left)
    <2>1. CarryAll(out \o rest, d, 0 + left)
      BY <1>3, <1>5, CarryConcat
    <2> QED  BY <1>4, <2>1
  <1>7. CarryAll(call'.out, d, 0) /\ phase' # "charge" /\ flow' = flow
    BY <1>1, HandleOut, NothingCarried DEF Handle
  <1>8. flow.sent[d] + left + 0 + 0 <= flow.charged[d]
    BY <1>1, <1>2, <1>3, FlowType DEF CoveredBy
  <1>9. CoveredBy(d, left, 0, 0)'
    BY <1>6, <1>7, <1>8 DEF CoveredBy, Passed
  <1> QED  BY <1>9 DEF Covered

\* One more message is attached to the response, or to none.
LEMMA AttachCovered ==
    ASSUME FeesInv, NEW d \in Denom, NEW o \in Outgoing, NEW waiting \in Nat, NEW attached \in Nat,
           NEW passed \in Nat, CoveredBy(d, waiting, attached, passed),
           NEW x \in Nat, x <= passed, Carries(o, d, x),
           call'.out \in {call.out, Append(call.out, o)},
           phase' = "check", queue' = queue, flow' = flow
    PROVE  Covered(d)'
  <1>1. TypeOK /\ call.out \in Seq(Outgoing)
    BY DEF FeesInv, TypeOK, Running
  <1>2. CarryAll(call.out, d, attached) /\ CarryAll(Append(call.out, o), d, attached + x)
    BY <1>1, CarryAppend DEF CoveredBy
  <1>3. PICK more \in Nat : more <= attached + passed /\ CarryAll(call'.out, d, more)
    <2>1. /\ attached + x \in Nat /\ attached + x <= attached + passed
          /\ attached <= attached + passed
      OBVIOUS
    <2>2. CASE call'.out = call.out
      BY <1>2, <2>1, <2>2
    <2>3. CASE call'.out = Append(call.out, o)
      BY <1>2, <2>1, <2>3
    <2> QED  BY <2>2, <2>3
  <1>4. flow.sent[d] + waiting + more + 0 <= flow.charged[d]
    BY <1>1, <1>3, FlowType DEF CoveredBy
  <1>5. CoveredBy(d, waiting, more, 0)'
    BY <1>3, <1>4 DEF CoveredBy, Passed
  <1> QED  BY <1>5 DEF Covered

\* What a passed message is attached as.
LEMMA PassedMsg ==
    ASSUME TypeOK, call.msgs # << >>, NEW origin \in Origins, NextMsg(origin)
    PROVE  LET o == Out(Head(call.msgs), origin, 0)
           IN  o \in Outgoing /\ call'.out \in {call.out, Append(call.out, o)}
  <1>1. call \in Running /\ Head(call.msgs) \in Message
    BY HeadTailProperties DEF TypeOK, Running
  <1>2. Out(Head(call.msgs), origin, 0) \in Outgoing
    BY <1>1, OutType, ZeroType
  <1> QED  BY <1>1, <1>2 DEF NextMsg, Running

\* A repayment is not under a limit.
LEMMA RepayDebtCovered ==
    ASSUME FeesInv, NEW d \in Denom, Covered(d), RepayDebt PROVE Covered(d)'
  <1>1. TypeOK /\ call.out \in Seq(Outgoing) /\ call \in Running
    BY DEF FeesInv, TypeOK, Running
  <1>2. PICK waiting \in Nat, attached \in Nat, passed \in Nat :
            CoveredBy(d, waiting, attached, passed)
    BY DEF Covered
  <1>3. PICK o \in Outgoing :
            o.origin = "repay" /\ call'.out \in {call.out, Append(call.out, o)}
    <2>1. PICK coin \in RepayCoins(MsgFunds(Head(call.msgs))) :
              call' = IF call.sim THEN call
                      ELSE [call EXCEPT !.out =
                               Append(@, Out(RepayMsg(coin), "repay", cfg.uusd_fee_debt))]
      BY DEF RepayDebt
    <2> DEFINE o == Out(RepayMsg(coin), "repay", cfg.uusd_fee_debt)
    <2>2. o \in Outgoing
      BY <1>1, <2>1, RepayOutType DEF RepayDebt
    <2>3. o.origin = "repay"
      BY DEF Out
    <2> HIDE DEF o
    <2>4. call'.out \in {call.out, Append(call.out, o)}
      BY <1>1, <2>1 DEF Running, o
    <2> QED  BY <2>2, <2>3, <2>4
  <1>4. Carries(o, d, 0)
    BY <1>3 DEF Carries
  <1> QED  BY <1>2, <1>3, <1>4, AttachCovered DEF RepayDebt

\* Neither is what the owner sends in debt.
LEMMA PassOwnerCovered ==
    ASSUME FeesInv, NEW d \in Denom, Covered(d), PassOwner PROVE Covered(d)'
  <1>1. PICK waiting \in Nat, attached \in Nat, passed \in Nat :
            CoveredBy(d, waiting, attached, passed)
    BY DEF Covered
  <1> DEFINE o == Out(Head(call.msgs), "debtor", 0)
  <1>2. o \in Outgoing /\ call'.out \in {call.out, Append(call.out, o)}
    BY PassedMsg DEF PassOwner, FeesInv, Origins
  <1>3. Carries(o, d, 0)
    BY DEF Carries, Out
  <1> HIDE DEF o
  <1> QED  BY <1>1, <1>2, <1>3, AttachCovered DEF PassOwner

\* Of a message whose turn it is nothing has been charged yet.
LEMMA AdmitWalletCovered ==
    ASSUME FeesInv, NEW d \in Denom, Covered(d), AdmitWallet PROVE Covered(d)'
  <1>1. TypeOK /\ call \in Running /\ Head(call.msgs) \in Message
    BY HeadTailProperties DEF FeesInv, TypeOK, Running, AdmitWallet
  <1>2. PICK waiting \in Nat, attached \in Nat, passed \in Nat :
            CoveredBy(d, waiting, attached, passed)
    BY DEF Covered
  <1>3. /\ call'.coins = MsgFunds(Head(call.msgs)) /\ call'.msgs = call.msgs
        /\ call'.out = call.out /\ phase = "check" /\ UNCHANGED <<queue, flow>>
    BY <1>1 DEF AdmitWallet, Running
  <1>4. /\ << >> \in Seq(Coin) /\ Total(<< >>, d, 0)
        /\ MsgFunds(Head(call.msgs)) = << >> \o MsgFunds(Head(call.msgs))
    BY <1>1, MsgFundsType, NoCoins, ConcatProperties
  <1>5. passed = 0
    BY <1>2, <1>3 DEF CoveredBy, Passed
  <1>6. Passed(d, 0)'
    BY <1>3, <1>4 DEF Passed
  <1>7. CoveredBy(d, waiting, attached, 0)'
    BY <1>2, <1>3, <1>5, <1>6 DEF CoveredBy
  <1> QED  BY <1>7 DEF Covered

\* What is charged is the next of the coins of the message.
LEMMA ChargeCoinCovered ==
    ASSUME FeesInv, NEW d \in Denom, Covered(d), ChargeCoin PROVE Covered(d)'
  <1>1. /\ TypeOK /\ call \in Running /\ call.coins # << >> /\ phase = "charge"
        /\ phase' = "charge" /\ queue' = queue
    BY DEF FeesInv, TypeOK, ChargeCoin
  <1>2. PICK waiting \in Nat, attached \in Nat, passed \in Nat :
            CoveredBy(d, waiting, attached, passed)
    BY DEF Covered
  <1>3. PICK done \in Seq(Coin) :
            MsgFunds(Head(call.msgs)) = done \o call.coins /\ Total(done, d, passed)
    BY <1>1, <1>2 DEF CoveredBy, Passed
  <1>4. PICK coin \in Coin : coin = Head(call.coins)
    BY <1>1, HeadTailProperties DEF Running
  <1>5. call'.coins = Tail(call.coins) /\ call'.msgs = call.msgs /\ call'.out = call.out
    BY <1>1 DEF ChargeCoin, Running
  <1>6. PICK x \in Nat : x = AmountOf(coin, d)
    BY AmountType
  <1>7. flow'.charged[d] = flow.charged[d] + x /\ flow'.sent[d] = flow.sent[d]
    <2>1. flow' = [flow EXCEPT !.charged[coin.denom] = @ + coin.amount]
      BY <1>4 DEF ChargeCoin
    <2> QED  BY <1>1, <1>6, <2>1, FlowType DEF AmountOf, TypeOK
  <1>8. Passed(d, passed + x)'
    <2> DEFINE more == Append(done, coin)
    <2>1. more \in Seq(Coin) /\ Total(more, d, passed + x)
      BY <1>3, <1>6, OneMoreCoin, AppendProperties
    <2>2. more \o Tail(call.coins) = done \o call.coins
      <3>1. PICK w \in Seq(Coin) : w = call.coins /\ w # << >>
        BY <1>1 DEF Running
      <3>2. <<coin>> \in Seq(Coin) /\ Tail(w) \in Seq(Coin) /\ w = <<coin>> \o Tail(w)
        BY <1>4, <3>1
      <3>3. more = done \o <<coin>>
        BY AppendIsConcat
      <3> HIDE DEF more
      <3>4. more \o Tail(w) = done \o w
        BY <3>2, <3>3, ConcatAssociative
      <3> QED  BY <3>1, <3>4
    <2> HIDE DEF more
    <2> QED  BY <1>1, <1>3, <1>5, <2>1, <2>2 DEF Passed
  <1>9. flow'.sent[d] + waiting + attached + (passed + x) <= flow'.charged[d]
    <2>1. flow.sent[d] + waiting + attached + passed <= flow.charged[d]
      BY <1>2 DEF CoveredBy
    <2>2. PICK m \in Nat, n \in Nat : m = flow.sent[d] /\ n = flow.charged[d]
      BY <1>1, FlowType
    <2>3. m + waiting + attached + passed <= n
      BY <2>1, <2>2
    <2>4. m + waiting + attached + (passed + x) = (m + waiting + attached + passed) + x
      OBVIOUS
    <2>5. (m + waiting + attached + passed) + x <= n + x
      BY <2>3
    <2> QED  BY <1>7, <2>2, <2>4, <2>5
  <1>10. CoveredBy(d, waiting, attached, passed + x)'
    BY <1>1, <1>2, <1>5, <1>8, <1>9 DEF CoveredBy
  <1> QED  BY <1>10 DEF Covered

\* A message is passed on when all of its coins have been charged.
LEMMA PassWalletCovered ==
    ASSUME FeesInv, NEW d \in Denom, Covered(d), PassWallet PROVE Covered(d)'
  <1>1. TypeOK /\ call.msgs # << >> /\ phase = "charge" /\ call.coins = << >>
    BY DEF FeesInv, TypeOK, PassWallet
  <1>2. PICK waiting \in Nat, attached \in Nat, passed \in Nat :
            CoveredBy(d, waiting, attached, passed)
    BY DEF Covered
  <1> DEFINE o == Out(Head(call.msgs), "limit", 0)
  <1>3. o \in Outgoing /\ call'.out \in {call.out, Append(call.out, o)}
    BY <1>1, PassedMsg DEF PassWallet, Origins
  <1>4. Carries(o, d, passed)
    <2>1. PICK done \in Seq(Coin) :
              MsgFunds(Head(call.msgs)) = done \o << >> /\ Total(done, d, passed)
      BY <1>1, <1>2 DEF CoveredBy, Passed
    <2>2. MsgFunds(Head(call.msgs)) = done
      BY <2>1, ConcatProperties
    <2> QED  BY <2>1, <2>2 DEF Carries, Out
  <1> HIDE DEF o
  <1>5. passed <= passed /\ phase' = "check" /\ queue' = queue /\ flow' = flow
    BY DEF PassWallet
  <1> QED  BY <1>2, <1>3, <1>4, <1>5, AttachCovered

\* What was attached goes before what waits.
LEMMA EndExecuteCovered ==
    ASSUME FeesInv, NEW d \in Denom, Covered(d), EndExecute PROVE Covered(d)'
  <1>1. TypeOK /\ call.out \in Seq(Outgoing) /\ queue \in Seq(Outgoing)
    BY DEF FeesInv, TypeOK, Running
  <1>2. PICK waiting \in Nat, attached \in Nat, passed \in Nat :
            CoveredBy(d, waiting, attached, passed)
    BY DEF Covered
  <1>3. CarryAll(queue', d, attached + waiting)
    BY <1>1, <1>2, CarryConcat DEF CoveredBy, EndExecute, Return
  <1>4. CarryAll(call'.out, d, 0) /\ phase' = "dispatch" /\ flow' = flow
    BY NothingCarried DEF EndExecute, Return, NotRunning
  <1>5. flow.sent[d] + (attached + waiting) + 0 + 0 <= flow.charged[d]
    BY <1>1, <1>2, FlowType DEF CoveredBy
  <1>6. CoveredBy(d, attached + waiting, 0, 0)'
    BY <1>3, <1>4, <1>5 DEF CoveredBy, Passed
  <1> QED  BY <1>6 DEF Covered

\* A coin that leaves is one that waited.
LEMMA SendCoinCovered ==
    ASSUME FeesInv, NEW d \in Denom, Covered(d), SendCoin PROVE Covered(d)'
  <1>1. /\ TypeOK /\ queue \in Seq(Outgoing) /\ queue # << >> /\ Head(queue) = queue[1]
        /\ NextOut = queue[1].msg /\ NextOut \in Message /\ NextOut.funds # << >>
    BY NextOutType DEF FeesInv, TypeOK, SendCoin, NextOut, Dispatching
  <1>2. PICK waiting \in Nat, attached \in Nat, passed \in Nat :
            CoveredBy(d, waiting, attached, passed)
    BY DEF Covered
  <1>3. UNCHANGED <<phase, call>> /\ phase # "charge"
    BY DEF SendCoin, Dispatching
  <1>4. PICK coin \in Coin : coin = Head(NextOut.funds)
    BY <1>1, HeadTailProperties DEF Message
  <1>5. PICK sent :
            sent = IF queue[1].origin = "limit" THEN AmountOf(coin, d) ELSE 0
    OBVIOUS
  <1>6. sent \in Nat /\ waiting - sent \in Nat /\ CarryAll(queue', d, waiting - sent)
    <2>1. queue' = [queue EXCEPT ![1].msg.funds = Tail(@)]
      BY DEF SendCoin
    <2> QED  BY <1>1, <1>2, <1>4, <1>5, <2>1, CarrySent DEF CoveredBy
  <1>7. flow'.sent[d] = flow.sent[d] + sent /\ flow'.charged = flow.charged
    <2>1. flow' = IF queue[1].origin = "limit"
                  THEN [flow EXCEPT !.sent[coin.denom] = @ + coin.amount] ELSE flow
      BY <1>1, <1>4 DEF SendCoin
    <2> QED  BY <1>1, <1>5, <2>1, FlowType DEF AmountOf, TypeOK
  <1>8. flow'.sent[d] + (waiting - sent) + attached + passed <= flow'.charged[d]
    BY <1>1, <1>2, <1>6, <1>7, FlowType DEF CoveredBy
  <1>9. CoveredBy(d, waiting - sent, attached, passed)'
    BY <1>2, <1>3, <1>6, <1>8 DEF CoveredBy, Passed
  <1> QED  BY <1>6, <1>9 DEF Covered

\* A message is done when its coins are sent.
LEMMA FinishMsgCovered ==
    ASSUME FeesInv, NEW d \in Denom, Covered(d), FinishMsg PROVE Covered(d)'
  <1>1. TypeOK /\ queue \in Seq(Outgoing) /\ queue # << >> /\ phase # "charge"
    BY DEF FeesInv, TypeOK, FinishMsg, Sent, Dispatching
  <1>2. PICK waiting \in Nat, attached \in Nat, passed \in Nat :
            CoveredBy(d, waiting, attached, passed)
    BY DEF Covered
  <1>3. PICK left \in Nat : left <= waiting /\ CarryAll(Tail(queue), d, left)
    BY <1>1, <1>2, CarryTail DEF CoveredBy
  <1>4. queue' = Tail(queue) /\ UNCHANGED <<phase, call, flow>>
    BY DEF FinishMsg
  <1>5. flow.sent[d] + left + attached + passed <= flow.charged[d]
    BY <1>1, <1>2, <1>3, FlowType DEF CoveredBy
  <1>6. CoveredBy(d, left, attached, passed)'
    BY <1>1, <1>2, <1>3, <1>4, <1>5 DEF CoveredBy, Passed
  <1> QED  BY <1>6 DEF Covered

\* Every step keeps the coins on their way covered.
LEMMA NextSpend == SpendInv /\ [Next]_vars => SpendInv'
  <1> SUFFICES ASSUME SpendInv, [Next]_vars, NEW d \in Denom PROVE Covered(d)'
    BY NextFees DEF SpendInv
  <1>1. /\ FeesInv /\ Covered(d) /\ TypeOK /\ queue \in Seq(Outgoing) /\ FeesInv'
    BY NextFees DEF SpendInv, FeesInv, TypeOK
  <1>2. ASSUME NEW s, NEW c \in Calls, Submit(s, c) PROVE Covered(d)'
    <2>1. queue = << >> /\ phase # "charge" /\ Handle(s, c, queue)
      BY <1>1, <1>2 DEF Submit, FeesInv
    <2> QED  BY <1>1, <2>1, HandleCovered
  <1>3. ASSUME NEW s, NEW c \in Calls, CallBack(s, c) PROVE Covered(d)'
    BY <1>1, <1>3, HandleCovered DEF CallBack, Sent, Dispatching
  <1>4. CASE CallSelf
    <2>1. /\ NextOut.inner \in Calls /\ Tail(queue) \in Seq(Outgoing)
          /\ queue # << >> /\ phase # "charge" /\ Handle(Proxy, NextOut.inner, Tail(queue))
      BY <1>1, <1>4, NextOutType DEF CallSelf, Sent, Message, Dispatching
    <2> QED  BY <1>1, <2>1, HandleCovered
  <1>5. CASE RepayDebt \/ PassOwner \/ AdmitWallet
    BY <1>1, <1>5, RepayDebtCovered, PassOwnerCovered, AdmitWalletCovered
  <1>6. CASE ChargeCoin \/ PassWallet \/ EndExecute
    BY <1>1, <1>6, ChargeCoinCovered, PassWalletCovered, EndExecuteCovered
  <1>7. CASE SendCoin \/ FinishMsg
    BY <1>1, <1>7, SendCoinCovered, FinishMsgCovered
  <1>8. CASE Commit \/ Abort
    <2>1. flow' = NoFlow /\ queue' = << >> /\ call'.out = << >> /\ phase' = "idle"
      BY <1>1, <1>8 DEF Commit, Abort, FeesInv, NotRunning
    <2>2. flow'.sent[d] = 0 /\ flow'.charged[d] = 0
      BY <2>1 DEF NoFlow
    <2>3. CoveredBy(d, 0, 0, 0)'
      BY <2>1, <2>2, NothingCarried DEF CoveredBy, Passed
    <2> QED  BY <2>3 DEF Covered
  <1>9. CASE Trade \/ Tick \/ UNCHANGED vars
    <2>1. UNCHANGED <<queue, call, phase, flow>>
      BY <1>9 DEF Trade, Tick, vars
    <2> QED  BY <1>1, <2>1 DEF Covered, CoveredBy, Passed
  <1> QED
    BY <1>2, <1>3, <1>4, <1>5, <1>6, <1>7, <1>8, <1>9 DEF Next

\* Whatever a transaction nests, no coin leaves under a spend limit that was
\* not charged to one before: what has been charged covers what was sent, what
\* the waiting and the attached messages carry, and the coins of the message
\* in hand that have been counted.  (process_and_get_msg_type against what the
\* bank sends.)
THEOREM SpendingWasCharged == Spec => []SentWasCharged
  <1>1. Init => SpendInv
    <2> SUFFICES ASSUME Init PROVE SpendInv
      OBVIOUS
    <2>1. FeesInv
      BY InitFees
    <2>2. ASSUME NEW d \in Denom PROVE Covered(d)
      <3>1. flow.sent[d] = 0 /\ flow.charged[d] = 0
        BY DEF Init, NoFlow
      <3>2. queue = << >> /\ call.out = << >> /\ phase = "idle"
        BY DEF Init, NotRunning
      <3>3. CoveredBy(d, 0, 0, 0)
        BY <3>1, <3>2, NothingCarried DEF CoveredBy, Passed
      <3> QED  BY <3>3 DEF Covered
    <2> QED  BY <2>1, <2>2 DEF SpendInv
  <1>2. SpendInv => SentWasCharged
    <2> SUFFICES ASSUME SpendInv, NEW d \in Denom PROVE flow.sent[d] <= flow.charged[d]
      BY DEF SentWasCharged
    <2>1. PICK waiting \in Nat, attached \in Nat, passed \in Nat :
              flow.sent[d] + waiting + attached + passed <= flow.charged[d]
      BY DEF SpendInv, Covered, CoveredBy
    <2>2. TypeOK
      BY DEF SpendInv, FeesInv
    <2> QED  BY <2>1, <2>2, FlowType
  <1> QED  BY <1>1, <1>2, NextSpend, PTL DEF Spec
=============================================================================
