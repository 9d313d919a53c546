--------------------------- MODULE Calendar_proofs ---------------------------
(***************************************************************************)
(* A monthly limit comes back on the dot, for every period, every limit    *)
(* and months of every length.                                             *)
(***************************************************************************)
EXTENDS Calendar, HotWallets_proofs, SequenceTheorems

MonthlyWallet ==
    [address : {Address}, current_period_reset : Nat,
     period_type : {"MONTHS"}, period_multiple : MultipleRange, usdc_denom : BOOLEAN,
     spend_limits : Seq(CoinLimit({LimitDenom}))]

\* The epoch does not move past a reset that is to come.
CalendarInv ==
    /\ wallet \in MonthlyWallet /\ wallet.spend_limits # << >>
    /\ now \in Nat
    /\ opened \subseteq Int
    /\ OnTheDot

\* The numbers of a monthly wallet.
LEMMA MonthlyFields ==
    ASSUME NEW w \in MonthlyWallet
    PROVE  /\ w.current_period_reset \in Nat /\ w.period_multiple \in Nat
           /\ w.spend_limits # << >> =>
                 /\ w.spend_limits[1].amount \in LimitAmount
                 /\ w.spend_limits[1].limit_remaining \in LimitAmount
  <1>1. w.period_multiple \in MultipleRange /\ MaxU16 \in Nat
    BY DEF MonthlyWallet, MaxU16
  <1>2. w.period_multiple \in Nat
    BY <1>1 DEF MultipleRange
  <1>3. ASSUME w.spend_limits # << >> PROVE w.spend_limits[1] \in CoinLimit({LimitDenom})
    <2>1. w.spend_limits \in Seq(CoinLimit({LimitDenom})) /\ 1 \in DOMAIN w.spend_limits
      BY <1>3 DEF MonthlyWallet
    <2> QED  BY <2>1
  <1> QED  BY <1>2, <1>3 DEF MonthlyWallet, CoinLimit

\* What becomes of the amount that is left is nothing to the calendar.
LEMMA LimitReplaced ==
    ASSUME NEW w \in MonthlyWallet, w.spend_limits # << >>, NEW left \in LimitAmount
    PROVE  /\ [w.spend_limits EXCEPT ![1].limit_remaining = left]
                 \in Seq(CoinLimit({LimitDenom}))
           /\ [w.spend_limits EXCEPT ![1].limit_remaining = left] # << >>
  <1>1. w.spend_limits \in Seq(CoinLimit({LimitDenom})) /\ 1 \in DOMAIN w.spend_limits
    BY DEF MonthlyWallet
  <1>2. w.spend_limits[1] \in CoinLimit({LimitDenom})
    BY <1>1
  <1> QED  BY <1>1, <1>2 DEF CoinLimit

\* A reset of a monthly wallet.
LEMMA ResetMonthly ==
    ASSUME NEW w \in MonthlyWallet, NEW t \in Nat, NEW v \in ResetPeriod(w, t)
    PROVE  /\ v \in MonthlyWallet /\ v.period_multiple = w.period_multiple
           /\ v.spend_limits # << >>
           /\ v.current_period_reset =
                  (t \div SecondsPerMonth + w.period_multiple) * SecondsPerMonth
  <1>1. w.spend_limits # << >> /\ w.spend_limits[1].amount \in LimitAmount
    BY MonthlyFields DEF ResetPeriod
  <1>2. PICK next \in NextReset(w, t) :
            v = [w EXCEPT !.current_period_reset = next,
                          !.spend_limits[1].limit_remaining = w.spend_limits[1].amount]
    BY <1>1 DEF ResetPeriod
  <1> DEFINE limits == [w.spend_limits EXCEPT
                           ![1].limit_remaining = w.spend_limits[1].amount]
  <1>3. limits \in Seq(CoinLimit({LimitDenom})) /\ limits # << >>
    BY <1>1, LimitReplaced
  <1>4. v = [w EXCEPT !.current_period_reset = next, !.spend_limits = limits]
    BY <1>2
  <1> HIDE DEF limits
  <1>5. w.period_multiple \in Nat
    BY MonthlyFields
  <1>6. next = (t \div SecondsPerMonth + w.period_multiple) * SecondsPerMonth
    BY <1>5, NextMonth DEF NextReset, MonthlyWallet
  <1>7. next \in Nat
    <2>1. t \div SecondsPerMonth \in Nat /\ SecondsPerMonth \in Nat
      BY Division, HotWalletsAssumption
    <2> QED  BY <1>5, <1>6, <2>1
  <1> QED  BY <1>3, <1>4, <1>6, <1>7 DEF MonthlyWallet

\* A charge of a monthly wallet.
LEMMA ReduceMonthly ==
    ASSUME NEW w \in MonthlyWallet, NEW usd \in Nat, NEW v \in ReduceLimit(w, usd)
    PROVE  /\ v \in MonthlyWallet /\ v.period_multiple = w.period_multiple
           /\ v.spend_limits # << >>
           /\ v.current_period_reset = w.current_period_reset
  <1> DEFINE left == w.spend_limits[1].limit_remaining - (usd % U64)
  <1>1. /\ w.spend_limits # << >> /\ ~(usd % U64 > w.spend_limits[1].limit_remaining)
        /\ w.spend_limits[1].limit_remaining \in LimitAmount
    BY MonthlyFields DEF ReduceLimit
  <1>2. usd % U64 \in Nat
    BY HotWalletsAssumption
  <1>3. left \in LimitAmount
    BY <1>1, <1>2, HotWalletsAssumption DEF LimitAmount
  <1> HIDE DEF left
  <1> DEFINE limits == [w.spend_limits EXCEPT ![1].limit_remaining = left]
  <1>4. limits \in Seq(CoinLimit({LimitDenom})) /\ limits # << >>
    BY <1>1, <1>3, LimitReplaced
  <1>5. v = [w EXCEPT !.spend_limits = limits]
    BY <1>1 DEF ReduceLimit, left
  <1> HIDE DEF limits
  <1> QED  BY <1>4, <1>5 DEF MonthlyWallet

\* Only a spend and the epoch concern the wallet.
LEMMA NextCalendar == CalendarInv /\ [Next]_vars => CalendarInv'
  <1> SUFFICES ASSUME CalendarInv, [Next]_vars PROVE CalendarInv'
    OBVIOUS
  <1>0. /\ wallet \in MonthlyWallet /\ now \in Nat /\ wallet.current_period_reset \in Nat
        /\ wallet.period_multiple \in Nat /\ wallet.spend_limits # << >>
    BY MonthlyFields DEF CalendarInv
  <1>1. ASSUME NEW usd \in 1 .. Amount, Spend(usd) PROVE CalendarInv'
    <2>1. PICK w \in Renewed : wallet' \in ReduceLimit(w, usd)
      BY <1>1 DEF Spend
    <2>2. usd \in Nat /\ now' = now
      BY <1>1, CalendarAssumption DEF Spend
    <2>3. CASE ShouldReset(wallet, now)
      <3>1. /\ w \in MonthlyWallet /\ w.period_multiple = wallet.period_multiple
            /\ w.current_period_reset =
                   (now \div SecondsPerMonth + wallet.period_multiple) * SecondsPerMonth
        BY <1>0, <2>1, <2>3, ResetMonthly DEF Renewed
      <3>2. /\ wallet' \in MonthlyWallet /\ wallet'.period_multiple = wallet.period_multiple
            /\ wallet'.spend_limits # << >>
            /\ wallet'.current_period_reset = w.current_period_reset
        BY <2>1, <2>2, <3>1, ReduceMonthly
      <3>3. opened' = {MonthIndex(now)} /\ MonthIndex(now) \in Int
        BY <1>0, <1>1, <2>3, Division, HotWalletsAssumption DEF Spend, MonthIndex
      <3>4. \A month \in opened' : wallet'.current_period_reset =
                (month + wallet'.period_multiple) * SecondsPerMonth
        BY <3>1, <3>2, <3>3 DEF MonthIndex
      <3> QED  BY <1>0, <2>2, <3>2, <3>3, <3>4 DEF CalendarInv, OnTheDot
    <2>4. CASE ~ShouldReset(wallet, now)
      <3>1. /\ wallet' \in MonthlyWallet /\ wallet'.period_multiple = wallet.period_multiple
            /\ wallet'.spend_limits # << >>
            /\ wallet'.current_period_reset = wallet.current_period_reset
            /\ opened' = opened
        BY <1>0, <1>1, <2>1, <2>2, <2>4, ReduceMonthly DEF Renewed, Spend
      <3> QED  BY <2>2, <3>1 DEF CalendarInv, OnTheDot
    <2> QED  BY <2>3, <2>4
  <1>2. CASE Pass
    BY <1>2 DEF Pass, CalendarInv, OnTheDot
  <1>3. CASE NewYear
    <2>1. SecondsPerYear \in Nat /\ SecondsPerYear = 12 * SecondsPerMonth
          /\ SecondsPerMonth \in Nat
      BY HotWalletsAssumption DEF SecondsPerYear
    <2>2. now' \in Nat
      BY <1>3, <2>1 DEF NewYear
    <2>3. CASE wallet.current_period_reset < SecondsPerYear
      <3>1. /\ wallet' \in MonthlyWallet /\ opened' = {}
            /\ wallet'.spend_limits # << >>
        BY <1>0, <1>3, <2>3 DEF NewYear, MonthlyWallet
      <3> QED  BY <2>2, <3>1 DEF CalendarInv, OnTheDot
    <2>4. CASE ~(wallet.current_period_reset < SecondsPerYear)
      <3>1. wallet.current_period_reset - SecondsPerYear \in Nat
        BY <1>0, <2>1, <2>4
      <3>2. /\ wallet' = [wallet EXCEPT !.current_period_reset =
                             wallet.current_period_reset - SecondsPerYear]
            /\ opened' = {month - 12 : month \in opened}
        BY <1>3, <2>4 DEF NewYear
      <3>3. /\ wallet' \in MonthlyWallet /\ wallet'.period_multiple = wallet.period_multiple
            /\ wallet'.spend_limits # << >>
            /\ wallet'.current_period_reset = wallet.current_period_reset - SecondsPerYear
        BY <1>0, <3>1, <3>2 DEF MonthlyWallet
      <3>4. opened' \subseteq Int
        BY <3>2 DEF CalendarInv
      <3>5. ASSUME wallet.period_multiple > 0, NEW month \in opened
            PROVE  wallet'.current_period_reset =
                       (month - 12 + wallet'.period_multiple) * SecondsPerMonth
        <4>1. wallet.current_period_reset =
                  (month + wallet.period_multiple) * SecondsPerMonth
          BY <3>5 DEF CalendarInv, OnTheDot
        <4>2. month \in Int
          BY DEF CalendarInv
        <4>3. PICK x \in Int : x = month + wallet.period_multiple
          BY <1>0, <4>2
        <4>4. x - 12 = month - 12 + wallet.period_multiple
          BY <1>0, <4>2, <4>3
        <4>5. x * SecondsPerMonth - 12 * SecondsPerMonth = (x - 12) * SecondsPerMonth
          BY <2>1
        <4> QED  BY <2>1, <3>3, <4>1, <4>3, <4>4, <4>5
      <3>6. wallet.period_multiple > 0 =>
                \A month \in opened' : wallet'.current_period_reset =
                    (month + wallet'.period_multiple) * SecondsPerMonth
        BY <3>2, <3>5
      <3> QED  BY <2>2, <3>3, <3>4, <3>6 DEF CalendarInv, OnTheDot
    <2> QED  BY <2>3, <2>4
  <1>4. CASE UNCHANGED vars
    BY <1>4 DEF vars, CalendarInv, OnTheDot
  <1> QED  BY <1>1, <1>2, <1>3, <1>4 DEF Next, Tick

\* The invariant holds at first.
LEMMA InitCalendar == Init => CalendarInv
  <1> SUFFICES ASSUME Init PROVE CalendarInv
    OBVIOUS
  <1>1. PICK multiple \in Multiples, left \in 0 .. Amount :
            wallet = [address |-> Address, current_period_reset |-> now,
                      period_type |-> "MONTHS", period_multiple |-> multiple,
                      usdc_denom |-> TRUE,
                      spend_limits |-> <<[denom |-> LimitDenom, amount |-> Amount,
                                          limit_remaining |-> left]>>]
    BY DEF Init
  <1>2. SecondsPerYear \in Nat /\ now \in Nat
    BY HotWalletsAssumption DEF SecondsPerYear, Init
  <1>3. Amount \in LimitAmount /\ left \in LimitAmount /\ multiple \in MultipleRange
    BY CalendarAssumption, HotWalletsAssumption DEF LimitAmount
  <1>4. wallet \in MonthlyWallet /\ wallet.spend_limits # << >>
    BY <1>1, <1>2, <1>3 DEF MonthlyWallet, CoinLimit
  <1> QED  BY <1>2, <1>4 DEF Init, CalendarInv, OnTheDot

\* A renewed limit always comes back on the first second of the month that is
\* period_multiple months later, for every period of at least a month that
\* reset_period can deal with.
THEOREM ResetIsOnTheDot == Spec => []OnTheDot
  <1>1. CalendarInv => OnTheDot
    BY DEF CalendarInv
  <1> QED  BY <1>1, InitCalendar, NextCalendar, PTL DEF Spec

-----------------------------------------------------------------------------
(***************************************************************************)
(* The month in which reset_period fails.                                  *)
(***************************************************************************)
\* Months follow each other, also when the epoch moves.
LEMMA MonthsFollow ==
    ASSUME now \in Nat, Tick, Month(now') # Month(now)
    PROVE  Month(now') = IF Month(now) = 12 THEN 1 ELSE Month(now) + 1
  <1>0. SecondsPerMonth \in Nat \ {0}
    BY HotWalletsAssumption
  <1>1. CASE Pass
    <2>1. now' = now + 1
      BY <1>1 DEF Pass
    <2>2. PICK p \in Nat, q \in Nat, r \in 0 .. SecondsPerMonth - 1 :
              /\ p = now \div SecondsPerMonth /\ q = now' \div SecondsPerMonth
              /\ now = SecondsPerMonth * p + r
              /\ p <= q
      <3>1. now' \in Nat /\ now <= now'
        BY <2>1
      <3>2. /\ now \div SecondsPerMonth \in Nat /\ now % SecondsPerMonth \in 0 .. SecondsPerMonth - 1
            /\ now = SecondsPerMonth * (now \div SecondsPerMonth) + (now % SecondsPerMonth)
        BY <1>0, Division
      <3>3. now' \div SecondsPerMonth \in Nat
        BY <1>0, <3>1, Division
      <3>4. now \div SecondsPerMonth <= now' \div SecondsPerMonth
        BY <1>0, <3>1, LaterMonth
      <3> QED  BY <3>2, <3>3, <3>4
    <2>3. ~(p + 1 < q)
      <3>1. /\ now' = SecondsPerMonth * q + (now' % SecondsPerMonth)
            /\ now' % SecondsPerMonth \in Nat /\ SecondsPerMonth * q \in Nat
        BY <1>0, <2>1, <2>2, Division
      <3>2. SecondsPerMonth * (p + 1) = SecondsPerMonth * p + SecondsPerMonth
            /\ SecondsPerMonth * p \in Nat
        BY <1>0
      <3>3. p + 1 < q => SecondsPerMonth * (p + 1) + SecondsPerMonth <= SecondsPerMonth * q
        BY <1>0, Grows
      <3> QED  BY <1>0, <2>1, <2>2, <3>1, <3>2, <3>3
    <2>4. q = p \/ q = p + 1
      BY <2>2, <2>3
    <2>5. Month(now) = (p % 12) + 1 /\ Month(now') = (q % 12) + 1
      BY <2>2 DEF Month
    <2> QED  BY <2>4, <2>5
  <1>2. CASE NewYear
    <2>1. now = SecondsPerMonth * 23 + (SecondsPerMonth - 1)
          /\ now' = SecondsPerMonth * 12 + 0
      BY <1>0, <1>2 DEF NewYear, SecondsPerYear
    <2>2. SecondsPerMonth - 1 \in 0 .. SecondsPerMonth - 1 /\ 0 \in 0 .. SecondsPerMonth - 1
      BY <1>0
    <2>3. now \div SecondsPerMonth = 23 /\ now' \div SecondsPerMonth = 12
      BY <1>0, <2>1, <2>2, OneQuotient
    <2> QED  BY <2>3 DEF Month
  <1> QED  BY <1>1, <1>2 DEF Tick

\* reset_period fails where the sum of months is 1, or 24, 36, ...
LEMMA NoMonth ==
    ASSUME NEW w \in MonthlyWallet, w.spend_limits # << >>,
           w.period_multiple \in MonthsThatFit, NEW t \in Nat, ResetPeriod(w, t) = {}
    PROVE  LET working == Month(t) + w.period_multiple
           IN  working = 1 \/ (working \in 13 .. 268 /\ working % 12 = 0)
  <1>1. w.period_type = "MONTHS" /\ w.period_multiple \in 0 .. 256
    BY DEF MonthlyWallet, MonthsThatFit
  <1>2. NextResetMonths(w, t) = {}
    BY <1>1 DEF ResetPeriod, NextReset
  <1> DEFINE working == Month(t) + w.period_multiple
  <1>3. working \in 1 .. 268
    <2>1. PICK month \in 1 .. 12, multiple \in 0 .. 256 :
              month = Month(t) /\ multiple = w.period_multiple
      BY <1>1, YearAndMonth
    <2>2. month + multiple \in 1 .. 268
      OBVIOUS
    <2> QED  BY <2>1, <2>2
  <1>4. ~(working \in 2 .. 12) /\ ~(working \in 13 .. 268 /\ working % 12 # 0)
    BY <1>2 DEF NextResetMonths
  <1> HIDE DEF working
  <1>5. working = 1 \/ (working \in 13 .. 268 /\ working % 12 = 0)
    BY <1>3, <1>4
  <1> QED  BY <1>5 DEF working

\* reset_period never fails in two months in a row, for every period of up to
\* 256 months.
THEOREM StuckForAMonth == Spec => OneMonthAtMost
  <1>1. ASSUME CalendarInv, CalendarInv', [Next]_vars
        PROVE  wallet.period_multiple \in MonthsThatFit /\ Stuck /\ Month(now') # Month(now)
                   => ~Stuck'
    <2> SUFFICES ASSUME wallet.period_multiple \in MonthsThatFit, Stuck, Stuck',
                        Month(now') # Month(now)
                 PROVE  FALSE
      OBVIOUS
    <2>1. Tick
      BY <1>1 DEF Next, Spend, vars
    <2>2. wallet'.period_multiple = wallet.period_multiple
      BY <1>1, <2>1 DEF Tick, Pass, NewYear, CalendarInv, MonthlyWallet
    <2>3. ResetPeriod(wallet, now) = {} /\ ResetPeriod(wallet', now') = {}
      BY DEF Stuck, Renewed
    <2> DEFINE multiple == wallet.period_multiple
    <2>4. LET working == Month(now) + multiple
          IN  working = 1 \/ (working \in 13 .. 268 /\ working % 12 = 0)
      BY <1>1, <2>3, NoMonth DEF CalendarInv
    <2>5. LET working == Month(now') + multiple
          IN  working = 1 \/ (working \in 13 .. 268 /\ working % 12 = 0)
      BY <1>1, <2>2, <2>3, NoMonth DEF CalendarInv
    <2>6. Month(now') = IF Month(now) = 12 THEN 1 ELSE Month(now) + 1
      BY <1>1, <2>1, MonthsFollow DEF CalendarInv
    <2>7. Month(now) \in 1 .. 12 /\ multiple \in Nat
      BY <1>1, YearAndMonth, MonthlyFields DEF CalendarInv
    <2> HIDE DEF multiple
    <2> QED  BY <2>4, <2>5, <2>6, <2>7
  <1> QED  BY <1>1, InitCalendar, NextCalendar, PTL DEF Spec, OneMonthAtMost
=============================================================================
