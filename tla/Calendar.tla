------------------------------ MODULE Calendar ------------------------------
(***************************************************************************)
(* One hot wallet with a monthly limit, and the clock, which never stops   *)
(* (hot_wallet.rs and check_and_update_spend_limits of state.rs).          *)
(*                                                                         *)
(* The code asks a time for its month, and otherwise only compares times   *)
(* and adds years to them, so the epoch may be moved by whole years.  Here *)
(* `now` is always in the second year: when that is over the epoch moves,  *)
(* and with it every time that is remembered.  A time before the epoch is  *)
(* only known to have passed, and is 0.  So the states of an endless run   *)
(* are finitely many.                                                      *)
(***************************************************************************)
EXTENDS HotWallets

CONSTANTS
    Address,      \* the wallet's address
    LimitDenom,   \* the denom of its limit
    Amount,       \* its limit
    Multiples     \* the period_multiples it may have

ASSUME CalendarAssumption ==
    /\ Amount \in LimitAmount \ {0}
    /\ Multiples \subseteq MultipleRange

VARIABLES
    wallet,   \* the hot wallet
    now,      \* the block time
    opened    \* history: the month its limit was last renewed in, {} when none
              \* is known

vars == <<wallet, now, opened>>

SecondsPerYear == 12 * SecondsPerMonth
MonthIndex(t) == t \div SecondsPerMonth

-----------------------------------------------------------------------------
Init ==
    /\ now \in SecondsPerYear .. 2 * SecondsPerYear - 1
    /\ \E multiple \in Multiples, left \in 0 .. Amount :
          wallet = [address |-> Address, current_period_reset |-> now,
                    period_type |-> "MONTHS", period_multiple |-> multiple,
                    usdc_denom |-> TRUE,
                    spend_limits |-> <<[denom |-> LimitDenom, amount |-> Amount,
                                        limit_remaining |-> left]>>]
    /\ opened = {}

\* check_and_update_spend_limits: the wallet, renewed when its time has passed,
\* in a set that is empty when that fails.
Renewed == IF ShouldReset(wallet, now) THEN ResetPeriod(wallet, now) ELSE {wallet}

\* The same with one coin, worth `usd`.
Spend(usd) ==
    /\ \E w \in Renewed : \E spent \in ReduceLimit(w, usd) : wallet' = spent
    /\ opened' = IF ShouldReset(wallet, now) THEN {MonthIndex(now)} ELSE opened
    /\ UNCHANGED now

Pass ==
    /\ now + 1 < 2 * SecondsPerYear
    /\ now' = now + 1
    /\ UNCHANGED <<wallet, opened>>

\* The year is over and the epoch moves.
NewYear ==
    /\ now + 1 = 2 * SecondsPerYear
    /\ now' = SecondsPerYear
    /\ IF wallet.current_period_reset < SecondsPerYear
       THEN wallet' = [wallet EXCEPT !.current_period_reset = 0] /\ opened' = {}
       ELSE /\ wallet' = [wallet EXCEPT !.current_period_reset = @ - SecondsPerYear]
            /\ opened' = {month - 12 : month \in opened}

Tick == Pass \/ NewYear

Next == Tick \/ \E usd \in 1 .. Amount : Spend(usd)

\* Time passes.  Nothing is assumed of the holder of the wallet.
Spec == Init /\ [][Next]_vars /\ WF_vars(Tick)

-----------------------------------------------------------------------------
(***************************************************************************)
(* Properties.                                                             *)
(***************************************************************************)
\* A limit that is renewed comes back on the first second of the month that is
\* period_multiple months after this one, whatever the month and however many
\* years that is.  Of a multiple of 0 nothing is said.  (reset_period, which
\* takes the sum of months apart and together again.)
OnTheDot ==
    wallet.period_multiple > 0 =>
        \A month \in opened :
            wallet.current_period_reset =
                (month + wallet.period_multiple) * SecondsPerMonth

\* Nothing can be spent, not even a part of what the limit allows at first.
Blocked ==
    \A usd \in 1 .. Amount, w \in Renewed : ReduceLimit(w, usd) = {}

\* A wallet that can spend nothing can spend again later, also when its time
\* comes in a month in which reset_period fails: for periods up to 267 months,
\* the largest that fit into the sums it takes.
MonthsThatReset == 0 .. 267
ComesBack ==
    wallet.period_multiple \in MonthsThatReset /\ Blocked ~> ~Blocked

\* The failure of reset_period (a month 0 for a sum of 24, 36, ...) never takes
\* longer than a month, for periods up to 256 months.
MonthsThatFit == 0 .. 256
Stuck == ShouldReset(wallet, now) /\ Renewed = {}
OneMonthAtMost ==
    [][wallet.period_multiple \in MonthsThatFit /\ Stuck /\ Month(now') # Month(now)
           => ~Stuck']_vars
=============================================================================
