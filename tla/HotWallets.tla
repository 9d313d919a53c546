----------------------------- MODULE HotWallets -----------------------------
(***************************************************************************)
(* A hot wallet and its recurring spend limit (hot_wallet.rs).  Times are  *)
(* seconds since the epoch.                                                *)
(*                                                                         *)
(* The calendar is chrono's, reduced to what reset_period asks of it: the  *)
(* month and the year of a date and the first second of a month.  Months   *)
(* all last SecondsPerMonth here, because nothing the code does depends on *)
(* their lengths: it only compares a time with the start of a month.       *)
(***************************************************************************)
EXTENDS Integers, Sequences

CONSTANTS
    U64,               \* 2^64, the modulus of the limit's counters
    SecondsPerDay,
    SecondsPerMonth

ASSUME HotWalletsAssumption ==
    /\ U64 \in Nat \ {0}
    /\ SecondsPerDay \in Nat \ {0}
    /\ SecondsPerMonth \in Nat \ {0}

LimitAmount == 0 .. U64 - 1
MaxU16 == 65535
MultipleRange == 0 .. MaxU16           \* period_multiple is a u16

CoinLimit(denoms) ==
    [denom : denoms, amount : LimitAmount, limit_remaining : LimitAmount]

\* usdc_denom stands for usdc_denom = Some("true"); `default` is never read.
HotWallet(addresses, denoms) ==
    [address : addresses, current_period_reset : Nat,
     period_type : {"DAYS", "MONTHS"}, period_multiple : MultipleRange,
     spend_limits : Seq(CoinLimit(denoms)), usdc_denom : BOOLEAN]

-----------------------------------------------------------------------------
Month(t) == ((t \div SecondsPerMonth) % 12) + 1
Year(t) == t \div (12 * SecondsPerMonth)
FirstOfMonth(year, month) == (12 * year + month - 1) * SecondsPerMonth

\* assert_is_valid.  A wallet without any limit makes it panic.
AssertIsValid(w, usdDenoms) ==
    /\ w.usdc_denom
    /\ Len(w.spend_limits) = 1
    /\ w.spend_limits[1].denom \in usdDenoms

ShouldReset(w, now) == now > w.current_period_reset

\* reset_period: the next reset, in a set that is empty when the code returns
\* an error or panics (from_ymd has no month 0, which is what a sum of 24, 36,
\* ... months is reduced to).
\* Slip: the reset advances from the last one and not from now.
CatchUpDays(w, now) == {w.current_period_reset + w.period_multiple * SecondsPerDay}

NextResetDays(w, now) == {now + w.period_multiple * SecondsPerDay}

\* Slip: the year is not incremented when the months wrap around.
SameYearMonths(w, now) ==
    LET working == Month(now) + w.period_multiple
    IN  IF working \in 2 .. 268 /\ working % 12 # 0
        THEN {FirstOfMonth(Year(now), working % 12)}
        ELSE {}

\* Slip: a sum of months is only reduced when it is less than two years.
OneYearMonths(w, now) ==
    LET working == Month(now) + w.period_multiple
    IN  IF working \in 2 .. 12 THEN {FirstOfMonth(Year(now), working)}
        ELSE IF working \in 13 .. 23 THEN {FirstOfMonth(Year(now) + 1, working - 12)}
             ELSE {}

NextResetMonths(w, now) ==
    LET working == Month(now) + w.period_multiple
    IN  IF working \in 2 .. 12 THEN {FirstOfMonth(Year(now), working)}
        ELSE IF working \in 13 .. 268 /\ working % 12 # 0
             THEN {FirstOfMonth(Year(now) + working \div 12, working % 12)}
             ELSE {}

NextReset(w, now) ==
    IF w.period_type = "DAYS" THEN NextResetDays(w, now) ELSE NextResetMonths(w, now)

\* reset_period and reset_limits: every way they succeed.
ResetPeriod(w, now) ==
    IF w.spend_limits = << >> THEN {}
    ELSE {[w EXCEPT !.current_period_reset = next,
                    !.spend_limits[1].limit_remaining = w.spend_limits[1].amount] :
              next \in NextReset(w, now)}

\* Slip: the whole limit is looked at and not what is left of it.
ReduceFromTotal(w, usd) ==
    IF w.spend_limits = << >> \/ usd % U64 > w.spend_limits[1].amount
    THEN {}
    ELSE {[w EXCEPT !.spend_limits[1].limit_remaining =
                        w.spend_limits[1].amount - (usd % U64)]}

\* reduce_limit and simulate_reduce_limit: `usd` is cast from u128 to u64 and
\* subtracted from the first limit, whose denom is not looked at.
ReduceLimit(w, usd) ==
    IF w.spend_limits = << >> \/ usd % U64 > w.spend_limits[1].limit_remaining
    THEN {}
    ELSE {[w EXCEPT !.spend_limits[1].limit_remaining = @ - (usd % U64)]}
=============================================================================
