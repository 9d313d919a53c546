------------------------------ MODULE Queries ------------------------------
(***************************************************************************)
(* The queries CanSpend and CanExecute (contract.rs, and the checks behind *)
(* them in state.rs and hot_wallet.rs), and a client that asks before it   *)
(* calls: whatever it asks about it may submit next, and the answer is     *)
(* kept until the handler of that call has returned or anything else       *)
(* happens in between.                                                     *)
(*                                                                         *)
(* The queries Admin, Pending and HotWallets return stored data unchanged  *)
(* and have no definition here.                                            *)
(***************************************************************************)
EXTENDS ObiProxy

VARIABLE answer    \* what was asked and answered, and what became of it

queryVars == <<cfg, bank, market, now, phase, call, queue, gas, hist, flow, saved, answer>>

-----------------------------------------------------------------------------
(***************************************************************************)
(* The answers.  A query that returns an error, or panics, has no answer.  *)
(***************************************************************************)
\* Slip: the limit of a wallet that is due is not renewed first.
LimitAsStored(w) == w.spend_limits[1].limit_remaining

\* Slip: what was spent of the limit is not looked at.
WholeLimit(w) == w.spend_limits[1].amount

\* simulate_reduce_limit: the limit a coin is compared with.
LimitToCheck(w) ==
    IF ShouldReset(w, now) THEN w.spend_limits[1].amount
    ELSE w.spend_limits[1].limit_remaining

\* check_spend_vec: each coin by itself against the whole of that limit.
CheckSpendVec(w, coins) ==
    \A n \in DOMAIN coins :
        \E usd \in ToUsdc(market, coins[n]) : usd.amount % U64 <= LimitToCheck(w)

\* check_spend_limits: no wallet is an error that query_can_spend answers
\* with FALSE; a wallet without any limit makes it panic at a coin with a price.
CheckSpendLimits(s, coins) ==
    {CheckSpendVec(cfg.hot_wallets[i], coins) :
        i \in {i \in FirstWallet(s) :
                  \/ cfg.hot_wallets[i].spend_limits # << >>
                  \/ coins = << >>}}
    \cup {b \in {FALSE} :
             \/ ~IsHotWallet(s)
             \/ coins # << >> /\ ToUsdc(market, Head(coins)) = {}}

\* query_can_spend.  It errs on a list of several messages, on a cw20 call
\* that is not authorized and on most other messages, and panics on none.
CanSpend(s, msgs) ==
    IF IsAdmin(s) THEN {TRUE}
    ELSE IF Len(msgs) # 1 THEN {}
    ELSE IF Authorized(msgs[1], s) /\ s \in Addr THEN {TRUE}
    ELSE IF msgs[1].kind \in {"bank_send", "staking_delegate"}
         THEN CheckSpendLimits(s, msgs[1].funds)
         ELSE {}

\* query_can_execute and can_execute: the message is not looked at.
CanExecute(s) == IsAdmin(s)

-----------------------------------------------------------------------------
(***************************************************************************)
(* The client.                                                             *)
(***************************************************************************)
NoAnswer == [status |-> "none"]

\* What the client may rely on: a yes, given to the owner who owes nothing, on
\* a message to an authorized contract, or to a debt-free wallet whose limit
\* can be renewed on a bank message with one coin at most.
Promised(s, msgs) ==
    /\ CanSpend(s, msgs) = {TRUE} \/ CanExecute(s)
    /\ \/ Unchecked(s)
       \/ msgs # << >> /\ Authorized(Head(msgs), s)
       \/ /\ ~IsAdmin(s)
          /\ cfg.uusd_fee_debt = 0
          /\ Head(msgs).kind = "bank_send" /\ Len(Head(msgs).funds) <= 1
          /\ \E i \in FirstWallet(s) : Due(cfg.hot_wallets[i]) # {}

Executes == {c \in Calls : c.type \in ExecuteTypes}

Ask(s, c) ==
    /\ answer' = [status |-> "asked", sender |-> s, call |-> c,
                  can_spend |-> CanSpend(s, c.msgs),
                  promised |-> Promised(s, c.msgs)]
    /\ UNCHANGED vars

\* The handler of the call that was asked about is still running, or returned.
Progress == [answer EXCEPT !.status = IF phase' = "dispatch" THEN "accepted" ELSE "running"]

\* The next thing that happens is the call that was asked about.
Follow ==
    /\ answer.status = "asked"
    /\ Submit(answer.sender, answer.call)
    /\ answer' = Progress

GoOn ==
    /\ answer.status = "running"
    /\ Next
    /\ answer' = IF phase' = "idle" THEN NoAnswer ELSE Progress

Otherwise ==
    /\ answer.status # "running"
    /\ Next
    /\ answer' = NoAnswer

QueryInit == Init /\ answer = NoAnswer
QueryNext ==
    \/ phase = "idle" /\ \E s \in Addr \ {Proxy}, c \in Executes : Ask(s, c)
    \/ Follow \/ GoOn \/ Otherwise
QuerySpec == QueryInit /\ [][QueryNext]_queryVars

-----------------------------------------------------------------------------
(***************************************************************************)
(* Properties.                                                             *)
(***************************************************************************)
\* A call that CanSpend said no to is refused: what the query refuses in one
\* look at every coin, execute_execute refuses too, after the reset, the
\* repayment and the coins before it.  (query_can_spend, check_spend_limits
\* against check_and_spend_total_coins, check_and_update_spend_limits.)
RefusalIsFinal == answer.status = "accepted" => answer.can_spend # {FALSE}

\* execute_execute takes a call, unless it panics at msgs[0].
Takes(s, c) == phase = "idle" /\ (Unchecked(s) \/ c.msgs # << >>)

\* What the guards of the loop come to.  The running call goes on: a coin repays the debt that is in the way, the
\* sender may send the message, the wallet can be renewed if it is due, a coin
\* has a price, and the price is within the limit.
GoesOnWithMsg(m) ==
    \/ Spends(m) /\ cfg.uusd_fee_debt > 0 /\ RepayCoins(MsgFunds(m)) # {}
    \/ Spends(m) /\ cfg.uusd_fee_debt = 0 /\ IsAdmin(call.sender)
    \/ Spends(m) /\ cfg.uusd_fee_debt = 0
           /\ \E i \in FirstWallet(call.sender) : Due(cfg.hot_wallets[i]) # {}
    \/ IsAdmin(call.sender) /\ MsgType(m) \in OtherCalls
GoesOnWithCoin(coin) ==
    \E i \in FirstWallet(call.sender), usd \in ToUsdc(market, coin) :
        ReduceLimit(cfg.hot_wallets[i], usd.amount) # {}
GoesOn ==
    \/ phase = "check" /\ (call.msgs = << >> \/ GoesOnWithMsg(Head(call.msgs)))
    \/ phase = "charge" /\ (call.coins = << >> \/ GoesOnWithCoin(Head(call.coins)))

\* A call that was promised to pass is never refused: a handler takes it, and
\* takes every step up to its end.  (query_can_spend and can_execute against
\* execute_execute.)
PromiseKept ==
    answer.status \in {"asked", "running"} /\ answer.promised =>
        IF answer.status = "asked" THEN Takes(answer.sender, answer.call) ELSE GoesOn
=============================================================================
