# Verification of the Obi proxy contract

TLA+ modules that model the CosmWasm contract in `src/` (the account contract of
Obi wallets), TLC runs that check them on small instances, and theorems checked
by TLAPS. Source paths below are relative to the repository.

## The system

The contract owns coins and executes messages on behalf of an owner (`admin`).
It runs inside a chain: a transaction calls one handler, the handler returns
messages, the chain dispatches them in order and depth first, and a failure
anywhere undoes everything. There are no threads and no lost messages; what is
hard is what happens *between* the handler's return and the end of the
transaction (the proxy can be called again, by itself or by a contract it
called), partial failure inside of a handler's loops, arithmetic on money and
dates, and a handful of paths that treat the same message differently.

| Component | State | Operations | Source |
|---|---|---|---|
| Execution | the message loop, the response | `Execute`, `SimExecute` | `src/contract.rs:82-283` |
| Fee debt | `uusd_fee_debt` | repayment inside of `check_coins` | `src/contract.rs:209-283` |
| Hot wallets | `hot_wallets` with limit and reset time | `AddHotWallet`, `RmHotWallet`, reset, reduce | `src/hot_wallet.rs`, `src/state.rs` |
| Ownership | `admin`, `pending` | propose, confirm, cancel | `src/contract.rs:330-391` |
| Classification | none | kind and coins of a message | `src/submsgs.rs` |
| Pricing | `pair_contracts` | a coin in USDC, a debt in a coin | `src/pair_contract.rs`, `src/sourced_coin.rs`, `src/simulation.rs`, `src/pair_contract_defaults.rs` |
| Instantiation | all of the above | `instantiate` | `src/contract.rs:34-63` |
| Queries | none | `CanSpend`, `CanExecute`; `Admin`, `Pending`, `HotWallets` | `src/contract.rs:393-516` |
| Migration | contract version | `migrate` | `src/contract.rs:65-79` |

What makes each of them correct:

* Execution: every coin that leaves under a limit was charged to it; a call that
  fails, at whatever point, changes nothing; a simulation sends nothing.
* Fee debt: it is paid exactly once or stays owed, what is spent before it is paid
  is spent in the transaction that pays it, the payment is worth no more than the
  fee, and nobody else has it paid.
* Hot wallets: what is left and what was charged add up to what the period
  allows, the limit comes back no more often than the period says, and all that is
  taken over time keeps to that rate. A removed wallet is gone.
* Ownership: it passes only to somebody the present owner proposed, who accepted,
  and whose proposal was not replaced or taken back in between.
* Classification and pricing: every coin is seen, and valued at the market, in
  the currency of the limits.
* Queries: what `CanSpend` refuses is refused, and what it promises is done.

## The modules

| Module | What it is |
|---|---|
| `Submsgs` | `submsgs.rs`: a message is a record of its kind, its cw20 variant and its coins; `MsgType` and `MsgFunds` are what `process_and_get_msg_type` makes of it. |
| `Pricing` | Which pair contract is asked what, and how the answer is read. `Dex`, a constant operator, is what the exchanges answer. |
| `HotWallets` | A wallet, its reset and its reduction, as operators that return the set of their results: empty when the code returns an error or panics. |
| `ObiProxy` | The contract on its chain: the state machine, its properties. Extends the three above. |
| `Account` | The abstract account that `ObiProxy` implements. |
| `Queries` | `CanSpend` and `CanExecute`, and a client that asks `ObiProxy` before it calls it. |
| `Calendar` | One wallet with a monthly limit and a clock that never stops. Extends `HotWallets`. |
| `MCObiProxy`, `MCQueries`, `MCCalendar` | The instances TLC checks. |
| `ObiProxy_proofs` | Types, ownership, removal, the budget of a period, strangers, simulations, valid wallets, limits where prices fit in 64 bits. |
| `Fees_proofs`, `Account_proofs` | The fee debt and prices; the refinement. Both extend `ObiProxy_proofs`. |
| `Coins_proofs` | What is sent under a limit was charged. Extends `Fees_proofs`. |
| `HotWallets_proofs` | Lemmas on months, years and their division, for the next two. |
| `Rates_proofs`, `Calendar_proofs` | How often, and when, a limit comes back, and what that comes to over time. |
| `Queries_proofs` | A refused query is a refused call, and a promise is kept. |

### `ObiProxy` and the code

`cfg` is the stored `State` (its three fields that never change are constants).
`call` is the running `execute_execute`: what is left of its `msgs`, the coins of
the current message still to be charged, and the response so far. `queue` holds
the messages the chain has still to dispatch, each with the reason it was let
through; `bank`, `market`, `now` and `gas` are the chain's.

| Action | Code |
|---|---|
| `Submit`, `CallSelf`, `CallBack` | who calls `execute`: a transaction, a message of the proxy to itself, a contract that was called |
| `ExecuteUnchecked` | first branch of `execute_execute`: the owner, no debt |
| `ExecuteAuthorized` | the authorized token contracts |
| `ExecuteChecked`, `EndExecute` | entry and end of the loop |
| `RepayDebt` | `try_repay_debt` within `check_coins` |
| `PassOwner` | the owner has no limit |
| `AdmitWallet`, `ChargeCoin`, `PassWallet` | `check_and_update_spend_limits`, one coin at a time |
| `AddHotWallet` ... `CancelUpdateAdmin` | the handlers of these names |
| `SendCoin`, `FinishMsg`, `Commit`, `Abort`, `Trade`, `Tick` | the chain |

A handler that returns an error has no step. Within a transaction that means
that only `Abort` is left, which restores `saved`. `Abort` is possible in every
phase, because any transaction may run out of gas anywhere, and a dispatched
message may fail for reasons of its own. The loops are steps, so every prefix of
a handler's work is a state; nothing else happens in between, as on the chain.

`hist` and `flow` are history variables: they record what happened (charges,
payments, who proposed, whose proposal is void) and no guard reads them. `hist` is rolled back with the
rest. The ledger of a wallet starts when it is added or found at instantiation.

Abstractions: addresses and denoms are strings of a small set, with `Addr` the
ones `addr_validate` accepts; recipients, expirations, hook payloads, attributes
and events are left out; times are seconds and months have equal lengths, since
`reset_period` only ever compares a time with the first second of a month.
Ordinary senders are never the proxy itself (it has no key). Prices move between
transactions and while other contracts run, never inside of a handler.

### The account

`Account` is what the contract promises with messages, coins and prices left out:
an owner and a candidate, an allowance for each holder, a debt. Its steps are
`Nominate`, `TakeOver`, `Admit`, `Dismiss`, `Renew`, `Use`, `Settle`, and `Keep`
and `Undo` for whole transactions. `ImplementsAccount` is its specification under
the mapping

| `Account` | `ObiProxy` |
|---|---|
| `owner`, `candidate` | `cfg.admin`, `cfg.pending` |
| `allowance` | `AllowanceOf(cfg.hot_wallets)`: the limit of the *first* wallet of each address, and what is left of it |
| `debt` | `cfg.uusd_fee_debt` |
| `kept` | the same four of `saved.cfg` |

It says that no step of a handler, at whatever depth, does two of these things at
once or one of them by halves: a spend touches one allowance and only lowers it, a
renewal restores exactly the limit, a removal leaves the others alone although
`retain` moves them, and a rollback restores everything.

### The client of the queries

`Queries` adds one variable to `ObiProxy`: the last question, its answer, and how
far the call it was about has come. `Ask` is a query; `Follow` submits exactly what
was asked, `GoOn` runs its handler, `Otherwise` is anything else and makes the
client forget. So "asked, then called, with nothing in between" is one path of the
state graph, and everything the chain can do in between are the others.

`CanSpend(s, msgs)` is a set: `{TRUE}`, `{FALSE}`, or empty when the query
returns an error or panics. `RefusalIsFinal` holds without conditions. The other
direction does not hold of the code without them, and `Promised` says which are
needed; `PromiseKept` says that then no handler refuses. It is stated with `Takes`
and `GoesOn`, which spell out the guards of a call and of the steps of its loop.
Left out of the promise, because `CanSpend` says yes and `Execute` refuses:

* several coins that fit one by one but not together (`check_spend_vec` compares
  each with the same limit);
* a `staking_delegate`, which `query_can_spend` admits and `execute_execute` does
  not;
* a fee debt that the coins of the message cannot repay, which no query looks at;
  this goes for the owner as well, although `src/msg.rs:53-54` says of
  `CanExecute` that the call "should also succeed";
* a wallet that is due in a month in which `reset_period` fails.

### The calendar

In `ObiProxy` time is bounded. `Calendar` has one wallet and no end of time: the
code takes a time apart only for its month and year, so the epoch may be
moved by whole years, and `NewYear` moves it, together with every time that is
remembered. What was before the epoch is only known to be over. `Spend` is
`check_and_update_spend_limits` for one coin.

## The runs

The first four use `MCObiProxy`, the local network, and its native coin
`testtokens`; `queries` adds `MCQueries` to it, `calendar` uses `MCCalendar`.

| Run | Shows |
|---|---|
| `limits` | `PeriodBudget`, `SentWasCharged`, `RolloverRate`, `SpendingRate` with daily limits, nested calls, callbacks, removals, duplicates, and a price that the cast to 64 bits reduces to 0; `ImplementsAccount`. |
| `months` | `PeriodBudget`, `RolloverRate`, `SpendingRate` with limits of 1, 2, 3, 12 and 13 months and simulations, over the turn of a year. |
| `debt` | `FeesConserved` with a debt that some coins repay and others do not, under moving prices; what leaves before the payment leaves while the whole payment waits in the same queue (`DebtFirst`); the coin that pays is not worth more than the debt when it is chosen (`NotOverpaid`); every price is one in USDC (`PricesInUsdc`); no stranger's call gets to its end, although a debt in its way is repaid before anybody asks who he is (`OnlyForTheKnown`). |
| `handover` | `TypeOK`, `HandoverConsent`, `RevokedStaysRevoked` with the ownership moving between people, a contract and the proxy, also during a dispatch, proposals that are replaced or taken back, and a wallet stored twice; `ImplementsAccount`. |
| `queries` | `RefusalIsFinal`, `PromiseKept` for every kind of message, with and without a debt, for the owner, a daily wallet, one that cannot be reset in December, and strangers. |
| `calendar` | `OnTheDot`: a monthly limit with a period of a month or more comes back on the first of the right month. `ComesBack`: who can spend nothing can spend again. `OneMonthAtMost`: `reset_period` does not fail in two months in a row. |

Debt first. `try_repay_debt` zeroes the stored debt when the payment is chosen, long
before the bank makes it, so a call from inside of the dispatch sees no debt and may
spend before the payment. `DebtFirst` therefore reads the payments and not the
stored debt: whatever has to wait for the fee leaves when the fee was paid or
waived, or when one payment of all that is missing is still in the queue. Should
that payment fail, everything is undone. It speaks of coins of the bank, of cw20
messages that spend, and of all that an owner out of debt sends. It does not speak
of the messages to authorized token contracts: their path (`src/contract.rs:125-139`)
does not look at the debt, so the tokens leave in debt.

Prices. `NotOverpaid` bounds the payment from above only. An exchange that charges a
fee or rounds down makes the payment worth less than the debt, and the code does
not make up for it. `NoRoundTripGain` is all that is asked of an exchange: nothing is
gained by a conversion there and back. TLC evaluates it on the exchange of the
instances, which rounds down, as an assumption of `MCObiProxy`. The bound is one of
the moment of the conversion: prices may move before the bank makes the payment
(`Trade`), and nothing in the code bounds what it is worth then.

A period of 0 months gives the limit back at every spend (`src/hot_wallet.rs:163`).
`RolloverRate`, `SpendingRate` and `OnTheDot` are about periods of a month or more:
what a period of 0 should mean, the repository does not say.

Each property also fails in the same run when a plausible slip replaces the
definition it guards; the slips are the operators marked `Slip` beside the
definitions, and `PROJECT.json` pairs them.

Bounds. `MaxGas` (2 to 4) bounds the messages one transaction dispatches: two
nested calls and what they leave behind suffice for every pair of handlers to
overlap. Times run over up to four daily periods, or ten seconds with months of
two, which includes the turn of a year and the wrap of 12 and 13 months. `U64`
and `MaxUint128` are scaled down so that amounts reach them. Lists of messages
have up to three entries with up to two coins each: the code treats every
further one alike. `queries` needs a `MaxGas` of 1 only, since the client looks no
further than its own call; its time passes from December into January. `calendar`
has months of two seconds (their first second and another) and multiples on
both sides of every case of `reset_period`: 0, sums within the year and of one, two
and more years, the last multiple that always fits (256) and the first that does
not (257), the last that ever resets (267) and the first that never does (268),
and the largest `u16`. The proofs cover what
these bounds leave out.

### Where the code differs from what is said of it

Six runs expect TLC to find a violation.

| Run | The code | What is said |
|---|---|---|
| `sim_attaches` | The path of the authorized contracts ignores `simulation` (`src/contract.rs:135`). | `src/msg.rs:25`: "avoids attaching any messages" |
| `cancel` | Cancelling takes the pending admin (`src/contract.rs:379`). | `src/msg.rs:34`: "must be called by current admin" |
| `waived` | A simulation zeroes the debt, and the payment is dropped (`src/contract.rs:243` and `153`). | `README.md:34`: "attempts to repay this debt" |
| `leaves_in_debt` | Other cw20 calls of the owner carry native coins past the debt (`src/contract.rs:190`). | `src/error.rs:67`: "Please repay your fee debt ... before sending funds." |
| `overflow` | The price is cast to 64 bits before it is compared (`src/hot_wallet.rs:85`). | `src/error.rs:55`: "cannot spend more than your available spend limit" |
| `stored` | `add_hot_wallet` does not validate the limits (`src/contract.rs:302`). | `src/error.rs:73`: "Multiple spend limits are no longer supported." |

Five of these claims hold, as their properties state them, as soon as one kind of
call stays away, and the proofs show that for all values of the constants. So what
each of these runs finds is the only way to break the property. For
`leaves_in_debt` that goes for coins of the bank: cw20 tokens that an authorized
token contract moves while a fee is owed are not in `bank`, and break the text of
the error message, if not the property.

| Run | Condition | Theorem |
|---|---|---|
| `sim_attaches` | `TokensNotSimulated`: no simulation begins with a message to an authorized contract | `SimulationsWithoutTokens` |
| `waived` | `NothingSimulated` | `FeeIsPaidOrOwed` |
| `leaves_in_debt` | `OtherCallsCarryNothing`: cw20 calls that are no spends carry no coins | `NothingElseLeavesInDebt` |
| `overflow` | `SpendsFitInU64`: no coin that can be charged is worth 2^64 | `LimitsHoldBelowU64` |
| `stored` | `AddedWalletsValid`: the owner adds what `instantiate` would accept | `ValidWalletsStayValid` |

They are conditions on the constants, that is, on what callers and exchanges do.
`MCConditions` says which instances meet them, and TLC evaluates it in every run of
`MCObiProxy` and `MCQueries`: each condition fails in the run that breaks its claim
and is met by other instances. For `cancel` there is nothing of the kind: its guard
is the divergence.

`FeesConserved` counts waived fees, and `PeriodBudget` what the cast lost, on
purpose, so that they hold without any condition.

`PromiseKept` excludes what the list of the section on queries says; of these, the
owner in debt contradicts `src/msg.rs:53-54`, and no run is spent on it.

### Fairness and liveness

`ObiProxy` has no fairness and no liveness: the contract does nothing by itself, a
handler runs when somebody calls it, and a transaction ends because the chain
bounds its gas, which is not a property of this code. In every instance some step
always remains (a call that is accepted, `Tick` or `Abort`), so deadlock is
checked in every run.

`Calendar` has `WF_vars(Tick)`: block time advances, whatever the holder of the
wallet does. Nothing is assumed of the holder, so `ComesBack` says that it *can*
spend again, not that it does. It holds for multiples of up to 267 months. Larger
ones stay due for ever: `reset_period` matches the sum of month and multiple with
`2..=12` and `13..=268` and fails otherwise (`src/hot_wallet.rs:161-177`), and a
sum that does not fit in 16 bits panics (`Cargo.toml:30`).
`OneMonthAtMost` needs 256 or less: above it the sum leaves that range in some
months of the year.

## The proofs

For all values of the constants that satisfy the assumptions named in the modules.

`ObiProxy_proofs`:

* `TypeCorrect`: `TypeOK` is an invariant. `TypeOK` is inductive as it stands
  (with `phase = "charge" => call.msgs # << >>`, without which `PassWallet`
  would take the head of an empty list). One lemma per action; `HandleType`
  covers the handlers for any caller, so `Submit`, `CallSelf` and `CallBack`
  share it.
* `OwnershipByConsent`, `RemovalIsFinal`: from `TypeOK` and the statement itself,
  made of `cfg` and `hist` *and* of what `saved` holds: `Abort` goes back to it,
  so the property alone is not inductive. For the ownership, `withdrawn` collects
  the candidates that were replaced or taken back, until they are proposed again.
* `StrangersGetNowhere`: the loop has no test of the sender of its own. `StrangerInv`
  says where he is stopped: as long as a stranger's call runs, a message of it is
  still in hand, and whoever is being charged is a hot wallet, which renewing and
  charging it does not change.
* `SimulationsAreSilent`: in a simulation the response of the loop stays empty,
  which is a statement about three actions and has to survive the others. It goes
  for nested calls too, where a simulation must leave alone what the calls around
  it have still to dispatch. `SimulationsWithoutTokens` is the claim of
  `src/msg.rs:25` under its condition.
* `LimitsHoldBelowU64`: `FitsInv` adds to `LimitsAddUp` that nothing was lost in any
  period so far. It needs `KnownInv`, that the coin in hand comes from a message
  of a call that was made: the condition is about those.
* `ValidWalletsStayValid`: a reset, a charge and a removal keep a wallet valid, for
  the wallets of `cfg` and of `saved`.
* `LimitsAddUp`: as for the ownership. The substance is in lemmas on "the first wallet of
  an address", which is what the code looks up: how it behaves under `Append`
  (no wallet of that address before), `retain` (an order-preserving selection)
  and replacement in place. Nothing is assumed of prices.

`Fees_proofs`:

* `FeeIsConserved`. `FeesInv`: either what was paid, waived and is still owed adds
  up and no repayment is waiting, or the debt is 0 and exactly one repayment, of
  exactly what is missing, waits in `call.out` or in `queue`. It uses that a
  repayment is a bank message, never a call of the proxy to itself.
* `DebtComesFirst`. `DebtInv` adds that while there is a debt on the books nothing
  that has to wait for the fee is in `queue` or in the response of the running call,
  and that no balance exceeds the one of `saved.bank`: only then is it clear that
  `Abort` takes no coin out. So when such a message leaves, the stored debt is 0;
  `FeesInv` says where the fee is then.
* `NothingElseLeavesInDebt`. `EmptyInv`: in debt, no message in `queue` or in the
  response of the running call has coins in it, the repayment apart.
* `FeeIsPaidOrOwed`. `WaivedInv`: nothing was waived, now or before the transaction.
  With `FeeIsConserved` this gives `paid + debt = owed` at the end of each.
* `EveryPriceInUsdc`, for each of the networks, from `ExchangeAssumption`.
* `NothingIsOverpaid`, from `NoRoundTripGain`. The lemmas follow one conversion
  through the three booleans of `query_contract`: the debt is asked for as
  `token2_for_token1` of the pair (all three are true, which flips it), the
  coin is valued as `token1_for_token2` of *the same* pair, because the first pair
  that joins two denoms is the same from both sides (`FirstPairUnique`).

`Coins_proofs`, `SpendingWasCharged`. The property alone forgets what is still under
way. `SpendInv` says, of each denom, that what was sent, what waits in `queue`, what
the response of the running call carries and the coins of the message in hand that
have been counted are together no more than what was charged. A sum over a
sequence would need recursion and its laws induction; a *running total* (a
function of the position that grows by each coin at its place) needs neither: `Covered`
asserts that there is one, and each action builds the next from the last. That a
message's coins are those its charge saw is where `MsgFunds` comes in: for a message
that is passed with fewer, the totals do not meet.

`Account_proofs`, `AccountImplemented`: the initial states map to initial states, and
every action maps to one action of `Account` or to a stutter. The lemmas say what
`AllowanceOf` does when a wallet is appended, replaced or filtered out; that a
first wallet exists where there is any is that `<` is well-founded on `Nat`.

`Rates_proofs`:

* `ResetsAreSpaced`: the property alone forgets when the last reset was. `Spaced`
  ties a wallet to its ledger: for days, `since + resets * (period + 1) <= reset + 1`
  and the next reset is less than a period away; for months the same with the
  month that the next reset begins. It is kept for `cfg` and for `saved`.
* `SpendingIsRated` puts the period and the resets together: over its whole life a
  wallet takes from its limit what it was installed with and one limit per period
  that has passed, plus one. `Financed` says that what was taken and what is left
  were given, at first or by a reset (a reset gives one limit and the rest of the
  last one is gone); with the distance of resets the bound follows for any span of
  time (`Proportional`). It counts what leaves the limit: what the cast of
  `overflow` lets through on top of it is what `PeriodBudget` calls `lost`. A wallet
  that is removed and added again begins a new life.

`Calendar_proofs`, `ResetIsOnTheDot` and `StuckForAMonth`: `CalendarInv` is
`OnTheDot` with the types. The substance, in `HotWallets_proofs`, is that taking a
month and a year apart and putting them together again is the identity, with a
carry, and that a sum fails at most in one month of twelve.

`Queries_proofs`, `NoIsNo`: a refused call is `Doomed` from its first step. Before its
coins are charged the query would still say no, whatever the repayment did; then a
coin is left that is too much for *what remains* of the limit (`Hopeless`).
Charging the coins before it only makes less remain, and the reset, which makes it
more, is what the query looked ahead to.

`YesIsYes` is the other direction. `PromiseInv` carries the promise along: a promised call
that was not passed on at once has one message, a debt-free wallet and at most one
coin, and once that coin is in hand it has a price within the limit that the renewal
has left.

The assumptions: `PricingAssumption` (an answer that parses carries a Uint128, the
denoms the code names exist), `ExchangeAssumption` (an exchange answers the query
it was asked, or fails), `HotWalletsAssumption` (positive units),
`ObiProxyAssumption` (the constants have their types, contracts are addresses) and
`CalendarAssumption` (a limit that is not 0, multiples of 16 bits). TLC evaluates
each in the runs of the modules that have it. `NoRoundTripGain` and the five conditions
above are hypotheses of one theorem each, and no assumption of any other.

Only model-checked: `ComesBack`, which is liveness under fairness. Liveness and
`ENABLED` are out of the provers' reach, and so is induction over data.

## Not modelled

* `migrate` (`src/contract.rs:65-79`): it compares the stored version string with
  its own and writes it when it is older. No other operation reads or writes it.
* The queries `Admin`, `Pending`, `HotWallets`: they return a stored field.
* The tallies of `simulation.rs` (spread, commission) and the texts of queries;
  `sources.rs`, attributes and events: wording that no state depends on.
* `error.rs`: a refused call is a transaction that is undone, whatever the text.
* `update_spend_limit`, which has no caller.
* The JSON schemas, the TypeScript client, the deployment scripts, the artifacts.
* Other networks in runs: the code treats the three alike, up to the native denom,
  and the proofs hold for each.

## What could follow

* A run of the claim in `src/msg.rs:53-54` about an owner in debt, and of the text
  of `src/error.rs:67` about cw20 tokens of an authorized token contract.
* A bound on what a payment is worth when the bank makes it, should the code get
  one, and a meaning for a period of 0 months.
* Wallets of several kinds in `Calendar`, should the code get more period types.
