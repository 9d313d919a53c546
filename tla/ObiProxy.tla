------------------------------ MODULE ObiProxy ------------------------------
(***************************************************************************)
(* The proxy contract on its chain (contract.rs and state.rs): an owner    *)
(* (`admin`) and hot wallets with a spend limit send messages through it.  *)
(*                                                                         *)
(* The chain runs one transaction at a time.  A transaction calls a handler*)
(* of the proxy; the messages it returns are then dispatched in order, and *)
(* the ones a dispatched message gives rise to go before the ones that are *)
(* left.  The proxy may be called again meanwhile, by itself or by another *)
(* contract.  When anything fails the whole transaction is undone (Abort). *)
(* A handler refuses a call by having no step for it.                      *)
(*                                                                         *)
(* The loops of execute_execute are steps: one for a message (Check...,    *)
(* RepayDebt, AdmitWallet), one for a coin (ChargeCoin).  Nothing else     *)
(* happens between them.                                                   *)
(***************************************************************************)
EXTENDS Submsgs, Pricing, HotWallets, FiniteSets

CONSTANTS
    Names,                \* every string that occurs as an address
    Addr,                 \* the ones addr_validate accepts
    Proxy,                \* the contract's own address
    RepayWallet,          \* fee_lend_repay_wallet
    AuthorizedContracts,  \* the two of is_authorized_hotwallet_contract
    Contracts,            \* the other contracts that may call the proxy
    NativeDenoms,         \* the coins of the bank module
    Genesis,              \* what the proxy owns of them at first
    Instantiations,       \* the states instantiate is asked to create
    Calls,                \* the ExecuteMsgs of the model
    StartTime, MaxTime,   \* the block times of the model
    MaxGas                \* bound on the messages dispatched in a transaction

VARIABLES
    cfg,     \* the contract's STATE
    bank,    \* what the proxy owns of each native coin
    market,  \* the state of the exchanges
    now,     \* the block time
    phase,   \* what the chain is doing, see Phases
    call,    \* the execute_execute that is running
    queue,   \* the messages still to be dispatched, the next one first
    gas,     \* how many more messages the transaction may dispatch
    hist,    \* history: limits, fees, proposals and removals so far
    flow,    \* history: coins charged and sent in this transaction
    saved    \* cfg, bank and hist as the last transaction left them

vars == <<cfg, bank, market, now, phase, call, queue, gas, hist, flow, saved>>

-----------------------------------------------------------------------------
NoCall == [type |-> "none"]
Message == [kind : MsgKinds, to : Names, call : SpendCalls \cup OtherCalls \cup {"opaque"},
            amount : Uint128, funds : Seq(Coin), inner : Calls \cup {NoCall}]

Wallet == HotWallet(Names, Denom)
ExecuteTypes == {"execute", "sim_execute"}
WellFormed(c) ==
    \/ c.type \in ExecuteTypes /\ c.msgs \in Seq(Message)
    \/ c.type = "add_hot_wallet" /\ c.new_hot_wallet \in Wallet
    \/ c.type = "rm_hot_wallet" /\ c.doomed_hot_wallet \in Names
    \/ c.type = "propose_update_admin" /\ c.new_admin \in Names
    \/ c.type = "confirm_update_admin" /\ c.signers \subseteq Names
    \/ c.type = "cancel_update_admin"

State == [admin : Addr, pending : Addr, hot_wallets : Seq(Wallet),
          uusd_fee_debt : Uint128]

\* Why a message leaves: the owner sent it free of debt ("owner") or in debt
\* ("debtor"), an authorized token contract ("token"), within a wallet's
\* limit ("limit"), or to repay the debt of `usd` ("repay").
Origins == {"owner", "debtor", "token", "limit", "repay"}
Outgoing == [msg : Message, origin : Origins, usd : Uint128]
Out(m, origin, usd) == [msg |-> m, origin |-> origin, usd |-> usd]

Phases == {"idle", "check", "charge", "dispatch"}
Running == [sender : Names, sim : BOOLEAN, msgs : Seq(Message),
            coins : Seq(Coin), out : Seq(Outgoing)]
NotRunning == [sender |-> Proxy, sim |-> FALSE, msgs |-> << >>,
               coins |-> << >>, out |-> << >>]

Balances == [NativeDenoms -> Nat]
NoFlow == [charged |-> [d \in Denom |-> 0], sent |-> [d \in Denom |-> 0]]

\* Of the wallet of an address: what its current period allows (budget), has
\* been charged, and has lost of that to the cast of reduce_limit; how often
\* it was reset, when it was installed and with how much left (first), and
\* what has been taken from its limit since then, in all its periods (taken).
Ledger == [budget : LimitAmount, charged : Nat, lost : Nat, resets : Nat, since : Nat,
           first : LimitAmount, taken : Nat]
History ==
    [ledger : [Names -> Ledger],
     fees : [owed : Uint128, paid : Nat, waived : Nat],
     proposer : Names, accepter : Names, withdrawn : SUBSET Names,
     revoked : SUBSET Names]

ASSUME ObiProxyAssumption ==
    /\ Addr \subseteq Names
    /\ Proxy \in Addr /\ RepayWallet \in Addr
    /\ Contracts \subseteq Addr /\ AuthorizedContracts \subseteq Names
    /\ NativeDenoms \cup Names \subseteq Denom  \* a cw20 coin is its contract's
    /\ Genesis \in Balances
    /\ StartTime \in Nat /\ MaxTime \in Nat /\ MaxGas \in Nat
    /\ \A i \in Instantiations :
          i \in [admin : Addr, hot_wallets : Seq(Wallet), uusd_fee_debt : Uint128]
    /\ \A c \in Calls : WellFormed(c)

-----------------------------------------------------------------------------
(***************************************************************************)
(* Reading the state.                                                      *)
(***************************************************************************)
\* maybe_get_hot_wallet: the position of the first wallet of an address.
FirstOf(wallets, a) ==
    {i \in DOMAIN wallets :
        wallets[i].address = a /\ \A k \in 1 .. i - 1 : wallets[k].address # a}
FirstWallet(a) == FirstOf(cfg.hot_wallets, a)

IsAdmin(a) == cfg.admin = a
IsHotWallet(a) == FirstWallet(a) # {}

\* Slip: the debt is not looked at.
UncheckedInDebt(s) == IsAdmin(s)

\* The owner needs no check when nothing is owed.
Unchecked(s) == cfg.uusd_fee_debt = 0 /\ IsAdmin(s)

\* The path of the authorized token contracts.
Authorized(m, s) ==
    /\ m.kind = "wasm_execute" /\ m.funds = << >>
    /\ m.to \in AuthorizedContracts
    /\ IsHotWallet(s)

\* check_coins: try_repay_debt with each coin of the message until one works.
RepayCoins(coins) ==
    LET InCoin(n) == DebtInAsset(market, cfg.uusd_fee_debt, coins[n].denom)
    IN  UNION {InCoin(n) : n \in {n \in DOMAIN coins :
                                     \A k \in 1 .. n - 1 : InCoin(k) = {}}}

RepayMsg(coin) ==
    [kind |-> "bank_send", to |-> RepayWallet, call |-> "opaque",
     amount |-> 0, funds |-> <<coin>>, inner |-> NoCall]

\* check_and_update_spend_limits: the wallet, reset when its time has passed.
Due(w) == IF ShouldReset(w, now) THEN ResetPeriod(w, now) ELSE {w}

-----------------------------------------------------------------------------
(***************************************************************************)
(* History.                                                                *)
(***************************************************************************)
Remaining(w) == IF w.spend_limits = << >> THEN 0 ELSE w.spend_limits[1].limit_remaining
Limit(w) == IF w.spend_limits = << >> THEN 0 ELSE w.spend_limits[1].amount

Opened(w, t) ==
    [budget |-> Remaining(w), charged |-> 0, lost |-> 0, resets |-> 0, since |-> t,
     first |-> Remaining(w), taken |-> 0]
Unopened == [budget |-> 0, charged |-> 0, lost |-> 0, resets |-> 0, since |-> 0,
             first |-> 0, taken |-> 0]
Reopened(l, w) ==
    [l EXCEPT !.budget = Remaining(w), !.charged = 0, !.lost = 0, !.resets = @ + 1]
Charged(l, usd) ==
    [l EXCEPT !.charged = @ + usd, !.lost = @ + (usd - (usd % U64)),
              !.taken = @ + (usd % U64)]

\* Where the history of a state that was just instantiated starts.
NewHistory(s) ==
    [ledger |-> [a \in Names |->
         IF FirstOf(s.hot_wallets, a) = {} THEN Unopened
         ELSE Opened(s.hot_wallets[CHOOSE i \in FirstOf(s.hot_wallets, a) : TRUE], StartTime)],
     fees |-> [owed |-> s.uusd_fee_debt, paid |-> 0, waived |-> 0],
     proposer |-> s.admin, accepter |-> s.admin, withdrawn |-> {}, revoked |-> {}]

\* The pending admin, if he is not the owner already.
Candidate == {cfg.pending} \ {cfg.admin}
Proposed(h, s, a) ==
    [h EXCEPT !.proposer = s, !.withdrawn = (@ \cup Candidate) \ {a}]
Withdrawn(h) == [h EXCEPT !.withdrawn = @ \cup Candidate]

-----------------------------------------------------------------------------
(***************************************************************************)
(* instantiate: an invalid wallet or an unknown network fails.  Addresses  *)
(* of wallets are not looked at, nor whether one occurs twice.             *)
(***************************************************************************)
LimitDenoms == {USDC, "testtokens"}

Instantiate(i) ==
    /\ \A n \in DOMAIN i.hot_wallets : AssertIsValid(i.hot_wallets[n], LimitDenoms)
    /\ cfg = [admin |-> i.admin, pending |-> i.admin, hot_wallets |-> i.hot_wallets,
              uusd_fee_debt |-> i.uusd_fee_debt]

Init ==
    /\ \E i \in Instantiations : Instantiate(i)
    /\ bank = Genesis
    /\ market \in Markets
    /\ now = StartTime
    /\ phase = "idle"
    /\ call = NotRunning
    /\ queue = << >>
    /\ gas = 0
    /\ hist = NewHistory(cfg)
    /\ flow = NoFlow
    /\ saved = [cfg |-> cfg, bank |-> bank, hist |-> hist]

-----------------------------------------------------------------------------
(***************************************************************************)
(* The handlers: sender s calls the proxy with ExecuteMsg c while `rest`   *)
(* is still to be dispatched.                                              *)
(***************************************************************************)
Return(out, rest) ==
    /\ phase' = "dispatch"
    /\ call' = NotRunning
    /\ queue' = out \o rest

\* execute_execute, first branch: whatever the owner sends is passed on.
ExecuteUnchecked(s, c, rest) ==
    /\ c.type \in ExecuteTypes
    /\ Unchecked(s)
    /\ Return(IF c.type = "sim_execute" THEN << >>
              ELSE [n \in DOMAIN c.msgs |-> Out(c.msgs[n], "owner", 0)], rest)
    /\ UNCHANGED <<cfg, hist>>

\* Second branch: the first message to an authorized token contract is passed
\* on, simulated or not, and the others are dropped.
ExecuteAuthorized(s, c, rest) ==
    /\ c.type \in ExecuteTypes
    /\ ~Unchecked(s)
    /\ c.msgs # << >>
    /\ Authorized(Head(c.msgs), s)
    /\ Return(<<Out(Head(c.msgs), "token", 0)>>, rest)
    /\ UNCHANGED <<cfg, hist>>

\* Otherwise every message is checked, by the steps below.
ExecuteChecked(s, c, rest) ==
    /\ c.type \in ExecuteTypes
    /\ ~Unchecked(s)
    /\ c.msgs # << >>
    /\ ~Authorized(Head(c.msgs), s)
    /\ phase' = "check"
    /\ call' = [sender |-> s, sim |-> c.type = "sim_execute", msgs |-> c.msgs,
                coins |-> << >>, out |-> << >>]
    /\ queue' = rest
    /\ UNCHANGED <<cfg, hist>>

AddHotWallet(s, c, rest) ==
    /\ c.type = "add_hot_wallet"
    /\ IsAdmin(s)
    /\ ~IsHotWallet(c.new_hot_wallet.address)
    /\ c.new_hot_wallet.address \in Addr
    /\ cfg' = [cfg EXCEPT !.hot_wallets = Append(@, c.new_hot_wallet)]
    /\ hist' = [hist EXCEPT
                   !.ledger[c.new_hot_wallet.address] = Opened(c.new_hot_wallet, now),
                   !.revoked = @ \ {c.new_hot_wallet.address}]
    /\ Return(<< >>, rest)

\* Slip: only the first wallet of the address is taken out.
RetainRest(wallets, doomed) ==
    LET first == CHOOSE i \in FirstOf(wallets, doomed) : TRUE
    IN  {[n \in 1 .. Len(wallets) - 1 |-> wallets[IF n < first THEN n ELSE n + 1]]}

\* Slip: the wallets of the address are kept and the others taken out.
RetainDoomed(wallets, doomed) ==
    {SelectSeq(wallets, LAMBDA w : w.address = doomed)}

\* rm_hot_wallet of state.rs retains the wallets of other addresses.
Retain(wallets, doomed) ==
    LET kept == {i \in DOMAIN wallets : wallets[i].address # doomed}
    IN  {[n \in 1 .. Cardinality(kept) |-> wallets[f[n]]] :
            f \in {f \in [1 .. Cardinality(kept) -> kept] :
                      /\ \A m, n \in DOMAIN f : m < n => f[m] < f[n]
                      /\ \A i \in kept : \E n \in DOMAIN f : f[n] = i}}

RmHotWallet(s, c, rest) ==
    /\ c.type = "rm_hot_wallet"
    /\ IsAdmin(s)
    /\ IsHotWallet(c.doomed_hot_wallet)
    /\ \E wallets \in Retain(cfg.hot_wallets, c.doomed_hot_wallet) :
          cfg' = [cfg EXCEPT !.hot_wallets = wallets]
    /\ hist' = [hist EXCEPT !.ledger[c.doomed_hot_wallet] = Unopened,
                            !.revoked = @ \cup {c.doomed_hot_wallet}]
    /\ Return(<< >>, rest)

\* Slip: the proposed address is not validated.
ProposeAnyone(s, c, rest) ==
    /\ c.type = "propose_update_admin"
    /\ IsAdmin(s)
    /\ cfg' = [cfg EXCEPT !.pending = c.new_admin]
    /\ hist' = Proposed(hist, s, c.new_admin)
    /\ Return(<< >>, rest)

ProposeUpdateAdmin(s, c, rest) ==
    /\ c.type = "propose_update_admin"
    /\ IsAdmin(s)
    /\ c.new_admin \in Addr
    /\ cfg' = [cfg EXCEPT !.pending = c.new_admin]
    /\ hist' = Proposed(hist, s, c.new_admin)
    /\ Return(<< >>, rest)

\* Slip: the owner confirms the proposal in the new owner's place.
ConfirmByOwner(s, c, rest) ==
    /\ c.type = "confirm_update_admin"
    /\ c.signers \subseteq Addr
    /\ IsAdmin(s)
    /\ cfg' = [cfg EXCEPT !.admin = cfg.pending]
    /\ hist' = [hist EXCEPT !.accepter = s]
    /\ Return(<< >>, rest)

\* confirm_update_admin, and execute_update_admin without `cancel`.
ConfirmUpdateAdmin(s, c, rest) ==
    /\ c.type = "confirm_update_admin"
    /\ c.signers \subseteq Addr
    /\ cfg.pending = s
    /\ cfg' = [cfg EXCEPT !.admin = cfg.pending]
    /\ hist' = [hist EXCEPT !.accepter = s]
    /\ Return(<< >>, rest)

\* Slip: a proposal that is cancelled stays where it is.
CancelInName(s, c, rest) ==
    /\ c.type = "cancel_update_admin"
    /\ cfg.pending = s
    /\ hist' = Withdrawn(hist)
    /\ UNCHANGED cfg
    /\ Return(<< >>, rest)

\* execute_update_admin with `cancel`: the caller must be the pending admin.
CancelUpdateAdmin(s, c, rest) ==
    /\ c.type = "cancel_update_admin"
    /\ cfg.pending = s
    /\ cfg' = [cfg EXCEPT !.pending = cfg.admin]
    /\ hist' = Withdrawn(hist)
    /\ Return(<< >>, rest)

Handle(s, c, rest) ==
    /\ \/ ExecuteUnchecked(s, c, rest)
       \/ ExecuteAuthorized(s, c, rest)
       \/ ExecuteChecked(s, c, rest)
       \/ AddHotWallet(s, c, rest)
       \/ RmHotWallet(s, c, rest)
       \/ ProposeUpdateAdmin(s, c, rest)
       \/ ConfirmUpdateAdmin(s, c, rest)
       \/ CancelUpdateAdmin(s, c, rest)
    /\ UNCHANGED <<bank, market, now, flow, saved>>

-----------------------------------------------------------------------------
(***************************************************************************)
(* The loop of execute_execute, over call.msgs.                            *)
(***************************************************************************)
Spends(m) == MsgType(m) \in SpendTypes

\* The first message is done: pass it on, unless this is a simulation.
NextMsg(origin) ==
    call' = [call EXCEPT !.msgs = Tail(@),
                         !.out = IF call.sim THEN @
                                 ELSE Append(@, Out(Head(call.msgs), origin, 0))]

\* Slip: the repayment is left out when a hot wallet is the sender.
RepayForOwnerOnly ==
    /\ phase = "check" /\ call.msgs # << >>
    /\ Spends(Head(call.msgs))
    /\ cfg.uusd_fee_debt > 0
    /\ \E coin \in RepayCoins(MsgFunds(Head(call.msgs))) :
          call' = IF call.sim \/ ~IsAdmin(call.sender) THEN call
                  ELSE [call EXCEPT !.out =
                           Append(@, Out(RepayMsg(coin), "repay", cfg.uusd_fee_debt))]
    /\ cfg' = [cfg EXCEPT !.uusd_fee_debt = 0]
    /\ hist' = IF call.sim THEN [hist EXCEPT !.fees.waived = @ + cfg.uusd_fee_debt]
               ELSE hist
    /\ UNCHANGED <<bank, market, now, phase, queue, gas, flow, saved>>

\* check_coins and try_repay_debt: a debt is repaid before any spending.  The
\* new state is stored whether the repayment is going to be sent or not.
RepayDebt ==
    /\ phase = "check" /\ call.msgs # << >>
    /\ Spends(Head(call.msgs))
    /\ cfg.uusd_fee_debt > 0
    /\ \E coin \in RepayCoins(MsgFunds(Head(call.msgs))) :
          call' = IF call.sim THEN call
                  ELSE [call EXCEPT !.out =
                           Append(@, Out(RepayMsg(coin), "repay", cfg.uusd_fee_debt))]
    /\ cfg' = [cfg EXCEPT !.uusd_fee_debt = 0]
    /\ hist' = IF call.sim THEN [hist EXCEPT !.fees.waived = @ + cfg.uusd_fee_debt]
               ELSE hist
    /\ UNCHANGED <<bank, market, now, phase, queue, gas, flow, saved>>

\* Slip: whoever the sender is, his messages are passed as the owner's are.
PassAnyone ==
    /\ phase = "check" /\ call.msgs # << >>
    /\ \/ Spends(Head(call.msgs)) /\ cfg.uusd_fee_debt = 0
       \/ MsgType(Head(call.msgs)) \in OtherCalls
    /\ NextMsg("debtor")
    /\ UNCHANGED <<cfg, bank, market, now, phase, queue, gas, hist, flow, saved>>

\* The owner, who is here because of a debt, has no limit.
PassOwner ==
    /\ phase = "check" /\ call.msgs # << >>
    /\ IsAdmin(call.sender)
    /\ \/ Spends(Head(call.msgs)) /\ cfg.uusd_fee_debt = 0
       \/ MsgType(Head(call.msgs)) \in OtherCalls
    /\ NextMsg("debtor")
    /\ UNCHANGED <<cfg, bank, market, now, phase, queue, gas, hist, flow, saved>>

AdmitWallet ==
    /\ phase = "check" /\ call.msgs # << >>
    /\ Spends(Head(call.msgs)) /\ cfg.uusd_fee_debt = 0
    /\ ~IsAdmin(call.sender)
    /\ \E i \in FirstWallet(call.sender) : \E w \in Due(cfg.hot_wallets[i]) :
          /\ cfg' = [cfg EXCEPT !.hot_wallets[i] = w]
          /\ hist' = IF ShouldReset(cfg.hot_wallets[i], now)
                     THEN [hist EXCEPT !.ledger[call.sender] = Reopened(@, w)]
                     ELSE hist
    /\ phase' = "charge"
    /\ call' = [call EXCEPT !.coins = MsgFunds(Head(call.msgs))]
    /\ UNCHANGED <<bank, market, now, queue, gas, flow, saved>>

\* process_spend_vec and reduce_limit: one coin.
ChargeCoin ==
    /\ phase = "charge" /\ call.coins # << >>
    /\ \E i \in FirstWallet(call.sender), usd \in ToUsdc(market, Head(call.coins)) :
       \E w \in ReduceLimit(cfg.hot_wallets[i], usd.amount) :
          /\ cfg' = [cfg EXCEPT !.hot_wallets[i] = w]
          /\ hist' = [hist EXCEPT !.ledger[call.sender] = Charged(@, usd.amount)]
    /\ flow' = [flow EXCEPT !.charged[Head(call.coins).denom] =
                                @ + Head(call.coins).amount]
    /\ call' = [call EXCEPT !.coins = Tail(@)]
    /\ UNCHANGED <<bank, market, now, phase, queue, gas, saved>>

PassWallet ==
    /\ phase = "charge" /\ call.coins = << >>
    /\ phase' = "check"
    /\ NextMsg("limit")
    /\ UNCHANGED <<cfg, bank, market, now, queue, gas, hist, flow, saved>>

EndExecute ==
    /\ phase = "check" /\ call.msgs = << >>
    /\ Return(call.out, queue)
    /\ UNCHANGED <<cfg, bank, market, now, gas, hist, flow, saved>>

-----------------------------------------------------------------------------
(***************************************************************************)
(* The chain, which is not part of the contract: transactions, the         *)
(* dispatch of messages, and the bank.                                     *)
(***************************************************************************)
Submit(s, c) ==
    /\ phase = "idle"
    /\ gas' = MaxGas
    /\ Handle(s, c, << >>)

NextOut == Head(queue).msg
Dispatching == phase = "dispatch" /\ queue # << >> /\ gas > 0

\* One coin of the next message leaves the proxy, or is sent to the proxy.
SendCoin ==
    /\ Dispatching /\ NextOut.funds # << >>
    /\ LET coin == Head(NextOut.funds)
       IN  /\ coin.denom \in NativeDenoms
           /\ coin.amount <= bank[coin.denom]
           /\ bank' = IF NextOut.to = Proxy THEN bank
                      ELSE [bank EXCEPT ![coin.denom] = @ - coin.amount]
           /\ flow' = IF Head(queue).origin = "limit"
                      THEN [flow EXCEPT !.sent[coin.denom] = @ + coin.amount]
                      ELSE flow
    /\ queue' = [queue EXCEPT ![1].msg.funds = Tail(@)]
    /\ UNCHANGED <<cfg, market, now, phase, call, gas, hist, saved>>

Calling(contracts) == NextOut.kind = "wasm_execute" /\ NextOut.to \in contracts
Sent == Dispatching /\ NextOut.funds = << >> /\ gas' = gas - 1

\* The rest of a message's effect is outside of the proxy.
FinishMsg ==
    /\ Sent
    /\ NextOut.kind # "wasm_execute" \/ Calling(Contracts)
    /\ queue' = Tail(queue)
    /\ hist' = IF Head(queue).origin = "repay"
               THEN [hist EXCEPT !.fees.paid = @ + Head(queue).usd]
               ELSE hist
    /\ UNCHANGED <<cfg, bank, market, now, phase, call, flow, saved>>

\* A message of the proxy to itself.
CallSelf ==
    /\ Sent
    /\ Calling({Proxy}) /\ NextOut.inner # NoCall
    /\ Handle(Proxy, NextOut.inner, Tail(queue))

\* A contract that was called, or one that it calls, calls the proxy.
CallBack(s, c) ==
    /\ Sent
    /\ Calling(Contracts)
    /\ Handle(s, c, queue)

Commit ==
    /\ phase = "dispatch" /\ queue = << >>
    /\ phase' = "idle"
    /\ gas' = 0
    /\ flow' = NoFlow
    /\ saved' = [cfg |-> cfg, bank |-> bank, hist |-> hist]
    /\ UNCHANGED <<cfg, bank, market, now, call, queue, hist>>

\* An error, a panic, or no more gas.
Abort ==
    /\ phase # "idle"
    /\ phase' = "idle"
    /\ cfg' = saved.cfg
    /\ bank' = saved.bank
    /\ hist' = saved.hist
    /\ call' = NotRunning
    /\ queue' = << >>
    /\ gas' = 0
    /\ flow' = NoFlow
    /\ UNCHANGED <<market, now, saved>>

\* Prices move when the proxy is not running.
Trade ==
    /\ phase \in {"idle", "dispatch"}
    /\ market' \in Markets \ {market}
    /\ UNCHANGED <<cfg, bank, now, phase, call, queue, gas, hist, flow, saved>>

Tick ==
    /\ phase = "idle"
    /\ now < MaxTime
    /\ now' = now + 1
    /\ UNCHANGED <<cfg, bank, market, phase, call, queue, gas, hist, flow, saved>>

Next ==
    \/ phase = "idle" /\ \E s \in Addr \ {Proxy}, c \in Calls : Submit(s, c)
    \/ RepayDebt \/ PassOwner \/ AdmitWallet \/ ChargeCoin \/ PassWallet
    \/ EndExecute
    \/ SendCoin \/ FinishMsg \/ CallSelf
    \/ Dispatching /\ \E s \in Contracts, c \in Calls : CallBack(s, c)
    \/ Commit \/ Abort \/ Trade \/ Tick

Spec == Init /\ [][Next]_vars
-----------------------------------------------------------------------------
(***************************************************************************)
(* Properties.                                                             *)
(***************************************************************************)
TypeOK ==
    /\ cfg \in State
    /\ bank \in Balances
    /\ market \in Markets
    /\ now \in Nat
    /\ phase \in Phases
    /\ call \in Running
    /\ phase = "charge" => call.msgs # << >>
    /\ queue \in Seq(Outgoing)
    /\ gas \in 0 .. MaxGas
    /\ hist \in History
    /\ flow \in [charged : [Denom -> Nat], sent : [Denom -> Nat]]
    /\ saved \in [cfg : State, bank : Balances, hist : History]

Adds(l, w) == l.charged + Remaining(w) = l.budget + l.lost

\* What a hot wallet was charged since its last reset and what is left of its
\* limit are together what the period allowed it, and what the cast from u128
\* to u64 lost, however the messages, the coins in them, nested calls,
\* removals and failures follow each other.  (check_and_update_spend_limits,
\* reset_period and reduce_limit.)
WithinBudget(c, h) ==
    \A a \in Names : \A i \in FirstOf(c.hot_wallets, a) :
        Adds(h.ledger[a], c.hot_wallets[i])
PeriodBudget == WithinBudget(cfg, hist)

\* No coin leaves under a spend limit that was not charged to one before in
\* the same transaction: the classification sees every coin of the messages
\* it lets through.  (process_and_get_msg_type against what the bank sends.)
SentWasCharged == \A d \in Denom : flow.sent[d] <= flow.charged[d]

\* A wallet does not get its limit back more often than its period says,
\* whenever it spends and however long it does not.  (reset_period.)
MonthIndex(t) == t \div SecondsPerMonth
Rollovers(w, l) ==
    l.resets > 0 /\ w.period_multiple > 0 =>
        IF w.period_type = "DAYS"
        THEN (l.resets - 1) * (w.period_multiple * SecondsPerDay + 1) <= now - l.since
        ELSE (l.resets - 1) * w.period_multiple <= MonthIndex(now) - MonthIndex(l.since)
RolloverRate ==
    \A a \in Names : \A i \in FirstWallet(a) :
        Rollovers(cfg.hot_wallets[i], hist.ledger[a])

\* What is taken from a limit over the whole life of its wallet is no more than
\* what it was installed with, and one limit for each period that has passed
\* since and one more: what expires unused is gone, nothing is given back but
\* by a reset, and resets keep their distance.  (reset_period, reset_limits and
\* reduce_limit, over any number of transactions.)
Affordable(w, l) ==
    w.period_multiple > 0 =>
        LET more == l.taken - l.first - Limit(w)
        IN  IF w.period_type = "DAYS"
            THEN more * (w.period_multiple * SecondsPerDay + 1) <= (now - l.since) * Limit(w)
            ELSE more * w.period_multiple
                   <= (MonthIndex(now) - MonthIndex(l.since)) * Limit(w)
SpendingRate ==
    \A a \in Names : \A i \in FirstWallet(a) :
        Affordable(cfg.hot_wallets[i], hist.ledger[a])

\* The fee debt is paid once, or still owed, or was dropped by a simulation:
\* no transaction loses it, pays it twice or pays it partly.  (try_repay_debt
\* stores the state before the repayment is even attached.)
FeesConserved ==
    phase = "idle" =>
        hist.fees.paid + hist.fees.waived + cfg.uusd_fee_debt = hist.fees.owed

\* What the proxy is not asked to repay first does not leave first: when coins,
\* burns, allowances or cw20 tokens leave by a message that spends, or anything
\* leaves that the owner sent unchecked, the fee was paid or waived, or all that
\* is missing of it waits in the queue of the same transaction, which cannot end
\* well without it.  Only the messages to authorized token contracts are
\* excepted.  (check_coins, and execute_execute when it is called again between
\* try_repay_debt and the payment.)
CoinsLeave == \E d \in NativeDenoms : bank'[d] < bank[d]
FeeSecured ==
    \/ hist.fees.paid + hist.fees.waived = hist.fees.owed
    \/ \E n \in DOMAIN queue :
          /\ queue[n].origin = "repay"
          /\ hist.fees.paid + hist.fees.waived + queue[n].usd = hist.fees.owed
AfterTheFee(o) ==
    /\ Spends(o.msg) \/ o.origin = "owner"
    /\ o.origin \notin {"repay", "token"}
DebtFirst ==
    [][(CoinsLeave \/ FinishMsg) /\ AfterTheFee(Head(queue)) => FeeSecured]_vars

\* check_coins stores the repayment of a debt before anybody has looked at the
\* sender; still no stranger has the debt repaid out of the proxy: his call
\* never gets to the end of the loop.  (check_and_spend_total_coins,
\* check_coins, check_and_update_spend_limits.)
OnlyForTheKnown ==
    [][EndExecute => IsAdmin(call.sender) \/ IsHotWallet(call.sender)]_vars

\* A price is in USDC, whichever coin it is asked for: reduce_limit subtracts
\* the amount of an answer without a look at its denom, and create_query_msg
\* labels every answer of a LoopType pair with its second denom, which does
\* no harm only because process_query never understands one.
PricesInUsdc ==
    \A d \in Denom : \A usd \in ToUsdc(market, [denom |-> d, amount |-> 1]) :
        usd.denom = USDC

\* The coin that repays the debt is not worth more than the debt at the prices
\* of that time.  (convert_debt_to_asset_spent: whether the three booleans of
\* query_contract turn the conversion the right way.)
NotOverpaid ==
    [][RepayDebt /\ ~call.sim =>
          LET out == call'.out[Len(call'.out)]
          IN  \A price \in ToUsdc(market, out.msg.funds[1]) : price.amount <= out.usd]_vars

\* The owner accepted the ownership itself; whoever is pending was proposed by
\* the owner of now, not by an earlier one; and nobody whose proposal was
\* replaced or taken back is pending or owns the proxy, unless he was proposed
\* again.  (execute_update_admin and propose_update_admin, also when the two
\* race in one transaction.)
Consent(c, h) ==
    /\ c.admin = h.accepter
    /\ c.pending # c.admin => h.proposer = c.admin
    /\ {c.admin, c.pending} \cap h.withdrawn = {}
HandoverConsent == Consent(cfg, hist)

\* A removed hot wallet has no wallet left until it is added again, also when
\* instantiate stored several for it.  (rm_hot_wallet.)
NoneRevoked(c, h) == \A i \in DOMAIN c.hot_wallets : c.hot_wallets[i].address \notin h.revoked
RevokedStaysRevoked == NoneRevoked(cfg, hist)

(***************************************************************************)
(* The account that the proxy implements.                                  *)
(***************************************************************************)
\* What the first wallet of each address allows it.
AllowanceOf(wallets) ==
    [a \in {a \in Names : FirstOf(wallets, a) # {}} |->
        LET w == wallets[CHOOSE i \in FirstOf(wallets, a) : TRUE]
        IN  [limit |-> Limit(w), left |-> Remaining(w)]]

Account == INSTANCE Account WITH
    owner <- cfg.admin,
    candidate <- cfg.pending,
    allowance <- AllowanceOf(cfg.hot_wallets),
    debt <- cfg.uusd_fee_debt,
    kept <- <<saved.cfg.admin, saved.cfg.pending,
              AllowanceOf(saved.cfg.hot_wallets), saved.cfg.uusd_fee_debt>>

\* Every step of the proxy, nested calls included, is one step of an account
\* or none: it hands over, admits, dismisses, renews or uses one allowance or
\* settles the debt, and never two of these; a transaction is kept or undone
\* as a whole.  (All handlers of contract.rs and state.rs.)
ImplementsAccount == Account!Spec

(***************************************************************************)
(* Properties the documentation claims and the code does not have.         *)
(***************************************************************************)
\* msg.rs: SimExecute "avoids attaching any messages".
SimAttachesNothing ==
    [][\A s \in Addr, c \in Calls :
           c.type = "sim_execute" /\ Submit(s, c) => queue' = << >>]_vars

\* msg.rs: CancelUpdateAdmin "must be called by current admin".
CancelledByOwner ==
    [][\A s \in Addr, c \in Calls :
           c.type = "cancel_update_admin" /\ Submit(s, c) => IsAdmin(s)]_vars

\* README: the fee debt is repaid, it does not go away unpaid.
NoFeeWaived == phase = "idle" => hist.fees.waived = 0

\* error.rs: RepayFeesFirst, "repay your fee debt before sending funds".
NothingLeavesInDebt ==
    [][CoinsLeave /\ Head(queue).origin # "repay" => cfg.uusd_fee_debt = 0]_vars

\* error.rs: CannotSpendMoreThanLimit, "more than your available spend limit".
NeverOverLimit ==
    phase = "idle" =>
        \A a \in Names : hist.ledger[a].charged <= hist.ledger[a].budget

\* error.rs: MultiSpendLimitsNotSupported, a stored wallet is a valid one.
StoredWalletsValid ==
    \A i \in DOMAIN cfg.hot_wallets : AssertIsValid(cfg.hot_wallets[i], LimitDenoms)

(***************************************************************************)
(* What it would take for them to hold: each of these keeps one kind of    *)
(* call away from the proxy, the one that its run shows to break a claim.  *)
(***************************************************************************)
\* The messages that calls of a type carry, nested calls included: theirs are
\* in Calls as well.
MessagesOf(type) ==
    UNION {{c.msgs[n] : n \in DOMAIN c.msgs} : c \in {c \in Calls : c.type = type}}

\* For SimAttachesNothing: no message to an authorized contract is simulated
\* as the first of its call.
TokensNotSimulated ==
    \A c \in Calls : c.type = "sim_execute" /\ c.msgs # << >> =>
        Head(c.msgs).kind # "wasm_execute" \/ Head(c.msgs).to \notin AuthorizedContracts

\* For NoFeeWaived: nothing is simulated.
NothingSimulated == \A c \in Calls : c.type # "sim_execute"

\* For NothingLeavesInDebt, which is about coins of the bank: the cw20 calls
\* that are no spends carry none.  (Tokens that an authorized token contract
\* moves are not in `bank`.)
OtherCallsCarryNothing ==
    \A m \in MessagesOf("execute") : MsgType(m) \in OtherCalls => m.funds = << >>

\* For NeverOverLimit: a coin that is charged is never worth as much as the
\* cast to 64 bits loses.
SpendsFitInU64 ==
    \A type \in ExecuteTypes : \A m \in MessagesOf(type) :
        \A n \in DOMAIN MsgFunds(m), prices \in Markets :
            \A usd \in ToUsdc(prices, MsgFunds(m)[n]) : usd.amount < U64

\* For StoredWalletsValid: the owner adds only what instantiate would accept.
AddedWalletsValid ==
    \A c \in Calls : c.type = "add_hot_wallet" =>
        AssertIsValid(c.new_hot_wallet, LimitDenoms)
=============================================================================
