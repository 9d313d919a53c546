----------------------------- MODULE MCObiProxy -----------------------------
(***************************************************************************)
(* Small instances of ObiProxy for TLC.  Addresses and denoms are the      *)
(* strings below; each run picks its calls, its wallets and its bounds.    *)
(* The local network is used: testtokens is its native coin.               *)
(***************************************************************************)
EXTENDS ObiProxy

\* "drink" is a contract the code authorizes and a hot wallet as well; "b@t"
\* does not validate as an address.
MCNames == {"owner", "heir", "bot", "drink", "proxy", "lender", "b@t"}
MCAddr == MCNames \ {"b@t"}
MCNativeDenoms == {"axlusdc", "testtokens"}
MCDenom == MCNativeDenoms \cup {"ujuno", "ujunox", "uloop"} \cup MCNames

\* In market r, a native coin is worth r USDC; amounts are
\* rounded down.
MCDex(r, p, q) ==
    LET answer == CASE q.type = "token1_for_token2_price" -> [shape |-> "token2_amount", amount |-> q.amount * r]
                    [] q.type = "token2_for_token1_price" -> [shape |-> "token1_amount", amount |-> q.amount \div r]
                    [] OTHER -> [shape |-> q.type, amount |-> q.amount]
    IN  IF answer.amount <= MaxUint128 THEN answer
        ELSE [shape |-> "error", amount |-> 0]

\* Nothing is gained at such a market by going there and back.
ASSUME MCNoRoundTripGain == NoRoundTripGain

-----------------------------------------------------------------------------
\* Coins and messages.
Usdc(n) == [denom |-> "axlusdc", amount |-> n]
Tokens(n) == [denom |-> "testtokens", amount |-> n]

Bank(funds) ==
    [kind |-> "bank_send", to |-> "heir", call |-> "opaque", amount |-> 0,
     funds |-> funds, inner |-> NoCall]
Wasm(to, payload, funds) ==
    [kind |-> "wasm_execute", to |-> to, call |-> payload, amount |-> 1,
     funds |-> funds, inner |-> NoCall]
Self(c) ==
    [kind |-> "wasm_execute", to |-> "proxy", call |-> "opaque", amount |-> 0,
     funds |-> << >>, inner |-> c]
Delegate(coin) ==
    [kind |-> "staking_delegate", to |-> "heir", call |-> "opaque", amount |-> 0,
     funds |-> <<coin>>, inner |-> NoCall]

Execute(msgs) == [type |-> "execute", msgs |-> msgs]
SimExecute(msgs) == [type |-> "sim_execute", msgs |-> msgs]
Add(w) == [type |-> "add_hot_wallet", new_hot_wallet |-> w]
Rm(a) == [type |-> "rm_hot_wallet", doomed_hot_wallet |-> a]
Propose(a) == [type |-> "propose_update_admin", new_admin |-> a]
Confirm(signers) == [type |-> "confirm_update_admin", signers |-> signers]
Cancel == [type |-> "cancel_update_admin"]

LimitedWallet(a, reset, period, multiple, amount, remaining) ==
    [address |-> a, current_period_reset |-> reset, period_type |-> period,
     period_multiple |-> multiple, usdc_denom |-> TRUE,
     spend_limits |-> <<[denom |-> "axlusdc", amount |-> amount,
                         limit_remaining |-> remaining]>>]

Instantiation(wallets, debt) ==
    [admin |-> "owner", hot_wallets |-> wallets, uusd_fee_debt |-> debt]

MCGenesis == [d \in MCNativeDenoms |-> IF d = "axlusdc" THEN 3 ELSE 4]

-----------------------------------------------------------------------------
\* limits: wallets with a daily limit spend coins of both kinds, through the
\* proxy directly and from inside of a dispatch.  Four tokens
\* cost 8, which is U64 in this run, so the cast of their price is 0.
SpendMixed == Execute(<<Bank(<<Usdc(1), Tokens(1)>>)>>)
LimitCalls ==
    {SpendMixed,
     Execute(<<Bank(<<Tokens(4)>>), Bank(<<Usdc(1)>>)>>),
     Execute(<<Wasm("drink", "send", << >>), Bank(<<Usdc(1)>>)>>),
     Execute(<<Wasm("lender", "transfer", <<Usdc(1)>>)>>),
     Execute(<<Self(SpendMixed), Self(Rm("bot"))>>),
     Rm("bot"), Add(LimitedWallet("bot", 0, "DAYS", 1, 4, 2)), Propose("b@t")}
Daily(a) == LimitedWallet(a, 1, "DAYS", 1, 4, 2)
LimitInstantiations ==
    {Instantiation(<<Daily("bot"), Daily("drink")>>, 0),
     Instantiation(<<Daily("proxy"), Daily("bot"), LimitedWallet("bot", 9, "DAYS", 2, 3, 3)>>, 0)}

\* months: two wallets with monthly limits around the turn of a year, one
\* that is also reset every 13 months and one that is over the limit at first.
MonthCalls ==
    {Execute(<<Bank(<<Usdc(1)>>)>>), SimExecute(<<Bank(<<Usdc(1)>>)>>),
     Add(LimitedWallet("bot", 21, "MONTHS", 3, 2, 1)), Rm("bot")}
Monthly(a, multiple) == LimitedWallet(a, 21, "MONTHS", multiple, 1, 2)
MonthInstantiations ==
    {Instantiation(<<Monthly("bot", m), Monthly("drink", n)>>, 0) : m \in {1, 2}, n \in {12, 13}}

\* debt: the owner and a wallet spend while a fee is owed, in coins that repay
\* it, coins that do not, and messages that are not asked to.
DebtCalls ==
    {Execute(<<Bank(<<Usdc(1)>>)>>),
     Execute(<<Wasm("drink", "transfer", << >>)>>),
     Execute(<<Wasm("drink", "transfer", <<Tokens(1)>>), Bank(<<Usdc(1)>>)>>),
     Execute(<<Wasm("drink", "transfer_from", <<Tokens(1)>>)>>),
     Execute(<<Wasm("drink", "transfer_from", <<Tokens(1)>>), Bank(<<Tokens(1)>>)>>),
     Execute(<<Bank(<<Tokens(1), Usdc(1)>>), Delegate(Usdc(1))>>),
     SimExecute(<<Bank(<<Usdc(1)>>)>>)}
DebtInstantiations ==
    {Instantiation(<<Daily("bot"), Daily("drink")>>, debt) : debt \in {2, 3}}

\* handover: ownership moves between people, a contract and the proxy itself,
\* and wallets are added and removed meanwhile.
HandoverCalls ==
    {Propose("heir"), Propose("proxy"), Propose("drink"), Propose("b@t"),
     Confirm({"heir"}), Confirm({"b@t"}), Cancel,
     Rm("bot"), Add(Daily("bot")),
     Execute(<<Self(Confirm({"heir"})), Wasm("drink", "opaque", << >>)>>),
     Execute(<<Wasm("drink", "opaque", << >>), Self(Propose("heir")), Self(Cancel)>>),
     Execute(<<Self(Rm("bot")), Bank(<<Usdc(1)>>)>>)}
HandoverInstantiations ==
    {Instantiation(<<Daily("drink"), Daily("bot"), Daily("heir"), Daily("bot")>>, 0)}

\* sim_attaches: a hot wallet simulates a message to an authorized contract.
SimCalls == {SimExecute(<<Wasm("drink", "send", << >>)>>)}

\* overflow: a spend whose price is 2^64 in the scaled-down width.
OverflowCalls == {Execute(<<Bank(<<Tokens(2)>>)>>), Execute(<<Bank(<<Usdc(1)>>)>>)}
OverflowInstantiations ==
    {Instantiation(<<LimitedWallet("bot", 9, "DAYS", 1, 3, 3)>>, 0)}

\* stored: a wallet with two limits and one without any are added.
TwoLimits == [Daily("bot") EXCEPT !.spend_limits = Append(@, Head(@))]
NoLimit == [Daily("bot") EXCEPT !.spend_limits = << >>]
StoredCalls == {Add(TwoLimits), Add(NoLimit)}
StoredInstantiations == {Instantiation(<< >>, 0)}

-----------------------------------------------------------------------------
\* Which calls meet the conditions under which the documented claims hold: each
\* condition fails in the run that refutes its claim, and is met by others.
ASSUME MCConditions ==
    /\ TokensNotSimulated <=> Calls # SimCalls
    /\ Calls \in {LimitCalls, HandoverCalls, OverflowCalls, StoredCalls} => NothingSimulated
    /\ Calls \in {MonthCalls, DebtCalls, SimCalls} => ~NothingSimulated
    /\ OtherCallsCarryNothing <=> Calls # DebtCalls
    /\ SpendsFitInU64 <=> Calls \notin {LimitCalls, OverflowCalls}
    /\ AddedWalletsValid <=> Calls # StoredCalls
=============================================================================
