--------------------------- MODULE ObiProxy_proofs ---------------------------
(***************************************************************************)
(* Theorems about ObiProxy.                                                *)
(***************************************************************************)
EXTENDS ObiProxy, TLAPS, FiniteSetTheorems, SequenceTheorems

-----------------------------------------------------------------------------
(***************************************************************************)
(* What the helpers return.                                                *)
(***************************************************************************)
\* The pairs of every network are between denoms.
LEMMA PairDenoms ==
    ASSUME NEW n \in DOMAIN PairContracts
    PROVE  PairContracts[n].denom1 \in Denom /\ PairContracts[n].denom2 \in Denom
  <1>1. PairContracts \in {PairsFor("ujuno"), PairsFor("ujunox"),
                           PairsFor("testtokens"), << >>}
    BY PricingAssumption DEF PairContracts, Networks
  <1>2. ASSUME NEW native \in {"ujuno", "ujunox", "testtokens"},
               PairContracts = PairsFor(native)
        PROVE  PairContracts[n].denom1 \in Denom /\ PairContracts[n].denom2 \in Denom
    BY <1>2, PricingAssumption DEF PairsFor, RepayableDenoms
  <1>3. PairContracts # << >>
    OBVIOUS
  <1> QED  BY <1>1, <1>2, <1>3

\* A simulated swap of an amount yields a coin.
LEMMA SimulateType ==
    ASSUME NEW m \in Markets, NEW from, NEW to, NEW amount \in Uint128,
           NEW target \in BOOLEAN, NEW coin \in Simulate(m, from, to, amount, target)
    PROVE  coin \in Coin
  <1>1. PICK n \in FirstPair(from, to), flip \in BOOLEAN :
            coin \in QueryContract(m, PairContracts[n], amount, flip)
    BY DEF Simulate, FlipAssets
  <1>2. n \in DOMAIN PairContracts
    BY DEF FirstPair
  <1> DEFINE answer == Dex(m, PairContracts[n], DexQuery(PairContracts[n], amount, flip))
  <1>3. answer \in [shape : Shapes, amount : Uint128]
    BY <1>2, PricingAssumption
  <1>4. coin = [denom |-> ResponseAsset(PairContracts[n], flip), amount |-> answer.amount]
    BY <1>1 DEF QueryContract
  <1>5. ResponseAsset(PairContracts[n], flip) \in Denom
    BY <1>2, PairDenoms DEF ResponseAsset
  <1> HIDE DEF answer
  <1> QED  BY <1>3, <1>4, <1>5 DEF Coin

\* What a coin is worth is a coin.
LEMMA ToUsdcType ==
    ASSUME NEW m \in Markets, NEW coin \in Coin, NEW usd \in ToUsdc(m, coin)
    PROVE  usd \in Coin
  <1>1. CASE coin.denom = USDC
    BY <1>1 DEF ToUsdc
  <1>2. CASE coin.denom # USDC
    <2>1. usd \in Simulate(m, coin.denom, USDC, coin.amount, FALSE)
      BY <1>2 DEF ToUsdc
    <2>2. coin.amount \in Uint128
      BY DEF Coin
    <2> QED  BY <2>1, <2>2, SimulateType
  <1> QED  BY <1>1, <1>2

\* What repays a debt is a coin.
LEMMA DebtInAssetType ==
    ASSUME NEW m \in Markets, NEW debt \in Uint128, NEW denom,
           NEW coin \in DebtInAsset(m, debt, denom)
    PROVE  coin \in Coin
  <1>1. CASE denom = USDC
    BY <1>1, PricingAssumption DEF DebtInAsset, Coin
  <1>2. CASE denom # USDC
    <2>1. coin \in Simulate(m, USDC, denom, debt, TRUE)
      BY <1>2 DEF DebtInAsset
    <2> QED  BY <2>1, SimulateType
  <1> QED  BY <1>1, <1>2

\* A message is charged for coins.
LEMMA MsgFundsType ==
    ASSUME NEW m \in Message
    PROVE  MsgFunds(m) \in Seq(Coin)
  <1>1. m.funds \in Seq(Coin) /\ [denom |-> m.to, amount |-> m.amount] \in Coin
    BY ObiProxyAssumption DEF Message, Coin
  <1> QED  BY <1>1, AppendProperties DEF MsgFunds

\* Resetting a wallet leaves a wallet with the address it had.
LEMMA ResetPeriodType ==
    ASSUME NEW w \in Wallet, NEW t \in Nat, NEW v \in ResetPeriod(w, t)
    PROVE  v \in Wallet /\ v.address = w.address
  <1>1. w.spend_limits # << >> /\ w.spend_limits \in Seq(CoinLimit(Denom))
    BY DEF ResetPeriod, Wallet, HotWallet
  <1>2. 1 \in DOMAIN w.spend_limits /\ w.spend_limits[1] \in CoinLimit(Denom)
    BY <1>1
  <1>3. PICK next \in NextReset(w, t) :
            v = [w EXCEPT !.current_period_reset = next,
                          !.spend_limits[1].limit_remaining = w.spend_limits[1].amount]
    BY <1>1 DEF ResetPeriod
  <1>4. next \in Nat
    <2>1. w.period_multiple \in Nat
      <3>1. w.period_multiple \in MultipleRange
        BY DEF Wallet, HotWallet
      <3>2. MaxU16 \in Nat
        BY DEF MaxU16
      <3> QED  BY <3>1, <3>2 DEF MultipleRange
    <2>2. SecondsPerDay \in Nat /\ SecondsPerMonth \in Nat
      BY HotWalletsAssumption
    <2>3. \A x, y \in Nat : x * y \in Nat
      OBVIOUS
    <2>4. CASE next \in NextResetDays(w, t)
      BY <2>1, <2>2, <2>3, <2>4 DEF NextResetDays
    <2>5. CASE next \in NextResetMonths(w, t)
      <3>1. Year(t) \in Nat
        BY HotWalletsAssumption DEF Year
      <3>2. \A year \in Nat, month \in Nat \ {0} : FirstOfMonth(year, month) \in Nat
        BY <2>2, <2>3 DEF FirstOfMonth
      <3>3. Month(t) \in Nat
        BY HotWalletsAssumption DEF Month
      <3> DEFINE working == Month(t) + w.period_multiple
      <3>4. working \in Nat
        BY <2>1, <3>3
      <3>5. \/ next = FirstOfMonth(Year(t), working) /\ working \in 2 .. 12
            \/ /\ next = FirstOfMonth(Year(t) + working \div 12, working % 12)
               /\ working \in 13 .. 268 /\ working % 12 # 0
        BY <2>5 DEF NextResetMonths
      <3> HIDE DEF working
      <3> QED  BY <3>1, <3>2, <3>4, <3>5
    <2> QED  BY <2>4, <2>5 DEF NextReset
  <1> DEFINE limits == [w.spend_limits EXCEPT
                           ![1].limit_remaining = w.spend_limits[1].amount]
  <1>5. limits \in Seq(CoinLimit(Denom))
    BY <1>1, <1>2 DEF CoinLimit
  <1>6. v = [w EXCEPT !.current_period_reset = next, !.spend_limits = limits]
    BY <1>3
  <1> HIDE DEF limits
  <1> QED  BY <1>4, <1>5, <1>6 DEF Wallet, HotWallet

\* So does the check whether it is due.
LEMMA DueType ==
    ASSUME NEW w \in Wallet, now \in Nat, NEW v \in Due(w)
    PROVE  v \in Wallet /\ v.address = w.address
  BY ResetPeriodType DEF Due

\* Charging a wallet leaves a wallet with the address it had, less what it
\* was charged for modulo the width of the limit.
LEMMA ReduceLimitType ==
    ASSUME NEW w \in Wallet, NEW usd \in Nat, NEW v \in ReduceLimit(w, usd)
    PROVE  /\ v \in Wallet /\ v.address = w.address
           /\ Remaining(v) = Remaining(w) - (usd % U64) /\ Limit(v) = Limit(w)
  <1>1. w.spend_limits # << >> /\ w.spend_limits \in Seq(CoinLimit(Denom))
    BY DEF ReduceLimit, Wallet, HotWallet
  <1>2. 1 \in DOMAIN w.spend_limits /\ w.spend_limits[1] \in CoinLimit(Denom)
    BY <1>1
  <1> DEFINE left == w.spend_limits[1].limit_remaining - (usd % U64)
             limits == [w.spend_limits EXCEPT ![1].limit_remaining = left]
  <1>3. v = [w EXCEPT !.spend_limits = limits]
    BY <1>1 DEF ReduceLimit
  <1>4. left \in LimitAmount
    <2>1. usd % U64 \in Nat
      BY HotWalletsAssumption
    <2>2. ~(usd % U64 > w.spend_limits[1].limit_remaining)
      BY DEF ReduceLimit
    <2>3. w.spend_limits[1].limit_remaining \in LimitAmount
      BY <1>2 DEF CoinLimit
    <2> QED  BY <2>1, <2>2, <2>3, HotWalletsAssumption DEF LimitAmount
  <1> HIDE DEF left
  <1>5. /\ limits \in Seq(CoinLimit(Denom)) /\ limits # << >>
        /\ limits[1].limit_remaining = left /\ limits[1].amount = w.spend_limits[1].amount
    BY <1>1, <1>2, <1>4 DEF CoinLimit
  <1> HIDE DEF limits
  <1>6. v \in Wallet /\ v.address = w.address /\ v.spend_limits = limits
    BY <1>3, <1>5 DEF Wallet, HotWallet
  <1> QED  BY <1>1, <1>5, <1>6 DEF Remaining, Limit, left

\* A reset gives the whole limit back and keeps it as it is.
LEMMA ResetLimit ==
    ASSUME NEW w \in Wallet, NEW t, NEW v \in ResetPeriod(w, t)
    PROVE  Limit(v) = Limit(w) /\ Remaining(v) = Limit(w)
  <1>1. w.spend_limits # << >> /\ w.spend_limits \in Seq(CoinLimit(Denom))
    BY DEF ResetPeriod, Wallet, HotWallet
  <1>2. 1 \in DOMAIN w.spend_limits /\ w.spend_limits[1] \in CoinLimit(Denom)
    BY <1>1
  <1> DEFINE limits == [w.spend_limits EXCEPT
                           ![1].limit_remaining = w.spend_limits[1].amount]
  <1>3. /\ limits # << >> /\ limits[1].amount = w.spend_limits[1].amount
        /\ limits[1].limit_remaining = w.spend_limits[1].amount
    BY <1>1, <1>2 DEF CoinLimit
  <1>4. PICK next \in NextReset(w, t) :
            v = [w EXCEPT !.current_period_reset = next,
                          !.spend_limits[1].limit_remaining = w.spend_limits[1].amount]
    BY <1>1 DEF ResetPeriod
  <1>5. v = [w EXCEPT !.current_period_reset = next, !.spend_limits = limits]
    BY <1>4
  <1> HIDE DEF limits
  <1>6. v.spend_limits = limits
    BY <1>5 DEF Wallet, HotWallet
  <1> QED  BY <1>1, <1>3, <1>6 DEF Limit, Remaining

\* What is left of a wallet's limit is an amount.
LEMMA RemainingType ==
    ASSUME NEW w \in Wallet
    PROVE  Remaining(w) \in LimitAmount
  <1>1. CASE w.spend_limits = << >>
    BY <1>1, HotWalletsAssumption DEF Remaining, LimitAmount
  <1>2. CASE w.spend_limits # << >>
    <2>1. w.spend_limits[1] \in CoinLimit(Denom)
      BY <1>2 DEF Wallet, HotWallet
    <2> QED  BY <1>2, <2>1 DEF Remaining, CoinLimit
  <1> QED  BY <1>1, <1>2

\* What a debt is repaid with is a coin.
LEMMA RepayCoinsType ==
    ASSUME market \in Markets, cfg.uusd_fee_debt \in Uint128,
           NEW coins \in Seq(Coin), NEW coin \in RepayCoins(coins)
    PROVE  coin \in Coin
  <1>1. PICK n \in DOMAIN coins : coin \in DebtInAsset(market, cfg.uusd_fee_debt, coins[n].denom)
    BY DEF RepayCoins
  <1> QED  BY <1>1, DebtInAssetType

\* The first wallet of an address is one of the wallets.
LEMMA FirstOfType ==
    ASSUME NEW wallets, NEW a, NEW i \in FirstOf(wallets, a)
    PROVE  i \in DOMAIN wallets /\ wallets[i].address = a
  BY DEF FirstOf

\* Taking out a wallet leaves a sequence of some of the others.
LEMMA RetainType ==
    ASSUME NEW wallets \in Seq(Wallet), NEW doomed, NEW rest \in Retain(wallets, doomed)
    PROVE  /\ rest \in Seq(Wallet)
           /\ \A n \in DOMAIN rest : \E i \in DOMAIN wallets :
                 rest[n] = wallets[i] /\ wallets[i].address # doomed
  <1> DEFINE kept == {i \in DOMAIN wallets : wallets[i].address # doomed}
  <1>1. PICK f \in [1 .. Cardinality(kept) -> kept] :
            rest = [n \in 1 .. Cardinality(kept) |-> wallets[f[n]]]
    BY DEF Retain
  <1>2. Cardinality(kept) \in Nat
    <2>1. IsFiniteSet(1 .. Len(wallets))
      BY FS_Interval
    <2>2. kept \subseteq 1 .. Len(wallets)
      OBVIOUS
    <2> QED  BY <2>1, <2>2, FS_Subset, FS_CardinalityType
  <1>3. \A n \in 1 .. Cardinality(kept) :
            f[n] \in DOMAIN wallets /\ wallets[f[n]] \in Wallet /\ wallets[f[n]].address # doomed
    BY <1>1
  <1> HIDE DEF kept
  <1> QED  BY <1>1, <1>2, <1>3

\* A fresh ledger, and one that starts again, are ledgers.
LEMMA LedgerType ==
    ASSUME NEW w \in Wallet, NEW t \in Nat, NEW l \in Ledger
    PROVE  Opened(w, t) \in Ledger /\ Unopened \in Ledger /\ Reopened(l, w) \in Ledger
  <1>1. Remaining(w) \in LimitAmount /\ 0 \in LimitAmount
    BY RemainingType, HotWalletsAssumption DEF LimitAmount
  <1>2. Opened(w, t) \in Ledger /\ Unopened \in Ledger
    BY <1>1 DEF Opened, Unopened, Ledger
  <1>3. Reopened(l, w) \in Ledger
    <2>1. l.resets + 1 \in Nat
      BY DEF Ledger
    <2> QED  BY <1>1, <2>1 DEF Reopened, Ledger
  <1> QED  BY <1>2, <1>3

-----------------------------------------------------------------------------
(***************************************************************************)
(* Type correctness.  The handlers do not look at `gas`.                   *)
(***************************************************************************)
HandledOK ==
    /\ cfg \in State
    /\ phase \in Phases
    /\ call \in Running
    /\ queue \in Seq(Outgoing)
    /\ hist \in History

\* What `call` is between two handlers.
LEMMA NotRunningType == NotRunning \in Running
  BY ObiProxyAssumption DEF NotRunning, Running

\* A handler that ends leaves messages to dispatch.
LEMMA ReturnType ==
    ASSUME NEW out \in Seq(Outgoing), NEW rest \in Seq(Outgoing), Return(out, rest)
    PROVE  phase' \in Phases /\ call' \in Running /\ queue' \in Seq(Outgoing)
  BY NotRunningType, ConcatProperties DEF Return, Phases

\* A message that leaves, with where it comes from.
LEMMA OutType ==
    ASSUME NEW m \in Message, NEW origin \in Origins, NEW usd \in Uint128
    PROVE  Out(m, origin, usd) \in Outgoing
  BY DEF Out, Outgoing

\* No debt is an amount.
LEMMA ZeroType == 0 \in Uint128
  BY PricingAssumption DEF Uint128

\* Every handler leaves a state of the contract, see HandledOK.
LEMMA HandleType ==
    ASSUME HandledOK, now \in Nat, NEW s \in Addr, NEW c \in Calls,
           NEW rest \in Seq(Outgoing), Handle(s, c, rest)
    PROVE  HandledOK'
  <1>0. WellFormed(c) /\ s \in Names /\ << >> \in Seq(Outgoing)
    BY ObiProxyAssumption
  <1>1. CASE ExecuteUnchecked(s, c, rest)
    <2>1. c.msgs \in Seq(Message)
      BY <1>0, <1>1 DEF WellFormed, ExecuteUnchecked, ExecuteTypes
    <2>2. [n \in DOMAIN c.msgs |-> Out(c.msgs[n], "owner", 0)] \in Seq(Outgoing)
      BY <2>1, OutType, ZeroType DEF Origins
    <2> QED  BY <1>0, <1>1, <2>2, ReturnType DEF ExecuteUnchecked, HandledOK
  <1>2. CASE ExecuteAuthorized(s, c, rest)
    <2>1. c.msgs \in Seq(Message) /\ c.msgs # << >>
      BY <1>0, <1>2 DEF WellFormed, ExecuteAuthorized, ExecuteTypes
    <2>2. Out(Head(c.msgs), "token", 0) \in Outgoing
      BY <2>1, HeadTailProperties, OutType, ZeroType DEF Origins
    <2>3. <<Out(Head(c.msgs), "token", 0)>> \in Seq(Outgoing)
      BY <2>2
    <2> QED  BY <1>2, <2>3, ReturnType DEF ExecuteAuthorized, HandledOK
  <1>3. CASE ExecuteChecked(s, c, rest)
    <2>1. c.msgs \in Seq(Message)
      BY <1>0, <1>3 DEF WellFormed, ExecuteChecked, ExecuteTypes
    <2> QED  BY <1>0, <1>3, <2>1 DEF ExecuteChecked, HandledOK, Phases, Running
  <1>4. CASE AddHotWallet(s, c, rest)
    <2>1. c.new_hot_wallet \in Wallet /\ c.new_hot_wallet.address \in Names
      BY <1>0, <1>4, ObiProxyAssumption DEF WellFormed, AddHotWallet, ExecuteTypes
    <2>2. cfg' \in State
      BY <1>4, <2>1, AppendProperties DEF AddHotWallet, HandledOK, State
    <2>3. Opened(c.new_hot_wallet, now) \in Ledger
      BY <2>1, RemainingType DEF Opened, Ledger
    <2>4. hist' \in History
      BY <1>4, <2>1, <2>3 DEF AddHotWallet, HandledOK, History
    <2> QED  BY <1>0, <1>4, <2>2, <2>4, ReturnType DEF AddHotWallet, HandledOK
  <1>5. CASE RmHotWallet(s, c, rest)
    <2>1. c.doomed_hot_wallet \in Names
      BY <1>0, <1>5 DEF WellFormed, RmHotWallet, ExecuteTypes
    <2>2. cfg' \in State
      BY <1>5, RetainType DEF RmHotWallet, HandledOK, State
    <2>3. Unopened \in Ledger
      BY HotWalletsAssumption DEF Unopened, Ledger, LimitAmount
    <2>4. hist' \in History
      BY <1>5, <2>1, <2>3 DEF RmHotWallet, HandledOK, History
    <2> QED  BY <1>0, <1>5, <2>2, <2>4, ReturnType DEF RmHotWallet, HandledOK
  <1>6. CASE ProposeUpdateAdmin(s, c, rest)
    <2>1. cfg' \in State /\ hist' \in History
      BY <1>0, <1>6, ObiProxyAssumption
         DEF ProposeUpdateAdmin, Proposed, Candidate, HandledOK, State, History
    <2> QED  BY <1>0, <1>6, <2>1, ReturnType DEF ProposeUpdateAdmin, HandledOK
  <1>7. CASE ConfirmUpdateAdmin(s, c, rest)
    <2>1. cfg' \in State /\ hist' \in History
      BY <1>0, <1>7 DEF ConfirmUpdateAdmin, HandledOK, State, History
    <2> QED  BY <1>0, <1>7, <2>1, ReturnType DEF ConfirmUpdateAdmin, HandledOK
  <1>8. CASE CancelUpdateAdmin(s, c, rest)
    <2>1. cfg' \in State /\ hist' \in History
      BY <1>0, <1>8, ObiProxyAssumption
         DEF CancelUpdateAdmin, Withdrawn, Candidate, HandledOK, State, History
    <2> QED  BY <1>0, <1>8, <2>1, ReturnType DEF CancelUpdateAdmin, HandledOK
  <1> QED  BY <1>1, <1>2, <1>3, <1>4, <1>5, <1>6, <1>7, <1>8 DEF Handle

\* The first wallet of an address that has one is a wallet.
LEMMA ChosenType ==
    ASSUME NEW wallets \in Seq(Wallet), NEW a, FirstOf(wallets, a) # {}
    PROVE  /\ (CHOOSE i \in FirstOf(wallets, a) : TRUE) \in FirstOf(wallets, a)
           /\ wallets[CHOOSE i \in FirstOf(wallets, a) : TRUE] \in Wallet
  <1>1. (CHOOSE i \in FirstOf(wallets, a) : TRUE) \in FirstOf(wallets, a)
    OBVIOUS
  <1>2. \A i \in FirstOf(wallets, a) : wallets[i] \in Wallet
    BY FirstOfType
  <1> QED  BY <1>1, <1>2

\* The history of a fresh instance.
LEMMA NewHistoryType ==
    ASSUME NEW s \in State
    PROVE  NewHistory(s) \in History
  <1>1. ASSUME NEW a \in Names, FirstOf(s.hot_wallets, a) # {}
        PROVE  Opened(s.hot_wallets[CHOOSE i \in FirstOf(s.hot_wallets, a) : TRUE], StartTime)
                  \in Ledger
    <2>1. s.hot_wallets \in Seq(Wallet)
      BY DEF State
    <2>2. \A w \in Wallet : Opened(w, StartTime) \in Ledger
      BY RemainingType, ObiProxyAssumption DEF Opened, Ledger
    <2> QED  BY <1>1, <2>1, <2>2, ChosenType
  <1>2. Unopened \in Ledger
    BY HotWalletsAssumption DEF Unopened, Ledger, LimitAmount
  <1>3. s.uusd_fee_debt \in Uint128 /\ s.admin \in Names
    BY ObiProxyAssumption DEF State
  <1> QED  BY <1>1, <1>2, <1>3 DEF NewHistory, History

\* What a fresh instance and a finished transaction share.
LEMMA NoFlowType == NoFlow \in [charged : [Denom -> Nat], sent : [Denom -> Nat]]
  BY DEF NoFlow

\* instantiate stores a state of the contract.
LEMMA InitType == Init => TypeOK
  <1> SUFFICES ASSUME Init PROVE TypeOK
    OBVIOUS
  <1>1. PICK i \in Instantiations : Instantiate(i)
    BY DEF Init
  <1>2. i \in [admin : Addr, hot_wallets : Seq(Wallet), uusd_fee_debt : Uint128]
    BY ObiProxyAssumption
  <1>3. cfg \in State
    BY <1>1, <1>2 DEF Instantiate, State
  <1>4. hist \in History
    BY <1>3, NewHistoryType DEF Init
  <1> QED  BY <1>3, <1>4, NotRunningType, NoFlowType, ObiProxyAssumption
           DEF Init, TypeOK, Phases

\* check_coins keeps the type, and so do the steps of the loop below.
LEMMA RepayDebtType ==
    ASSUME TypeOK, RepayDebt PROVE TypeOK'
  <1>1. call.msgs \in Seq(Message) /\ Head(call.msgs) \in Message
    BY HeadTailProperties DEF TypeOK, Running, RepayDebt
  <1>2. cfg.uusd_fee_debt \in Uint128 /\ market \in Markets
    BY DEF TypeOK, State
  <1>3. PICK coin \in RepayCoins(MsgFunds(Head(call.msgs))) :
            call' = IF call.sim THEN call
                    ELSE [call EXCEPT !.out =
                             Append(@, Out(RepayMsg(coin), "repay", cfg.uusd_fee_debt))]
    BY DEF RepayDebt
  <1>4. coin \in Coin
    BY <1>1, <1>2, MsgFundsType, RepayCoinsType
  <1>5. RepayMsg(coin) \in Message
    BY <1>4, ZeroType, ObiProxyAssumption DEF RepayMsg, Message, MsgKinds, BankKinds
  <1>6. Out(RepayMsg(coin), "repay", cfg.uusd_fee_debt) \in Outgoing
    BY <1>2, <1>5, OutType DEF Origins
  <1>7. call' \in Running
    BY <1>3, <1>6, AppendProperties DEF TypeOK, Running
  <1>8. cfg' \in State
    BY ZeroType DEF RepayDebt, TypeOK, State
  <1>9. hist' \in History
    <2>1. hist.fees.waived + cfg.uusd_fee_debt \in Nat
      BY <1>2, PricingAssumption DEF TypeOK, History, Uint128
    <2> QED  BY <2>1 DEF RepayDebt, TypeOK, History
  <1> QED  BY <1>7, <1>8, <1>9 DEF RepayDebt, TypeOK

\* The loop goes on with the rest of the messages.
LEMMA NextMsgType ==
    ASSUME call \in Running, call.msgs # << >>, NEW origin \in Origins, NextMsg(origin)
    PROVE  call' \in Running
  <1>1. Head(call.msgs) \in Message /\ Tail(call.msgs) \in Seq(Message)
    BY HeadTailProperties DEF Running
  <1>2. Append(call.out, Out(Head(call.msgs), origin, 0)) \in Seq(Outgoing)
    BY <1>1, OutType, ZeroType, AppendProperties DEF Running
  <1> QED  BY <1>1, <1>2 DEF NextMsg, Running

\* The owner's message is passed.
LEMMA PassOwnerType ==
    ASSUME TypeOK, PassOwner PROVE TypeOK'
  <1>1. call' \in Running
    BY NextMsgType DEF TypeOK, PassOwner, Origins
  <1> QED  BY <1>1 DEF TypeOK, PassOwner

\* A wallet in its place is replaced by a wallet.
LEMMA ReplaceType ==
    ASSUME NEW c \in State, NEW i \in DOMAIN c.hot_wallets, NEW w \in Wallet
    PROVE  [c EXCEPT !.hot_wallets[i] = w] \in State
  <1> DEFINE wallets == [c.hot_wallets EXCEPT ![i] = w]
  <1>1. wallets \in Seq(Wallet)
    BY DEF State
  <1> HIDE DEF wallets
  <1>2. [c EXCEPT !.hot_wallets = wallets] \in State
    BY <1>1 DEF State
  <1> QED  BY <1>2 DEF wallets

\* A wallet's message is let in, its wallet reset if it is due.
LEMMA AdmitWalletType ==
    ASSUME TypeOK, AdmitWallet PROVE TypeOK'
  <1>0. PICK i \in FirstWallet(call.sender) : \E w \in Due(cfg.hot_wallets[i]) :
            /\ cfg' = [cfg EXCEPT !.hot_wallets[i] = w]
            /\ hist' = IF ShouldReset(cfg.hot_wallets[i], now)
                       THEN [hist EXCEPT !.ledger[call.sender] = Reopened(@, w)]
                       ELSE hist
    BY DEF AdmitWallet
  <1>1. PICK w \in Due(cfg.hot_wallets[i]) :
            /\ cfg' = [cfg EXCEPT !.hot_wallets[i] = w]
            /\ hist' = IF ShouldReset(cfg.hot_wallets[i], now)
                       THEN [hist EXCEPT !.ledger[call.sender] = Reopened(@, w)]
                       ELSE hist
    BY <1>0
  <1>2. i \in DOMAIN cfg.hot_wallets /\ cfg.hot_wallets[i] \in Wallet
    BY <1>1, FirstOfType DEF FirstWallet, TypeOK, State
  <1>3. w \in Wallet
    BY <1>1, <1>2, DueType DEF TypeOK
  <1>4. cfg' \in State
    BY <1>1, <1>2, <1>3, ReplaceType DEF TypeOK
  <1>5. call.sender \in Names /\ hist.ledger[call.sender] \in Ledger
    BY DEF TypeOK, Running, History
  <1>6. Reopened(hist.ledger[call.sender], w) \in Ledger
    BY <1>3, <1>5, LedgerType DEF TypeOK
  <1>7. hist' \in History
    BY <1>1, <1>5, <1>6 DEF TypeOK, History
  <1>8. Head(call.msgs) \in Message
    BY HeadTailProperties DEF AdmitWallet, TypeOK, Running
  <1>9. call' \in Running
    BY <1>8, MsgFundsType DEF AdmitWallet, TypeOK, Running
  <1> QED  BY <1>4, <1>7, <1>9 DEF AdmitWallet, TypeOK, Phases

\* What the cast of a price keeps is a part of it.
LEMMA CastType ==
    ASSUME NEW usd \in Nat
    PROVE  usd % U64 \in Nat /\ usd % U64 <= usd
  <1>1. U64 \in Nat /\ U64 > 0
    BY HotWalletsAssumption
  <1>2. usd % U64 \in Nat
    BY <1>1
  <1>3. usd % U64 <= usd
    BY <1>1
  <1> QED  BY <1>2, <1>3

\* A ledger that is charged is a ledger, of the same period.
LEMMA ChargedType ==
    ASSUME NEW l \in Ledger, NEW usd \in Nat
    PROVE  /\ Charged(l, usd) \in Ledger
           /\ Charged(l, usd).budget = l.budget
           /\ Charged(l, usd).charged = l.charged + usd
           /\ Charged(l, usd).lost = l.lost + (usd - (usd % U64))
  <1>1. usd - (usd % U64) \in Nat /\ usd % U64 \in Nat
    BY CastType
  <1>2. /\ l.charged + usd \in Nat /\ l.lost + (usd - (usd % U64)) \in Nat
        /\ l.taken + (usd % U64) \in Nat
    BY <1>1 DEF Ledger
  <1> QED  BY <1>2 DEF Charged, Ledger

\* One coin is charged.
LEMMA ChargeCoinType ==
    ASSUME TypeOK, ChargeCoin PROVE TypeOK'
  <1>0. PICK i \in FirstWallet(call.sender), usd \in ToUsdc(market, Head(call.coins)) :
            \E w \in ReduceLimit(cfg.hot_wallets[i], usd.amount) :
            /\ cfg' = [cfg EXCEPT !.hot_wallets[i] = w]
            /\ hist' = [hist EXCEPT !.ledger[call.sender] = Charged(@, usd.amount)]
    BY DEF ChargeCoin
  <1>1. PICK w \in ReduceLimit(cfg.hot_wallets[i], usd.amount) :
            /\ cfg' = [cfg EXCEPT !.hot_wallets[i] = w]
            /\ hist' = [hist EXCEPT !.ledger[call.sender] = Charged(@, usd.amount)]
    BY <1>0
  <1>2. i \in DOMAIN cfg.hot_wallets /\ cfg.hot_wallets[i] \in Wallet
    BY <1>1, FirstOfType DEF FirstWallet, TypeOK, State
  <1>3. Head(call.coins) \in Coin /\ Tail(call.coins) \in Seq(Coin)
    BY HeadTailProperties DEF ChargeCoin, TypeOK, Running
  <1>4. usd.amount \in Nat /\ Head(call.coins).amount \in Nat
        /\ Head(call.coins).denom \in Denom
    BY <1>1, <1>3, ToUsdcType, PricingAssumption DEF TypeOK, Coin, Uint128
  <1>5. w \in Wallet
    BY <1>1, <1>2, <1>4, ReduceLimitType
  <1>6. cfg' \in State
    BY <1>1, <1>2, <1>5, ReplaceType DEF TypeOK
  <1>7. hist' \in History
    <2>1. call.sender \in Names
      BY DEF TypeOK, Running
    <2> DEFINE l == Charged(hist.ledger[call.sender], usd.amount)
    <2>2. l \in Ledger
      <3>1. hist.ledger[call.sender] \in Ledger
        BY <2>1 DEF TypeOK, History
      <3> QED  BY <1>4, <3>1, ChargedType
    <2>3. hist' = [hist EXCEPT !.ledger[call.sender] = l]
      BY <1>1
    <2> HIDE DEF l
    <2> QED  BY <2>1, <2>2, <2>3 DEF TypeOK, History
  <1>8. call' \in Running /\ call'.msgs = call.msgs
    BY <1>3 DEF ChargeCoin, TypeOK, Running
  <1>9. flow' \in [charged : [Denom -> Nat], sent : [Denom -> Nat]]
    <2> DEFINE d == Head(call.coins).denom
    <2>1. flow.charged[d] + Head(call.coins).amount \in Nat
      BY <1>4 DEF TypeOK
    <2> QED  BY <1>4, <2>1 DEF ChargeCoin, TypeOK
  <1> QED  BY <1>6, <1>7, <1>8, <1>9 DEF ChargeCoin, TypeOK

\* A message all coins of which were charged is passed.
LEMMA PassWalletType ==
    ASSUME TypeOK, PassWallet PROVE TypeOK'
  <1>1. call' \in Running
    BY NextMsgType DEF TypeOK, PassWallet, Origins
  <1> QED  BY <1>1 DEF TypeOK, PassWallet, Phases

\* execute_execute returns.
LEMMA EndExecuteType ==
    ASSUME TypeOK, EndExecute PROVE TypeOK'
  <1>1. call.out \in Seq(Outgoing) /\ queue \in Seq(Outgoing) /\ Return(call.out, queue)
    BY DEF TypeOK, EndExecute, Running
  <1>2. phase' = "dispatch"
    BY <1>1 DEF Return
  <1> QED  BY <1>1, <1>2, ReturnType DEF TypeOK, EndExecute

\* The message that is dispatched next.
LEMMA NextOutType ==
    ASSUME TypeOK, Dispatching
    PROVE  /\ 1 \in DOMAIN queue /\ queue[1] \in Outgoing /\ Head(queue) = queue[1]
           /\ NextOut \in Message
           /\ Tail(queue) \in Seq(Outgoing)
           /\ gas - 1 \in 0 .. MaxGas
  <1>1. queue \in Seq(Outgoing) /\ queue # << >>
    BY DEF TypeOK, Dispatching
  <1>2. Head(queue) = queue[1] /\ queue[1] \in Outgoing /\ Tail(queue) \in Seq(Outgoing)
    BY <1>1, HeadTailProperties
  <1>3. gas - 1 \in 0 .. MaxGas
    BY ObiProxyAssumption DEF TypeOK, Dispatching
  <1> QED  BY <1>1, <1>2, <1>3 DEF NextOut, Outgoing

\* The bank moves a coin.
LEMMA SendCoinType ==
    ASSUME TypeOK, SendCoin PROVE TypeOK'
  <1>1. /\ 1 \in DOMAIN queue /\ queue[1] \in Outgoing /\ Head(queue) = queue[1]
        /\ NextOut \in Message /\ NextOut.funds # << >>
    BY NextOutType DEF SendCoin
  <1> DEFINE coin == Head(NextOut.funds)
  <1>2. coin \in Coin /\ Tail(NextOut.funds) \in Seq(Coin)
    BY <1>1, HeadTailProperties DEF Message
  <1>3. coin.amount \in Nat /\ coin.denom \in Denom
    BY <1>2, PricingAssumption DEF Coin, Uint128
  <1>4. bank' \in Balances
    <2>1. coin.denom \in NativeDenoms /\ coin.amount <= bank[coin.denom]
      BY DEF SendCoin
    <2>2. bank[coin.denom] - coin.amount \in Nat
      BY <1>3, <2>1 DEF TypeOK, Balances
    <2>3. bank' = IF NextOut.to = Proxy THEN bank
                  ELSE [bank EXCEPT ![coin.denom] = @ - coin.amount]
      BY DEF SendCoin
    <2> HIDE DEF coin
    <2> QED  BY <2>1, <2>2, <2>3 DEF TypeOK, Balances
  <1>5. flow' \in [charged : [Denom -> Nat], sent : [Denom -> Nat]]
    <2>1. flow' = IF Head(queue).origin = "limit"
                  THEN [flow EXCEPT !.sent[coin.denom] = @ + coin.amount] ELSE flow
      BY DEF SendCoin
    <2> HIDE DEF coin
    <2>2. flow.sent[coin.denom] + coin.amount \in Nat
      BY <1>3 DEF TypeOK
    <2> QED  BY <1>3, <2>1, <2>2 DEF TypeOK
  <1>6. queue' \in Seq(Outgoing)
    <2> DEFINE out == [queue[1] EXCEPT !.msg.funds = Tail(NextOut.funds)]
    <2>1. out \in Outgoing
      <3> DEFINE m == [NextOut EXCEPT !.funds = Tail(NextOut.funds)]
      <3>1. m \in Message
        BY <1>1, <1>2 DEF Message
      <3>2. out = [queue[1] EXCEPT !.msg = m]
        BY <1>1 DEF NextOut
      <3> HIDE DEF m, out
      <3> QED  BY <1>1, <3>1, <3>2 DEF Outgoing
    <2>2. queue' = [queue EXCEPT ![1] = out]
      BY <1>1 DEF SendCoin, NextOut
    <2> HIDE DEF out
    <2> QED  BY <1>1, <2>1, <2>2 DEF TypeOK
  <1> QED  BY <1>4, <1>5, <1>6 DEF SendCoin, TypeOK, Dispatching

\* A message has had its effect.
LEMMA FinishMsgType ==
    ASSUME TypeOK, FinishMsg PROVE TypeOK'
  <1>1. /\ Head(queue) \in Outgoing /\ Tail(queue) \in Seq(Outgoing)
        /\ gas' \in 0 .. MaxGas /\ phase = "dispatch"
    BY NextOutType DEF FinishMsg, Sent, Dispatching
  <1>2. hist.fees.paid + Head(queue).usd \in Nat
    BY <1>1, PricingAssumption DEF TypeOK, History, Outgoing, Uint128
  <1>3. hist' \in History
    BY <1>2 DEF FinishMsg, TypeOK, History
  <1> QED  BY <1>1, <1>3 DEF FinishMsg, TypeOK

\* A handler leaves the rest of the state alone.
LEMMA HandleStepType ==
    ASSUME TypeOK, NEW s \in Addr, NEW c \in Calls, NEW rest \in Seq(Outgoing),
           Handle(s, c, rest), gas' \in 0 .. MaxGas
    PROVE  TypeOK'
  <1>1. HandledOK'
    BY HandleType DEF TypeOK, HandledOK
  <1>2. phase' # "charge"
    BY DEF Handle, ExecuteUnchecked, ExecuteAuthorized, ExecuteChecked, AddHotWallet,
           RmHotWallet, ProposeUpdateAdmin, ConfirmUpdateAdmin, CancelUpdateAdmin, Return
  <1>3. UNCHANGED <<bank, market, now, flow, saved>>
    BY DEF Handle
  <1> QED  BY <1>1, <1>2, <1>3 DEF TypeOK, HandledOK

\* The proxy calls itself.
LEMMA CallSelfType ==
    ASSUME TypeOK, CallSelf PROVE TypeOK'
  <1>1. /\ NextOut \in Message /\ Tail(queue) \in Seq(Outgoing) /\ gas' \in 0 .. MaxGas
    BY NextOutType DEF CallSelf, Sent
  <1>2. NextOut.inner \in Calls /\ Handle(Proxy, NextOut.inner, Tail(queue))
    BY <1>1 DEF CallSelf, Message
  <1> QED  BY <1>1, <1>2, HandleStepType, ObiProxyAssumption

\* Every step keeps the type, one case per action.
LEMMA NextType == TypeOK /\ [Next]_vars => TypeOK'
  <1> SUFFICES ASSUME TypeOK, [Next]_vars PROVE TypeOK'
    OBVIOUS
  <1>1. ASSUME NEW s \in Addr \ {Proxy}, NEW c \in Calls, Submit(s, c) PROVE TypeOK'
    <2>1. gas' \in 0 .. MaxGas /\ << >> \in Seq(Outgoing)
      BY <1>1, ObiProxyAssumption DEF Submit
    <2> QED  BY <1>1, <2>1, HandleStepType DEF Submit
  <1>2. ASSUME NEW s \in Contracts, NEW c \in Calls, CallBack(s, c) PROVE TypeOK'
    <2>1. gas' \in 0 .. MaxGas
      BY <1>2, NextOutType DEF CallBack, Sent
    <2>2. s \in Addr /\ queue \in Seq(Outgoing)
      BY ObiProxyAssumption DEF TypeOK
    <2> QED  BY <1>2, <2>1, <2>2, HandleStepType DEF CallBack
  <1>3. CASE Commit
    BY <1>3, NoFlowType, ObiProxyAssumption DEF Commit, TypeOK, Phases
  <1>4. CASE Abort
    BY <1>4, NoFlowType, NotRunningType, ObiProxyAssumption DEF Abort, TypeOK, Phases
  <1>5. CASE Trade
    BY <1>5 DEF Trade, TypeOK
  <1>6. CASE Tick
    BY <1>6 DEF Tick, TypeOK
  <1>7. CASE UNCHANGED vars
    BY <1>7 DEF vars, TypeOK
  <1> QED
    BY <1>1, <1>2, <1>3, <1>4, <1>5, <1>6, <1>7, RepayDebtType, PassOwnerType,
       AdmitWalletType, ChargeCoinType, PassWalletType, EndExecuteType, SendCoinType,
       FinishMsgType, CallSelfType DEF Next

\* The state of the contract, of its running handler and of the messages it
\* returned keeps its type, in every transaction.
THEOREM TypeCorrect == Spec => []TypeOK
  BY InitType, NextType, PTL DEF Spec

-----------------------------------------------------------------------------
(***************************************************************************)
(* Ownership.  The invariant also holds of what an abort goes back to.     *)
(***************************************************************************)
ConsentInv == TypeOK /\ Consent(cfg, hist) /\ Consent(saved.cfg, saved.hist)

\* What Consent looks at.
SameOwners == /\ cfg'.admin = cfg.admin /\ cfg'.pending = cfg.pending
              /\ hist'.proposer = hist.proposer /\ hist'.accepter = hist.accepter
              /\ hist'.withdrawn = hist.withdrawn

\* No handler takes over the ownership without consent.
LEMMA HandleConsent ==
    ASSUME cfg \in State, hist \in History, Consent(cfg, hist),
           NEW s, NEW c, NEW rest, Handle(s, c, rest)
    PROVE  Consent(cfg, hist)'
  <1>1. CASE ExecuteUnchecked(s, c, rest) \/ ExecuteAuthorized(s, c, rest)
             \/ ExecuteChecked(s, c, rest)
    BY <1>1 DEF ExecuteUnchecked, ExecuteAuthorized, ExecuteChecked, Consent
  <1>2. CASE AddHotWallet(s, c, rest)
    BY <1>2 DEF AddHotWallet, Consent, State, History
  <1>3. CASE RmHotWallet(s, c, rest)
    BY <1>3 DEF RmHotWallet, Consent, State, History
  <1>4. CASE ProposeUpdateAdmin(s, c, rest)
    BY <1>4 DEF ProposeUpdateAdmin, Proposed, Candidate, Consent, State, History, IsAdmin
  <1>5. CASE ConfirmUpdateAdmin(s, c, rest)
    BY <1>5 DEF ConfirmUpdateAdmin, Consent, State, History
  <1>6. CASE CancelUpdateAdmin(s, c, rest)
    BY <1>6 DEF CancelUpdateAdmin, Withdrawn, Candidate, Consent, State, History
  <1> QED  BY <1>1, <1>2, <1>3, <1>4, <1>5, <1>6 DEF Handle

\* Only the handlers, and Abort, look at the owners.
LEMMA NextConsent == ConsentInv /\ [Next]_vars => ConsentInv'
  <1> SUFFICES ASSUME ConsentInv, [Next]_vars PROVE ConsentInv'
    OBVIOUS
  <1>1. TypeOK' /\ cfg \in State /\ hist \in History
    BY NextType DEF ConsentInv, TypeOK
  <1>2. ASSUME NEW s, NEW c, NEW rest, Handle(s, c, rest) PROVE ConsentInv'
    <2>1. saved' = saved
      BY <1>2 DEF Handle
    <2> QED  BY <1>1, <1>2, <2>1, HandleConsent DEF ConsentInv
  <1>3. ASSUME SameOwners, saved' = saved PROVE ConsentInv'
    BY <1>1, <1>3 DEF ConsentInv, Consent, SameOwners
  <1>4. CASE RepayDebt
    BY <1>1, <1>3, <1>4 DEF RepayDebt, SameOwners, State, History
  <1>5. CASE PassOwner \/ PassWallet \/ EndExecute \/ SendCoin \/ Trade \/ Tick \/ UNCHANGED vars
    BY <1>3, <1>5
       DEF PassOwner, PassWallet, EndExecute, SendCoin, Trade, Tick, vars, SameOwners
  <1>6. CASE AdmitWallet
    BY <1>1, <1>3, <1>6 DEF AdmitWallet, SameOwners, State, History
  <1>7. CASE ChargeCoin
    BY <1>1, <1>3, <1>7 DEF ChargeCoin, SameOwners, State, History
  <1>8. CASE FinishMsg
    BY <1>1, <1>3, <1>8 DEF FinishMsg, SameOwners, State, History
  <1>9. CASE Commit
    BY <1>1, <1>9 DEF Commit, ConsentInv, Consent
  <1>10. CASE Abort
    BY <1>1, <1>10 DEF Abort, ConsentInv, Consent
  <1> QED
    BY <1>2, <1>4, <1>5, <1>6, <1>7, <1>8, <1>9, <1>10
       DEF Next, Submit, CallSelf, CallBack

\* Whoever owns the proxy accepted it, whoever is pending was proposed by the
\* owner, and neither of them was taken back: propose_update_admin and
\* execute_update_admin cannot be played against each other.
THEOREM OwnershipByConsent == Spec => []HandoverConsent
  <1>1. Init => ConsentInv
    <2> SUFFICES ASSUME Init PROVE ConsentInv
      OBVIOUS
    <2>1. cfg.pending = cfg.admin
      BY DEF Init, Instantiate
    <2> QED  BY <2>1, InitType DEF Init, ConsentInv, Consent, NewHistory
  <1>2. ConsentInv => HandoverConsent
    BY DEF ConsentInv, HandoverConsent
  <1> QED  BY <1>1, <1>2, NextConsent, PTL DEF Spec

-----------------------------------------------------------------------------
(***************************************************************************)
(* Revocation.                                                             *)
(***************************************************************************)
RevokedInv == TypeOK /\ NoneRevoked(cfg, hist) /\ NoneRevoked(saved.cfg, saved.hist)

\* Only AddHotWallet brings a removed address back, and says so.
LEMMA HandleRevoked ==
    ASSUME cfg \in State, hist \in History, NoneRevoked(cfg, hist),
           NEW s, NEW c \in Calls, NEW rest, Handle(s, c, rest)
    PROVE  NoneRevoked(cfg, hist)'
  <1>1. CASE ExecuteUnchecked(s, c, rest) \/ ExecuteAuthorized(s, c, rest)
             \/ ExecuteChecked(s, c, rest) \/ CancelUpdateAdmin(s, c, rest)
             \/ ProposeUpdateAdmin(s, c, rest) \/ ConfirmUpdateAdmin(s, c, rest)
    BY <1>1 DEF ExecuteUnchecked, ExecuteAuthorized, ExecuteChecked, CancelUpdateAdmin,
                ProposeUpdateAdmin, ConfirmUpdateAdmin, Proposed, Withdrawn,
                NoneRevoked, State, History
  <1>2. CASE AddHotWallet(s, c, rest)
    <2> DEFINE w == c.new_hot_wallet
    <2>1. w \in Wallet
      BY <1>2, ObiProxyAssumption DEF WellFormed, AddHotWallet, ExecuteTypes
    <2>2. /\ cfg'.hot_wallets = Append(cfg.hot_wallets, w)
          /\ hist'.revoked = hist.revoked \ {w.address}
      BY <1>2 DEF AddHotWallet, State, History
    <2> HIDE DEF w
    <2>3. ASSUME NEW i \in DOMAIN cfg'.hot_wallets
          PROVE  cfg'.hot_wallets[i].address \notin hist'.revoked
      <3>1. \/ i \in DOMAIN cfg.hot_wallets /\ cfg'.hot_wallets[i] = cfg.hot_wallets[i]
            \/ cfg'.hot_wallets[i] = w
        BY <2>1, <2>2, <2>3, AppendProperties DEF State
      <3> QED  BY <2>2, <3>1 DEF NoneRevoked
    <2> QED  BY <2>3 DEF NoneRevoked
  <1>3. CASE RmHotWallet(s, c, rest)
    <2> DEFINE doomed == c.doomed_hot_wallet
    <2>1. /\ cfg'.hot_wallets \in Retain(cfg.hot_wallets, doomed)
          /\ hist'.revoked = hist.revoked \cup {doomed}
      BY <1>3 DEF RmHotWallet, State, History
    <2>2. \A n \in DOMAIN cfg'.hot_wallets : \E i \in DOMAIN cfg.hot_wallets :
              /\ cfg'.hot_wallets[n] = cfg.hot_wallets[i]
              /\ cfg.hot_wallets[i].address # doomed
      <3>1. cfg.hot_wallets \in Seq(Wallet)
        BY DEF State
      <3> HIDE DEF doomed
      <3> QED  BY <2>1, <3>1, RetainType
    <2> QED  BY <2>1, <2>2 DEF NoneRevoked
  <1> QED  BY <1>1, <1>2, <1>3 DEF Handle

\* Replacing a wallet by one of the same address revokes nobody.
LEMMA ReplaceRevoked ==
    ASSUME cfg \in State, NoneRevoked(cfg, hist), hist'.revoked = hist.revoked,
           NEW i \in DOMAIN cfg.hot_wallets, NEW w,
           w.address = cfg.hot_wallets[i].address,
           cfg' = [cfg EXCEPT !.hot_wallets[i] = w]
    PROVE  NoneRevoked(cfg, hist)'
  <1>1. /\ DOMAIN cfg'.hot_wallets = DOMAIN cfg.hot_wallets
        /\ \A k \in DOMAIN cfg.hot_wallets :
              cfg'.hot_wallets[k] = IF k = i THEN w ELSE cfg.hot_wallets[k]
    BY DEF State
  <1> QED  BY <1>1 DEF NoneRevoked

\* The wallet AdmitWallet and ChargeCoin put in place, and its history.
LEMMA AdmittedWallet ==
    ASSUME TypeOK, AdmitWallet
    PROVE  \E i \in FirstWallet(call.sender), w \in Wallet :
              /\ i \in DOMAIN cfg.hot_wallets
              /\ cfg.hot_wallets[i].address = call.sender /\ w.address = call.sender
              /\ cfg' = [cfg EXCEPT !.hot_wallets[i] = w]
              /\ \/ w = cfg.hot_wallets[i] /\ hist' = hist
                 \/ hist' = [hist EXCEPT !.ledger[call.sender] = Reopened(@, w)]
  <1>1. PICK i \in FirstWallet(call.sender) : \E w \in Due(cfg.hot_wallets[i]) :
            /\ cfg' = [cfg EXCEPT !.hot_wallets[i] = w]
            /\ hist' = IF ShouldReset(cfg.hot_wallets[i], now)
                       THEN [hist EXCEPT !.ledger[call.sender] = Reopened(@, w)]
                       ELSE hist
    BY DEF AdmitWallet
  <1>2. PICK w \in Due(cfg.hot_wallets[i]) :
            /\ cfg' = [cfg EXCEPT !.hot_wallets[i] = w]
            /\ hist' = IF ShouldReset(cfg.hot_wallets[i], now)
                       THEN [hist EXCEPT !.ledger[call.sender] = Reopened(@, w)]
                       ELSE hist
    BY <1>1
  <1>3. /\ i \in DOMAIN cfg.hot_wallets /\ cfg.hot_wallets[i] \in Wallet
        /\ cfg.hot_wallets[i].address = call.sender
    BY FirstOfType DEF FirstWallet, TypeOK, State
  <1>4. w \in Wallet /\ w.address = call.sender
    BY <1>3, DueType DEF TypeOK
  <1>5. ShouldReset(cfg.hot_wallets[i], now) \/ w = cfg.hot_wallets[i]
    BY DEF Due
  <1> QED  BY <1>2, <1>3, <1>4, <1>5

\* Charging a coin replaces the caller's first wallet by one with less left.
LEMMA ChargedWallet ==
    ASSUME TypeOK, ChargeCoin
    PROVE  \E i \in FirstWallet(call.sender), w \in Wallet, usd \in Uint128 :
              /\ i \in DOMAIN cfg.hot_wallets
              /\ cfg.hot_wallets[i].address = call.sender /\ w.address = call.sender
              /\ Remaining(w) = Remaining(cfg.hot_wallets[i]) - (usd % U64)
              /\ cfg' = [cfg EXCEPT !.hot_wallets[i] = w]
              /\ hist' = [hist EXCEPT !.ledger[call.sender] = Charged(@, usd)]
  <1>1. PICK i \in FirstWallet(call.sender), coin \in ToUsdc(market, Head(call.coins)) :
            \E w \in ReduceLimit(cfg.hot_wallets[i], coin.amount) :
            /\ cfg' = [cfg EXCEPT !.hot_wallets[i] = w]
            /\ hist' = [hist EXCEPT !.ledger[call.sender] = Charged(@, coin.amount)]
    BY DEF ChargeCoin
  <1>2. PICK w \in ReduceLimit(cfg.hot_wallets[i], coin.amount) :
            /\ cfg' = [cfg EXCEPT !.hot_wallets[i] = w]
            /\ hist' = [hist EXCEPT !.ledger[call.sender] = Charged(@, coin.amount)]
    BY <1>1
  <1>3. /\ i \in DOMAIN cfg.hot_wallets /\ cfg.hot_wallets[i] \in Wallet
        /\ cfg.hot_wallets[i].address = call.sender
    BY FirstOfType DEF FirstWallet, TypeOK, State
  <1>4. Head(call.coins) \in Coin
    BY HeadTailProperties DEF ChargeCoin, TypeOK, Running
  <1>5. coin.amount \in Uint128
    BY <1>4, ToUsdcType DEF TypeOK, Coin
  <1>6. coin.amount \in Nat
    BY <1>5, PricingAssumption DEF Uint128
  <1>7. /\ w \in Wallet /\ w.address = call.sender
        /\ Remaining(w) = Remaining(cfg.hot_wallets[i]) - (coin.amount % U64)
    BY <1>3, <1>6, ReduceLimitType
  <1> QED  BY <1>2, <1>3, <1>5, <1>7

\* The other steps put wallets in the place of wallets of the same address.
LEMMA NextRevoked == RevokedInv /\ [Next]_vars => RevokedInv'
  <1> SUFFICES ASSUME RevokedInv, [Next]_vars PROVE RevokedInv'
    OBVIOUS
  <1>1. TypeOK' /\ TypeOK /\ cfg \in State /\ hist \in History
    BY NextType DEF RevokedInv, TypeOK
  <1>2. ASSUME NEW s, NEW c \in Calls, NEW rest, Handle(s, c, rest) PROVE RevokedInv'
    <2>1. saved' = saved
      BY <1>2 DEF Handle
    <2> QED  BY <1>1, <1>2, <2>1, HandleRevoked DEF RevokedInv
  <1>3. ASSUME cfg'.hot_wallets = cfg.hot_wallets, hist'.revoked = hist.revoked,
               saved' = saved
        PROVE  RevokedInv'
    BY <1>1, <1>3 DEF RevokedInv, NoneRevoked
  <1>4. CASE RepayDebt
    BY <1>1, <1>3, <1>4 DEF RepayDebt, State, History
  <1>5. CASE PassOwner \/ PassWallet \/ EndExecute \/ SendCoin \/ Trade \/ Tick \/ UNCHANGED vars
    BY <1>3, <1>5 DEF PassOwner, PassWallet, EndExecute, SendCoin, Trade, Tick, vars
  <1>6. CASE AdmitWallet
    <2>1. saved' = saved /\ hist'.revoked = hist.revoked
      BY <1>1, <1>6, AdmittedWallet DEF AdmitWallet, History
    <2> QED  BY <1>1, <1>6, <2>1, AdmittedWallet, ReplaceRevoked DEF RevokedInv
  <1>7. CASE ChargeCoin
    <2>1. saved' = saved /\ hist'.revoked = hist.revoked
      BY <1>1, <1>7, ChargedWallet DEF ChargeCoin, History
    <2> QED  BY <1>1, <1>7, <2>1, ChargedWallet, ReplaceRevoked DEF RevokedInv
  <1>8. CASE FinishMsg
    BY <1>1, <1>3, <1>8 DEF FinishMsg, State, History
  <1>9. CASE Commit
    BY <1>1, <1>9 DEF Commit, RevokedInv, NoneRevoked
  <1>10. CASE Abort
    BY <1>1, <1>10 DEF Abort, RevokedInv, NoneRevoked
  <1>11. CASE CallSelf
    <2>1. NextOut.inner \in Calls
      BY <1>1, <1>11, NextOutType DEF CallSelf, Sent, Message
    <2> QED  BY <1>2, <1>11, <2>1 DEF CallSelf
  <1> QED
    BY <1>2, <1>4, <1>5, <1>6, <1>7, <1>8, <1>9, <1>10, <1>11
       DEF Next, Submit, CallBack

\* Removing a hot wallet leaves it nothing, whatever instantiate stored and
\* whatever is called in between.
THEOREM RemovalIsFinal == Spec => []RevokedStaysRevoked
  <1>1. Init => RevokedInv
    BY InitType DEF Init, RevokedInv, NoneRevoked, NewHistory
  <1>2. RevokedInv => RevokedStaysRevoked
    BY DEF RevokedInv, RevokedStaysRevoked
  <1> QED  BY <1>1, <1>2, NextRevoked, PTL DEF Spec

-----------------------------------------------------------------------------
(***************************************************************************)
(* Spend limits.  First what becomes of the first wallet of an address     *)
(* when the wallets change.                                                *)
(***************************************************************************)
\* An address has one first wallet.
LEMMA FirstOfUnique ==
    ASSUME NEW wallets \in Seq(Wallet), NEW a,
           NEW i \in FirstOf(wallets, a), NEW j \in FirstOf(wallets, a)
    PROVE  i = j
  <1>1. i \in 1 .. Len(wallets) /\ j \in 1 .. Len(wallets)
    BY DEF FirstOf
  <1>2. ~(i < j) /\ ~(j < i)
    BY <1>1 DEF FirstOf
  <1> QED  BY <1>1, <1>2

\* A wallet of the same address in its place changes no first wallet.
LEMMA FirstOfReplaced ==
    ASSUME NEW wallets \in Seq(Wallet), NEW a, NEW i \in DOMAIN wallets,
           NEW w, w.address = wallets[i].address
    PROVE  FirstOf([wallets EXCEPT ![i] = w], a) = FirstOf(wallets, a)
  <1> DEFINE new == [wallets EXCEPT ![i] = w]
  <1>1. DOMAIN new = DOMAIN wallets
    OBVIOUS
  <1>2. \A k \in DOMAIN wallets : new[k].address = wallets[k].address
    OBVIOUS
  <1>3. \A n \in DOMAIN wallets : 1 .. n - 1 \subseteq DOMAIN wallets
    OBVIOUS
  <1> HIDE DEF new
  <1>4. FirstOf(new, a) = FirstOf(wallets, a)
    BY <1>1, <1>2, <1>3 DEF FirstOf
  <1> QED  BY <1>4 DEF new

\* Append, kept closed for the provers.
Appended(wallets, w, new) == new = Append(wallets, w)

\* A wallet added for a new address becomes the first one of that address.
LEMMA FirstOfAppended ==
    ASSUME NEW wallets \in Seq(Wallet), NEW w \in Wallet, NEW new, NEW a, NEW j,
           Appended(wallets, w, new), FirstOf(wallets, w.address) = {},
           j \in FirstOf(new, a)
    PROVE  \/ a = w.address /\ new[j] = w
           \/ /\ a # w.address /\ j \in FirstOf(wallets, a)
              /\ new[j] = wallets[j]
  <1>1. /\ DOMAIN new = 1 .. Len(wallets) + 1 /\ new[Len(wallets) + 1] = w
        /\ \A k \in 1 .. Len(wallets) : new[k] = wallets[k]
    BY AppendProperties DEF Appended
  <1>2. /\ j \in 1 .. Len(wallets) + 1 /\ new[j].address = a
        /\ \A k \in 1 .. j - 1 : new[k].address # a
    BY <1>1 DEF FirstOf
  <1>3. CASE j = Len(wallets) + 1
    BY <1>1, <1>2, <1>3
  <1>4. CASE j # Len(wallets) + 1
    <2>1. j \in 1 .. Len(wallets) /\ 1 .. j - 1 \subseteq 1 .. Len(wallets)
      BY <1>2, <1>4
    <2>2. j \in FirstOf(wallets, a)
      BY <1>1, <1>2, <2>1 DEF FirstOf
    <2>3. a # w.address
      BY <2>2
    <2> QED  BY <1>1, <2>1, <2>2, <2>3
  <1> QED  BY <1>3, <1>4

\* After a removal, the first wallet of another address is a wallet of it
\* that was its first before.
LEMMA FirstOfRetained ==
    ASSUME NEW wallets \in Seq(Wallet), NEW doomed, NEW rest \in Retain(wallets, doomed),
           NEW a, NEW j \in FirstOf(rest, a)
    PROVE  a # doomed /\ \E i \in FirstOf(wallets, a) : rest[j] = wallets[i]
  <1> DEFINE kept == {i \in DOMAIN wallets : wallets[i].address # doomed}
             N == Cardinality(kept)
  <1>1. PICK f \in [1 .. N -> kept] :
            /\ rest = [n \in 1 .. N |-> wallets[f[n]]]
            /\ \A m, n \in DOMAIN f : m < n => f[m] < f[n]
            /\ \A i \in kept : \E n \in DOMAIN f : f[n] = i
    BY DEF Retain
  <1>2. N \in Nat
    <2>1. kept \subseteq 1 .. Len(wallets) /\ IsFiniteSet(1 .. Len(wallets))
      BY FS_Interval
    <2> QED  BY <2>1, FS_Subset, FS_CardinalityType
  <1> HIDE DEF N
  <1>3. /\ j \in 1 .. N /\ rest[j].address = a
        /\ \A k \in 1 .. j - 1 : rest[k].address # a
    BY <1>1 DEF FirstOf
  <1>4. f[j] \in DOMAIN wallets /\ wallets[f[j]].address # doomed /\ rest[j] = wallets[f[j]]
    BY <1>1, <1>3
  <1>5. ASSUME NEW k \in 1 .. f[j] - 1, wallets[k].address = a PROVE FALSE
    <2>1. k \in kept
      BY <1>3, <1>4, <1>5
    <2>2. PICK n \in 1 .. N : f[n] = k
      BY <1>1, <2>1
    <2>3. ~(j < n) /\ n # j
      BY <1>1, <1>3, <1>4, <2>2
    <2>4. n \in 1 .. j - 1
      BY <1>2, <1>3, <2>3
    <2>5. rest[n].address = a
      BY <1>1, <1>5, <2>2
    <2> QED  BY <1>3, <2>4, <2>5
  <1>6. f[j] \in FirstOf(wallets, a)
    BY <1>3, <1>4, <1>5 DEF FirstOf
  <1> QED  BY <1>3, <1>4, <1>6

-----------------------------------------------------------------------------
BudgetInv == TypeOK /\ WithinBudget(cfg, hist) /\ WithinBudget(saved.cfg, saved.hist)

\* Of the handlers, only adding and removing wallets concern the limits.
LEMMA HandleBudget ==
    ASSUME cfg \in State, hist \in History, now \in Nat, WithinBudget(cfg, hist),
           NEW s, NEW c \in Calls, NEW rest, Handle(s, c, rest)
    PROVE  WithinBudget(cfg, hist)'
  <1>0. cfg.hot_wallets \in Seq(Wallet) /\ hist.ledger \in [Names -> Ledger]
    BY DEF State, History
  <1>1. CASE ExecuteUnchecked(s, c, rest) \/ ExecuteAuthorized(s, c, rest)
             \/ ExecuteChecked(s, c, rest) \/ CancelUpdateAdmin(s, c, rest)
             \/ ProposeUpdateAdmin(s, c, rest) \/ ConfirmUpdateAdmin(s, c, rest)
    BY <1>1 DEF ExecuteUnchecked, ExecuteAuthorized, ExecuteChecked, CancelUpdateAdmin,
                ProposeUpdateAdmin, ConfirmUpdateAdmin, Proposed, Withdrawn,
                WithinBudget, State, History
  <1>2. CASE AddHotWallet(s, c, rest)
    <2>0. PICK w : w = c.new_hot_wallet
      OBVIOUS
    <2>1. w \in Wallet /\ w.address \in Names
      BY <1>2, <2>0, ObiProxyAssumption DEF WellFormed, AddHotWallet, ExecuteTypes
    <2>2. /\ FirstOf(cfg.hot_wallets, w.address) = {}
          /\ cfg'.hot_wallets = Append(cfg.hot_wallets, w)
          /\ hist'.ledger = [hist.ledger EXCEPT ![w.address] = Opened(w, now)]
      BY <1>2, <2>0 DEF AddHotWallet, IsHotWallet, FirstWallet, State, History
    <2>3. ASSUME NEW a \in Names, NEW j \in FirstOf(cfg'.hot_wallets, a)
          PROVE  Adds(hist'.ledger[a], cfg'.hot_wallets[j])
      <3>1. CASE a = w.address /\ cfg'.hot_wallets[j] = w
        <4>1. Remaining(w) \in Nat
          BY <2>1, RemainingType, HotWalletsAssumption DEF LimitAmount
        <4>2. hist'.ledger[a] = Opened(w, now)
          BY <1>0, <2>2, <2>3, <3>1
        <4> QED  BY <3>1, <4>1, <4>2 DEF Opened, Adds, LimitAmount
      <3>2. CASE /\ a # w.address /\ j \in FirstOf(cfg.hot_wallets, a)
                 /\ cfg'.hot_wallets[j] = cfg.hot_wallets[j]
        BY <1>0, <2>2, <3>2 DEF WithinBudget
      <3>3. Appended(cfg.hot_wallets, w, cfg'.hot_wallets)
        BY <2>2 DEF Appended
      <3>4. \/ a = w.address /\ cfg'.hot_wallets[j] = w
            \/ /\ a # w.address /\ j \in FirstOf(cfg.hot_wallets, a)
               /\ cfg'.hot_wallets[j] = cfg.hot_wallets[j]
        <4>0. PICK old : old = cfg.hot_wallets
          OBVIOUS
        <4>1. PICK new : /\ new = cfg'.hot_wallets
                         /\ old = cfg.hot_wallets /\ old \in Seq(Wallet)
          BY <1>0, <4>0
        <4>2. /\ Appended(old, w, new) /\ FirstOf(old, w.address) = {}
              /\ j \in FirstOf(new, a)
          BY <2>2, <2>3, <3>3, <4>1
        <4>3. \/ a = w.address /\ new[j] = w
              \/ a # w.address /\ j \in FirstOf(old, a) /\ new[j] = old[j]
          BY <2>1, <4>1, <4>2, FirstOfAppended
        <4> QED  BY <4>1, <4>3
      <3> QED  BY <3>1, <3>2, <3>4
    <2> QED  BY <2>3 DEF WithinBudget
  <1>3. CASE RmHotWallet(s, c, rest)
    <2> DEFINE doomed == c.doomed_hot_wallet
    <2>1. /\ cfg'.hot_wallets \in Retain(cfg.hot_wallets, doomed)
          /\ hist'.ledger = [hist.ledger EXCEPT ![doomed] = Unopened]
      BY <1>3 DEF RmHotWallet, State, History
    <2> HIDE DEF doomed
    <2>2. ASSUME NEW a \in Names, NEW j \in FirstOf(cfg'.hot_wallets, a)
          PROVE  Adds(hist'.ledger[a], cfg'.hot_wallets[j])
      <3>1. PICK i \in FirstOf(cfg.hot_wallets, a) :
                a # doomed /\ cfg'.hot_wallets[j] = cfg.hot_wallets[i]
        BY <1>0, <2>1, <2>2, FirstOfRetained
      <3>2. hist'.ledger[a] = hist.ledger[a]
        BY <1>0, <2>1, <3>1
      <3> QED  BY <3>1, <3>2 DEF WithinBudget
    <2> QED  BY <2>2 DEF WithinBudget
  <1> QED  BY <1>1, <1>2, <1>3 DEF Handle

\* A wallet is replaced by one of the same address whose ledger still adds up.
LEMMA ReplaceBudget ==
    ASSUME cfg \in State, hist \in History, WithinBudget(cfg, hist),
           NEW a, NEW i \in FirstOf(cfg.hot_wallets, a), NEW w, w.address = a,
           cfg' = [cfg EXCEPT !.hot_wallets[i] = w],
           \A b \in Names : b # a => hist'.ledger[b] = hist.ledger[b],
           Adds(hist'.ledger[a], w)
    PROVE  WithinBudget(cfg, hist)'
  <1>1. /\ cfg.hot_wallets \in Seq(Wallet)
        /\ i \in DOMAIN cfg.hot_wallets /\ cfg.hot_wallets[i].address = a
    BY FirstOfType DEF State
  <1>2. cfg'.hot_wallets = [cfg.hot_wallets EXCEPT ![i] = w]
    BY DEF State
  <1>3. ASSUME NEW b \in Names, NEW j \in FirstOf(cfg'.hot_wallets, b)
        PROVE  Adds(hist'.ledger[b], cfg'.hot_wallets[j])
    <2>1. j \in FirstOf(cfg.hot_wallets, b) /\ j \in DOMAIN cfg.hot_wallets
          /\ cfg.hot_wallets[j].address = b
      BY <1>1, <1>2, <1>3, FirstOfReplaced, FirstOfType
    <2>2. CASE b = a
      <3>1. j = i
        BY <1>1, <2>1, <2>2, FirstOfUnique
      <3>2. cfg'.hot_wallets[j] = w
        BY <1>1, <1>2, <3>1
      <3> QED  BY <2>2, <3>2
    <2>3. CASE b # a
      <3>1. cfg'.hot_wallets[j] = cfg.hot_wallets[j]
        BY <1>1, <1>2, <2>1, <2>3
      <3> QED  BY <2>1, <2>3, <3>1 DEF WithinBudget
    <2> QED  BY <2>2, <2>3
  <1> QED  BY <1>3 DEF WithinBudget

\* Every step keeps the ledgers, one case per action.
LEMMA NextBudget == BudgetInv /\ [Next]_vars => BudgetInv'
  <1> SUFFICES ASSUME BudgetInv, [Next]_vars PROVE BudgetInv'
    OBVIOUS
  <1>1. TypeOK' /\ TypeOK /\ cfg \in State /\ hist \in History /\ now \in Nat
    BY NextType DEF BudgetInv, TypeOK
  <1>2. ASSUME NEW s, NEW c \in Calls, NEW rest, Handle(s, c, rest) PROVE BudgetInv'
    <2>1. saved' = saved
      BY <1>2 DEF Handle
    <2> QED  BY <1>1, <1>2, <2>1, HandleBudget DEF BudgetInv
  <1>3. ASSUME cfg'.hot_wallets = cfg.hot_wallets, hist'.ledger = hist.ledger,
               saved' = saved
        PROVE  BudgetInv'
    BY <1>1, <1>3 DEF BudgetInv, WithinBudget
  <1>4. CASE RepayDebt
    BY <1>1, <1>3, <1>4 DEF RepayDebt, State, History
  <1>5. CASE PassOwner \/ PassWallet \/ EndExecute \/ SendCoin \/ Trade \/ Tick \/ UNCHANGED vars
    BY <1>3, <1>5 DEF PassOwner, PassWallet, EndExecute, SendCoin, Trade, Tick, vars
  <1>6. CASE AdmitWallet
    <2>1. PICK i \in FirstWallet(call.sender), w \in Wallet :
              /\ i \in DOMAIN cfg.hot_wallets
              /\ cfg.hot_wallets[i].address = call.sender /\ w.address = call.sender
              /\ cfg' = [cfg EXCEPT !.hot_wallets[i] = w]
              /\ \/ w = cfg.hot_wallets[i] /\ hist' = hist
                 \/ hist' = [hist EXCEPT !.ledger[call.sender] = Reopened(@, w)]
      BY <1>1, <1>6, AdmittedWallet
    <2>2. call.sender \in Names /\ hist.ledger \in [Names -> Ledger]
      BY <1>1 DEF TypeOK, Running, History
    <2>3. /\ \A b \in Names : b # call.sender => hist'.ledger[b] = hist.ledger[b]
          /\ Adds(hist'.ledger[call.sender], w)
      <3>1. CASE w = cfg.hot_wallets[i] /\ hist' = hist
        BY <2>1, <2>2, <3>1 DEF BudgetInv, WithinBudget, FirstWallet
      <3>2. CASE hist' = [hist EXCEPT !.ledger[call.sender] = Reopened(@, w)]
        <4>1. hist'.ledger = [hist.ledger EXCEPT ![call.sender] =
                                  Reopened(hist.ledger[call.sender], w)]
          BY <1>1, <3>2 DEF History
        <4>2. /\ Reopened(hist.ledger[call.sender], w).charged = 0
              /\ Reopened(hist.ledger[call.sender], w).lost = 0
              /\ Reopened(hist.ledger[call.sender], w).budget = Remaining(w)
          BY <2>2 DEF Reopened, Ledger
        <4>3. Remaining(w) \in Nat
          BY RemainingType, HotWalletsAssumption DEF LimitAmount
        <4> QED  BY <2>2, <4>1, <4>2, <4>3 DEF Adds
      <3> QED  BY <2>1, <3>1, <3>2
    <2>4. WithinBudget(cfg, hist)'
      BY <1>1, <2>1, <2>3, ReplaceBudget DEF BudgetInv, FirstWallet
    <2>5. saved' = saved
      BY <1>6 DEF AdmitWallet
    <2> QED  BY <1>1, <2>4, <2>5 DEF BudgetInv
  <1>7. CASE ChargeCoin
    <2>1. PICK i \in FirstWallet(call.sender), w \in Wallet, usd \in Uint128 :
              /\ i \in DOMAIN cfg.hot_wallets
              /\ cfg.hot_wallets[i].address = call.sender /\ w.address = call.sender
              /\ Remaining(w) = Remaining(cfg.hot_wallets[i]) - (usd % U64)
              /\ cfg' = [cfg EXCEPT !.hot_wallets[i] = w]
              /\ hist' = [hist EXCEPT !.ledger[call.sender] = Charged(@, usd)]
      BY <1>1, <1>7, ChargedWallet
    <2>2. call.sender \in Names /\ hist.ledger \in [Names -> Ledger]
      BY <1>1 DEF TypeOK, Running, History
    <2>3. usd \in Nat /\ usd % U64 \in Nat
      BY PricingAssumption, CastType DEF Uint128
    <2> DEFINE l == hist.ledger[call.sender]
    <2>4. /\ hist'.ledger[call.sender] = Charged(l, usd)
          /\ \A b \in Names : b # call.sender => hist'.ledger[b] = hist.ledger[b]
      BY <1>1, <2>1, <2>2 DEF History
    <2>5. Adds(hist'.ledger[call.sender], w)
      <3>1. l \in Ledger
        BY <2>2
      <3>2. Adds(l, cfg.hot_wallets[i])
        BY <2>1, <2>2 DEF BudgetInv, WithinBudget, FirstWallet
      <3>3. Remaining(cfg.hot_wallets[i]) \in Nat
        <4>1. cfg.hot_wallets[i] \in Wallet
          BY <1>1, <2>1 DEF State
        <4> QED  BY <4>1, RemainingType, HotWalletsAssumption DEF LimitAmount
      <3> HIDE DEF l
      <3>4. /\ Charged(l, usd).budget = l.budget
            /\ Charged(l, usd).charged = l.charged + usd
            /\ Charged(l, usd).lost = l.lost + (usd - (usd % U64))
            /\ l.budget \in Nat /\ l.charged \in Nat /\ l.lost \in Nat
        BY <2>3, <3>1, ChargedType, HotWalletsAssumption DEF Ledger, LimitAmount
      <3>5. Adds(Charged(l, usd), w)
        BY <2>1, <2>3, <3>2, <3>3, <3>4 DEF Adds
      <3> QED  BY <2>4, <3>5
    <2>6. WithinBudget(cfg, hist)'
      BY <1>1, <2>1, <2>4, <2>5, ReplaceBudget DEF BudgetInv, FirstWallet
    <2>7. saved' = saved
      BY <1>7 DEF ChargeCoin
    <2> QED  BY <1>1, <2>6, <2>7 DEF BudgetInv
  <1>8. CASE FinishMsg
    BY <1>1, <1>3, <1>8 DEF FinishMsg, State, History
  <1>9. CASE Commit
    BY <1>1, <1>9 DEF Commit, BudgetInv, WithinBudget
  <1>10. CASE Abort
    BY <1>1, <1>10 DEF Abort, BudgetInv, WithinBudget
  <1>11. CASE CallSelf
    <2>1. NextOut.inner \in Calls
      BY <1>1, <1>11, NextOutType DEF CallSelf, Sent, Message
    <2> QED  BY <1>2, <1>11, <2>1 DEF CallSelf
  <1> QED
    BY <1>2, <1>4, <1>5, <1>6, <1>7, <1>8, <1>9, <1>10, <1>11
       DEF Next, Submit, CallBack

\* Every ledger starts with what its wallet has left.
LEMMA InitBudget == Init => BudgetInv
  <1> SUFFICES ASSUME Init PROVE BudgetInv
    OBVIOUS
  <1>1. cfg.hot_wallets \in Seq(Wallet)
    BY InitType DEF TypeOK, State
  <1>2. ASSUME NEW a \in Names, NEW i \in FirstOf(cfg.hot_wallets, a)
        PROVE  Adds(hist.ledger[a], cfg.hot_wallets[i])
    <2>1. (CHOOSE k \in FirstOf(cfg.hot_wallets, a) : TRUE) = i
      BY <1>1, <1>2, ChosenType, FirstOfUnique
    <2>2. hist.ledger[a] = Opened(cfg.hot_wallets[i], StartTime)
      BY <1>2, <2>1 DEF Init, NewHistory
    <2>3. Remaining(cfg.hot_wallets[i]) \in Nat
      BY <1>1, <1>2, FirstOfType, RemainingType, HotWalletsAssumption DEF LimitAmount
    <2> QED  BY <2>2, <2>3 DEF Opened, Adds
  <1> QED  BY <1>2, InitType DEF Init, BudgetInv, WithinBudget

\* No interleaving of spends, resets, removals, nested calls and failures
\* loses track of a limit: all a hot wallet can spend beyond what its period
\* allows is what the cast of reduce_limit loses.
THEOREM LimitsAddUp == Spec => []PeriodBudget
  <1>1. BudgetInv => PeriodBudget
    BY DEF BudgetInv, PeriodBudget
  <1> QED  BY <1>1, InitBudget, NextBudget, PTL DEF Spec

-----------------------------------------------------------------------------
(***************************************************************************)
(* What a simulation attaches.                                             *)
(***************************************************************************)
\* A simulation leaves as it is what the chain is going to dispatch: entered by
\* a transaction, a contract or the proxy itself, it attaches nothing but its
\* first message, to an authorized token contract; its loop ends without any.
TokenAtMost(c, rest) ==
    LET first == Head(c.msgs)
    IN  \/ queue' = rest
        \/ /\ c.msgs # << >> /\ first.kind = "wasm_execute" /\ first.funds = << >>
           /\ first.to \in AuthorizedContracts
           /\ queue' = <<Out(first, "token", 0)>> \o rest
SimAttachesTokensOnly ==
    /\ \A s \in Addr, c \in Calls :
          c.type = "sim_execute" /\ Submit(s, c) => TokenAtMost(c, << >>)
    /\ \A s \in Contracts, c \in Calls :
          c.type = "sim_execute" /\ CallBack(s, c) => TokenAtMost(c, queue)
    /\ CallSelf /\ NextOut.inner.type = "sim_execute" =>
          TokenAtMost(NextOut.inner, Tail(queue))
    /\ EndExecute /\ call.sim => queue' = queue

\* It leaves it as it is altogether, wherever it is called from.
SimLeavesQueue ==
    /\ \A s \in Addr, c \in Calls :
          c.type = "sim_execute" /\ Submit(s, c) => queue' = << >>
    /\ \A s \in Contracts, c \in Calls :
          c.type = "sim_execute" /\ CallBack(s, c) => queue' = queue
    /\ CallSelf /\ NextOut.inner.type = "sim_execute" => queue' = Tail(queue)
    /\ EndExecute /\ call.sim => queue' = queue

Silent == call.sim => call.out = << >>

\* Every step of the loop appends to the response unless this is a simulation.
LEMMA NextSilent == TypeOK /\ Silent /\ [Next]_vars => Silent'
  <1> SUFFICES ASSUME TypeOK, Silent, [Next]_vars PROVE Silent'
    OBVIOUS
  <1>1. call \in Running
    BY DEF TypeOK
  <1>2. ASSUME NEW s, NEW c, NEW rest, Handle(s, c, rest) PROVE Silent'
    BY <1>2 DEF Silent, Handle, ExecuteUnchecked, ExecuteAuthorized, ExecuteChecked,
       AddHotWallet, RmHotWallet, ProposeUpdateAdmin, ConfirmUpdateAdmin,
       CancelUpdateAdmin, Return, NotRunning
  <1>3. CASE RepayDebt
    BY <1>1, <1>3 DEF Silent, RepayDebt, Running
  <1>4. CASE PassOwner \/ PassWallet
    BY <1>1, <1>4 DEF Silent, PassOwner, PassWallet, NextMsg, Running
  <1>5. CASE AdmitWallet \/ ChargeCoin
    BY <1>1, <1>5 DEF Silent, AdmitWallet, ChargeCoin, Running
  <1>6. CASE EndExecute \/ Abort
    BY <1>6 DEF Silent, EndExecute, Abort, Return, NotRunning
  <1>7. CASE SendCoin \/ FinishMsg \/ Commit \/ Trade \/ Tick \/ UNCHANGED vars
    BY <1>7 DEF Silent, SendCoin, FinishMsg, Commit, Trade, Tick, vars
  <1> QED
    BY <1>2, <1>3, <1>4, <1>5, <1>6, <1>7 DEF Next, Submit, CallSelf, CallBack

\* What a handler that simulates leaves to be dispatched.
LEMMA HandleSimulated ==
    ASSUME NEW s, NEW c \in Calls, NEW rest \in Seq(Outgoing), c.type = "sim_execute",
           Handle(s, c, rest)
    PROVE  TokenAtMost(c, rest)
  <1>1. \/ ExecuteUnchecked(s, c, rest) \/ ExecuteAuthorized(s, c, rest)
        \/ ExecuteChecked(s, c, rest)
    BY DEF Handle, AddHotWallet, RmHotWallet, ProposeUpdateAdmin, ConfirmUpdateAdmin,
       CancelUpdateAdmin
  <1>2. << >> \o rest = rest
    BY ConcatProperties
  <1>3. CASE ExecuteUnchecked(s, c, rest)
    BY <1>2, <1>3 DEF ExecuteUnchecked, Return, TokenAtMost
  <1>4. CASE ExecuteAuthorized(s, c, rest)
    BY <1>4 DEF ExecuteAuthorized, Authorized, Return, TokenAtMost
  <1>5. CASE ExecuteChecked(s, c, rest)
    BY <1>5 DEF ExecuteChecked, TokenAtMost
  <1> QED  BY <1>1, <1>3, <1>4, <1>5

\* The calls of the proxy to itself are calls like any other.
LEMMA SilentStep == TypeOK /\ Silent => SimAttachesTokensOnly
  <1> SUFFICES ASSUME TypeOK, Silent PROVE SimAttachesTokensOnly
    OBVIOUS
  <1>0. << >> \in Seq(Outgoing) /\ queue \in Seq(Outgoing)
    BY DEF TypeOK
  <1>1. ASSUME NEW s \in Addr, NEW c \in Calls, c.type = "sim_execute", Submit(s, c)
        PROVE  TokenAtMost(c, << >>)
    BY <1>0, <1>1, HandleSimulated DEF Submit
  <1>2. ASSUME NEW s \in Contracts, NEW c \in Calls, c.type = "sim_execute", CallBack(s, c)
        PROVE  TokenAtMost(c, queue)
    BY <1>0, <1>2, HandleSimulated DEF CallBack
  <1>3. ASSUME CallSelf, NextOut.inner.type = "sim_execute"
        PROVE  TokenAtMost(NextOut.inner, Tail(queue))
    <2>1. NextOut.inner \in Calls /\ Tail(queue) \in Seq(Outgoing)
      BY <1>3, NextOutType DEF CallSelf, Sent, Message
    <2> QED  BY <1>3, <2>1, HandleSimulated DEF CallSelf
  <1>4. ASSUME EndExecute, call.sim PROVE queue' = queue
    BY <1>4 DEF TypeOK, Silent, EndExecute, Return
  <1> QED  BY <1>1, <1>2, <1>3, <1>4 DEF SimAttachesTokensOnly

\* That a simulation "avoids attaching any messages" (src/msg.rs) fails on the
\* path of the authorized token contracts and nowhere else: not for the owner,
\* not when a debt is repaid on the way, not after any number of messages, and
\* not when it is called from within another call.
THEOREM SimulationsAreSilent == Spec => [][SimAttachesTokensOnly]_vars
  <1>1. Init => Silent
    BY DEF Init, NotRunning, Silent
  <1>2. TypeOK /\ Silent /\ [Next]_vars => [SimAttachesTokensOnly]_vars
    BY SilentStep
  <1> QED  BY <1>1, <1>2, NextSilent, TypeCorrect, PTL DEF Spec

\* So it attaches nothing at all, entered by a transaction, a contract or the
\* proxy itself, where no simulation begins with a message to such a contract.
THEOREM SimulationsWithoutTokens ==
    ASSUME TokensNotSimulated
    PROVE  Spec => SimAttachesNothing /\ [][SimLeavesQueue]_vars
  <1>1. Init => Silent
    BY DEF Init, NotRunning, Silent
  <1>2. TypeOK /\ Silent => SimLeavesQueue
    <2> SUFFICES ASSUME TypeOK, Silent PROVE SimLeavesQueue
      OBVIOUS
    <2>1. ASSUME NEW c \in Calls, c.type = "sim_execute", NEW rest, TokenAtMost(c, rest)
          PROVE  queue' = rest
      BY <2>1 DEF TokenAtMost, TokensNotSimulated
    <2>2. CallSelf => NextOut.inner \in Calls
      BY NextOutType DEF CallSelf, Sent, Message
    <2> QED  BY <2>1, <2>2, SilentStep DEF SimAttachesTokensOnly, SimLeavesQueue
  <1> DEFINE Attaches == \A s \in Addr, c \in Calls :
                             c.type = "sim_execute" /\ Submit(s, c) => queue' = << >>
  <1>3. TypeOK /\ Silent /\ [Next]_vars => [Attaches]_vars /\ [SimLeavesQueue]_vars
    BY <1>2 DEF SimLeavesQueue
  <1> QED
    BY <1>1, <1>3, NextSilent, TypeCorrect, PTL DEF Spec, SimAttachesNothing, Attaches

-----------------------------------------------------------------------------
(***************************************************************************)
(* What execute_execute is working on comes from a call that was made, and *)
(* the coins it is charging from the message in hand.                      *)
(***************************************************************************)
KnownCall ==
    /\ call.sim => ~NothingSimulated
    /\ \A n \in DOMAIN call.msgs :
          call.msgs[n] \in MessagesOf(IF call.sim THEN "sim_execute" ELSE "execute")
    /\ phase = "charge" =>
          \A k \in DOMAIN call.coins : \E n \in DOMAIN MsgFunds(Head(call.msgs)) :
              call.coins[k] = MsgFunds(Head(call.msgs))[n]
KnownInv == TypeOK /\ KnownCall

\* A handler begins with the messages of its call, or ends.
LEMMA HandleKnown ==
    ASSUME NEW s, NEW c \in Calls, NEW rest, Handle(s, c, rest)
    PROVE  KnownCall'
  <1>1. CASE ExecuteChecked(s, c, rest)
    <2>1. /\ phase' = "check" /\ call'.msgs = c.msgs
          /\ call'.sim = (c.type = "sim_execute") /\ c.type \in ExecuteTypes
      BY <1>1 DEF ExecuteChecked
    <2>2. \A n \in DOMAIN c.msgs : c.msgs[n] \in MessagesOf(c.type)
      BY DEF MessagesOf
    <2>3. c.type = "sim_execute" => ~NothingSimulated
      BY DEF NothingSimulated
    <2>4. c.type = IF call'.sim THEN "sim_execute" ELSE "execute"
      BY <2>1 DEF ExecuteTypes
    <2> QED  BY <2>1, <2>2, <2>3, <2>4 DEF KnownCall
  <1>2. CASE ~ExecuteChecked(s, c, rest)
    <2>1. phase' = "dispatch" /\ call' = NotRunning
      BY <1>2 DEF Handle, ExecuteUnchecked, ExecuteAuthorized, AddHotWallet, RmHotWallet,
         ProposeUpdateAdmin, ConfirmUpdateAdmin, CancelUpdateAdmin, Return
    <2> QED  BY <2>1 DEF KnownCall, NotRunning
  <1> QED  BY <1>1, <1>2

\* The loop only shortens what it was given.
LEMMA NextMsgKnown ==
    ASSUME KnownInv, call.msgs # << >>, NEW origin, NextMsg(origin), phase' # "charge"
    PROVE  KnownCall'
  <1>1. call.msgs \in Seq(Message) /\ call'.sim = call.sim /\ call'.msgs = Tail(call.msgs)
    BY DEF NextMsg, KnownInv, TypeOK, Running
  <1>2. \A n \in DOMAIN Tail(call.msgs) :
            n + 1 \in DOMAIN call.msgs /\ Tail(call.msgs)[n] = call.msgs[n + 1]
    BY <1>1, HeadTailProperties
  <1> QED  BY <1>1, <1>2 DEF KnownInv, KnownCall

\* Every other step leaves the call alone or ends it.
LEMMA NextKnown == KnownInv /\ [Next]_vars => KnownInv'
  <1> SUFFICES ASSUME KnownInv, [Next]_vars PROVE KnownInv'
    OBVIOUS
  <1>1. TypeOK' /\ TypeOK /\ KnownCall /\ call \in Running
    BY NextType DEF KnownInv, TypeOK
  <1>2. ASSUME NEW s, NEW c \in Calls, NEW rest, Handle(s, c, rest) PROVE KnownInv'
    BY <1>1, <1>2, HandleKnown DEF KnownInv
  <1>3. CASE CallSelf
    <2>1. NextOut.inner \in Calls
      BY <1>1, <1>3, NextOutType DEF CallSelf, Sent, Message
    <2> QED  BY <1>2, <1>3, <2>1 DEF CallSelf
  <1>4. CASE RepayDebt
    <2>1. call'.msgs = call.msgs /\ call'.sim = call.sim /\ phase' = "check"
      BY <1>1, <1>4 DEF RepayDebt, Running
    <2> QED  BY <1>1, <2>1 DEF KnownInv, KnownCall
  <1>5. CASE PassOwner
    BY <1>1, <1>5, NextMsgKnown DEF PassOwner, KnownInv
  <1>6. CASE AdmitWallet
    <2>1. /\ call'.msgs = call.msgs /\ call'.sim = call.sim
          /\ call'.coins = MsgFunds(Head(call.msgs))
      BY <1>1, <1>6 DEF AdmitWallet, Running
    <2> QED  BY <1>1, <2>1 DEF KnownInv, KnownCall
  <1>7. CASE ChargeCoin
    <2>1. /\ call'.msgs = call.msgs /\ call'.sim = call.sim
          /\ call'.coins = Tail(call.coins) /\ phase = "charge" /\ phase' = phase
      BY <1>1, <1>7 DEF ChargeCoin, Running
    <2>2. \A k \in DOMAIN Tail(call.coins) :
              k + 1 \in DOMAIN call.coins /\ Tail(call.coins)[k] = call.coins[k + 1]
      BY <1>1, <1>7, HeadTailProperties DEF ChargeCoin, Running
    <2> QED  BY <1>1, <2>1, <2>2 DEF KnownInv, KnownCall
  <1>8. CASE PassWallet
    <2>1. call.msgs # << >>
      BY <1>1, <1>8 DEF PassWallet, TypeOK
    <2> QED  BY <1>1, <1>8, <2>1, NextMsgKnown DEF PassWallet, KnownInv
  <1>9. CASE EndExecute \/ Abort
    BY <1>1, <1>9 DEF EndExecute, Abort, Return, KnownInv, KnownCall, NotRunning
  <1>10. CASE SendCoin \/ FinishMsg
    BY <1>1, <1>10 DEF SendCoin, FinishMsg, KnownInv, KnownCall
  <1>11. CASE Commit \/ Trade \/ Tick \/ UNCHANGED vars
    BY <1>1, <1>11 DEF Commit, Trade, Tick, vars, KnownInv, KnownCall
  <1> QED
    BY <1>2, <1>3, <1>4, <1>5, <1>6, <1>7, <1>8, <1>9, <1>10, <1>11
       DEF Next, Submit, CallBack

\* Nothing runs at first.
LEMMA InitKnown == Init => KnownInv
  BY InitType DEF Init, KnownInv, KnownCall, NotRunning

-----------------------------------------------------------------------------
(***************************************************************************)
(* Strangers.  The loop has no test of the sender of its own: a stranger   *)
(* is stopped by his first message, and while he is, it is still in hand.  *)
(***************************************************************************)
Welcome(a) == IsAdmin(a) \/ IsHotWallet(a)
StopsStrangers ==
    /\ phase = "check" => call.msgs # << >> \/ Welcome(call.sender)
    /\ phase = "charge" => IsHotWallet(call.sender)
StrangerInv == TypeOK /\ StopsStrangers

\* A handler begins with a message in hand, or ends.
LEMMA HandleStranger ==
    ASSUME NEW s, NEW c, NEW rest, Handle(s, c, rest)
    PROVE  StopsStrangers'
  <1>1. CASE ExecuteChecked(s, c, rest)
    BY <1>1 DEF ExecuteChecked, StopsStrangers
  <1>2. CASE ~ExecuteChecked(s, c, rest)
    BY <1>2 DEF Handle, ExecuteUnchecked, ExecuteAuthorized, AddHotWallet, RmHotWallet,
       ProposeUpdateAdmin, ConfirmUpdateAdmin, CancelUpdateAdmin, Return, StopsStrangers
  <1> QED  BY <1>1, <1>2

\* Renewing or charging a wallet changes no first wallet.
LEMMA SameFirstWallets ==
    ASSUME cfg \in State, NEW i \in DOMAIN cfg.hot_wallets, NEW w,
           w.address = cfg.hot_wallets[i].address,
           cfg' = [cfg EXCEPT !.hot_wallets[i] = w]
    PROVE  \A a : FirstOf(cfg'.hot_wallets, a) = FirstOf(cfg.hot_wallets, a)
  <1>1. cfg.hot_wallets \in Seq(Wallet)
    BY DEF State
  <1>2. cfg'.hot_wallets = [cfg.hot_wallets EXCEPT ![i] = w]
    BY DEF State
  <1> QED  BY <1>1, <1>2, FirstOfReplaced

\* Only AdmitWallet takes a sender to his coins, and only the owner's messages
\* and those of a wallet are ever passed.
LEMMA NextStranger == StrangerInv /\ [Next]_vars => StrangerInv'
  <1> SUFFICES ASSUME StrangerInv, [Next]_vars PROVE StrangerInv'
    OBVIOUS
  <1>1. TypeOK' /\ TypeOK /\ StopsStrangers /\ call \in Running /\ cfg \in State
    BY NextType DEF StrangerInv, TypeOK
  <1>2. ASSUME NEW s, NEW c, NEW rest, Handle(s, c, rest) PROVE StrangerInv'
    BY <1>1, <1>2, HandleStranger DEF StrangerInv
  <1>3. CASE RepayDebt
    <2>1. call'.msgs = call.msgs /\ call.msgs # << >> /\ phase' = "check"
      BY <1>1, <1>3 DEF RepayDebt, Running
    <2> QED  BY <1>1, <2>1 DEF StrangerInv, StopsStrangers
  <1>4. CASE PassOwner
    <2>1. call'.sender = call.sender /\ cfg' = cfg /\ phase' = "check" /\ IsAdmin(call.sender)
      BY <1>1, <1>4 DEF PassOwner, NextMsg, Running
    <2> QED  BY <1>1, <2>1 DEF StrangerInv, StopsStrangers, Welcome, IsAdmin
  <1>5. CASE AdmitWallet
    <2>1. PICK i \in FirstWallet(call.sender), w \in Wallet :
              /\ i \in DOMAIN cfg.hot_wallets
              /\ cfg.hot_wallets[i].address = call.sender /\ w.address = call.sender
              /\ cfg' = [cfg EXCEPT !.hot_wallets[i] = w]
      BY <1>1, <1>5, AdmittedWallet
    <2>2. FirstOf(cfg'.hot_wallets, call.sender) # {}
      BY <1>1, <2>1, SameFirstWallets DEF FirstWallet
    <2>3. call'.sender = call.sender /\ phase' = "charge"
      BY <1>1, <1>5 DEF AdmitWallet, Running
    <2> QED  BY <1>1, <2>2, <2>3 DEF StrangerInv, StopsStrangers, IsHotWallet, FirstWallet
  <1>6. CASE ChargeCoin
    <2>1. PICK i \in FirstWallet(call.sender), w \in Wallet :
              /\ i \in DOMAIN cfg.hot_wallets
              /\ cfg.hot_wallets[i].address = call.sender /\ w.address = call.sender
              /\ cfg' = [cfg EXCEPT !.hot_wallets[i] = w]
      BY <1>1, <1>6, ChargedWallet
    <2>2. FirstOf(cfg'.hot_wallets, call.sender) # {}
      BY <1>1, <2>1, SameFirstWallets DEF FirstWallet
    <2>3. call'.sender = call.sender /\ phase' = "charge"
      BY <1>1, <1>6 DEF ChargeCoin, Running
    <2> QED  BY <1>1, <2>2, <2>3 DEF StrangerInv, StopsStrangers, IsHotWallet, FirstWallet
  <1>7. CASE PassWallet
    <2>1. /\ call'.sender = call.sender /\ cfg' = cfg /\ phase' = "check"
          /\ IsHotWallet(call.sender)
      BY <1>1, <1>7 DEF PassWallet, NextMsg, Running, StopsStrangers
    <2> QED
      BY <1>1, <2>1 DEF StrangerInv, StopsStrangers, Welcome, IsHotWallet, FirstWallet
  <1>8. CASE EndExecute \/ SendCoin \/ FinishMsg \/ Commit \/ Abort
    BY <1>1, <1>8 DEF EndExecute, Return, SendCoin, FinishMsg, Sent, Dispatching, Commit,
       Abort, StrangerInv, StopsStrangers
  <1>9. CASE Trade \/ Tick \/ UNCHANGED vars
    BY <1>1, <1>9 DEF Trade, Tick, vars, StrangerInv, StopsStrangers, Welcome, IsAdmin,
       IsHotWallet, FirstWallet
  <1> QED
    BY <1>2, <1>3, <1>4, <1>5, <1>6, <1>7, <1>8, <1>9
       DEF Next, Submit, CallSelf, CallBack

\* Only the owner's calls and a hot wallet's get to the end of the loop, for
\* any messages, debts and nesting of calls: a stranger cannot have the debt
\* repaid, although check_coins stores the repayment before it looks at him.
THEOREM StrangersGetNowhere == Spec => []StrangerInv /\ OnlyForTheKnown
  <1>1. Init => StrangerInv
    BY InitType DEF Init, StrangerInv, StopsStrangers
  <1>2. StrangerInv => (EndExecute => IsAdmin(call.sender) \/ IsHotWallet(call.sender))
    BY DEF StrangerInv, StopsStrangers, EndExecute, Welcome
  <1> QED
    BY <1>1, <1>2, NextStranger, PTL DEF Spec, OnlyForTheKnown

-----------------------------------------------------------------------------
(***************************************************************************)
(* The limit is the limit, where prices fit in 64 bits.                    *)
(***************************************************************************)
Fits(l) == l.lost = 0 /\ l.charged <= l.budget
AllFit(h) == \A a \in Names : Fits(h.ledger[a])
FitsInv == BudgetInv /\ KnownInv /\ AllFit(hist) /\ AllFit(saved.hist)

\* A ledger that was just opened or reset has nothing charged to it, and the
\* one of an address without a wallet neither.
LEMMA OpenedFits ==
    ASSUME NEW w \in Wallet, NEW t
    PROVE  Fits(Opened(w, t)) /\ Fits(Unopened)
  <1>1. Remaining(w) \in Nat
    BY RemainingType, HotWalletsAssumption DEF LimitAmount
  <1> QED  BY <1>1 DEF Opened, Unopened, Fits

\* A reset opens the ledger anew.
LEMMA ReopenedFits ==
    ASSUME NEW w \in Wallet, NEW l \in Ledger
    PROVE  Fits(Reopened(l, w))
  <1>1. Remaining(w) \in Nat
    BY RemainingType, HotWalletsAssumption DEF LimitAmount
  <1> QED  BY <1>1 DEF Reopened, Fits, Ledger

\* The handlers only open and close ledgers.
LEMMA HandleFits ==
    ASSUME hist \in History, now \in Nat, AllFit(hist),
           NEW s, NEW c \in Calls, NEW rest, Handle(s, c, rest)
    PROVE  AllFit(hist')
  <1>0. hist.ledger \in [Names -> Ledger]
    BY DEF History
  <1>1. CASE ExecuteUnchecked(s, c, rest) \/ ExecuteAuthorized(s, c, rest)
             \/ ExecuteChecked(s, c, rest) \/ CancelUpdateAdmin(s, c, rest)
             \/ ProposeUpdateAdmin(s, c, rest) \/ ConfirmUpdateAdmin(s, c, rest)
    BY <1>1 DEF ExecuteUnchecked, ExecuteAuthorized, ExecuteChecked, CancelUpdateAdmin,
                ProposeUpdateAdmin, ConfirmUpdateAdmin, Proposed, Withdrawn,
                AllFit, History
  <1>2. CASE AddHotWallet(s, c, rest)
    <2>0. PICK w : w = c.new_hot_wallet
      OBVIOUS
    <2>1. w \in Wallet
      BY <1>2, <2>0, ObiProxyAssumption DEF WellFormed, AddHotWallet, ExecuteTypes
    <2>2. hist'.ledger = [hist.ledger EXCEPT ![w.address] = Opened(w, now)]
      BY <1>2, <2>0 DEF AddHotWallet, History
    <2> QED  BY <1>0, <2>1, <2>2, OpenedFits DEF AllFit
  <1>3. CASE RmHotWallet(s, c, rest)
    <2>1. hist'.ledger = [hist.ledger EXCEPT ![c.doomed_hot_wallet] = Unopened]
      BY <1>3 DEF RmHotWallet, History
    <2>2. Fits(Unopened)
      BY DEF Unopened, Fits
    <2> QED  BY <1>0, <2>1, <2>2 DEF AllFit
  <1> QED  BY <1>1, <1>2, <1>3 DEF Handle

\* A coin whose price fits is charged at its price, which is within what is
\* left of the limit.
LEMMA ChargeFits ==
    ASSUME SpendsFitInU64, FitsInv, ChargeCoin
    PROVE  AllFit(hist')
  <1>1. /\ TypeOK /\ call.sender \in Names /\ hist.ledger \in [Names -> Ledger]
        /\ cfg.hot_wallets \in Seq(Wallet) /\ market \in Markets
    BY DEF FitsInv, BudgetInv, TypeOK, Running, History, State
  <1>2. PICK i \in FirstWallet(call.sender), coin \in ToUsdc(market, Head(call.coins)) :
            /\ ReduceLimit(cfg.hot_wallets[i], coin.amount) # {}
            /\ hist' = [hist EXCEPT !.ledger[call.sender] = Charged(@, coin.amount)]
    BY DEF ChargeCoin
  <1>3. coin.amount \in Nat /\ coin.amount < U64
    <2>1. /\ phase = "charge" /\ call.msgs # << >> /\ call.coins # << >>
          /\ call.msgs \in Seq(Message) /\ call.coins \in Seq(Coin)
      BY <1>1 DEF ChargeCoin, TypeOK, Running
    <2>2. /\ 1 \in DOMAIN call.msgs /\ Head(call.msgs) = call.msgs[1]
          /\ 1 \in DOMAIN call.coins /\ Head(call.coins) = call.coins[1]
          /\ Head(call.coins) \in Coin
      BY <2>1, HeadTailProperties
    <2>3. PICK type \in ExecuteTypes : Head(call.msgs) \in MessagesOf(type)
      BY <2>2 DEF FitsInv, KnownInv, KnownCall, ExecuteTypes
    <2>4. PICK n \in DOMAIN MsgFunds(Head(call.msgs)) :
              Head(call.coins) = MsgFunds(Head(call.msgs))[n]
      BY <2>1, <2>2 DEF FitsInv, KnownInv, KnownCall
    <2>5. coin.amount < U64
      BY <1>1, <2>3, <2>4 DEF SpendsFitInU64
    <2>6. coin \in Coin
      BY <1>1, <2>2, ToUsdcType
    <2> QED  BY <2>5, <2>6, PricingAssumption DEF Coin, Uint128
  <1>4. coin.amount % U64 = coin.amount
    BY <1>3, HotWalletsAssumption
  <1> DEFINE l == hist.ledger[call.sender]
             w == cfg.hot_wallets[i]
  <1>5. l \in Ledger /\ Fits(l) /\ Adds(l, w) /\ w \in Wallet
    BY <1>1, FirstOfType DEF FitsInv, AllFit, BudgetInv, WithinBudget, FirstWallet
  <1>6. coin.amount <= Remaining(w)
    <2>1. w.spend_limits # << >> /\ ~(coin.amount > w.spend_limits[1].limit_remaining)
      BY <1>2, <1>4 DEF ReduceLimit
    <2>2. Remaining(w) = w.spend_limits[1].limit_remaining
      BY <2>1 DEF Remaining
    <2>3. Remaining(w) \in Nat
      BY <1>5, RemainingType, HotWalletsAssumption DEF LimitAmount
    <2> QED  BY <1>3, <2>1, <2>2, <2>3
  <1>7. /\ hist'.ledger[call.sender] = Charged(l, coin.amount)
        /\ \A b \in Names : b # call.sender => hist'.ledger[b] = hist.ledger[b]
    BY <1>1, <1>2 DEF FitsInv, BudgetInv, TypeOK, History
  <1> HIDE DEF l, w
  <1>8. Fits(Charged(l, coin.amount))
    <2>1. Remaining(w) \in Nat /\ l.charged \in Nat /\ l.budget \in Nat
      BY <1>5, RemainingType, HotWalletsAssumption DEF LimitAmount, Ledger
    <2>2. /\ Charged(l, coin.amount).charged = l.charged + coin.amount
          /\ Charged(l, coin.amount).lost = 0 /\ Charged(l, coin.amount).budget = l.budget
      BY <1>3, <1>4, <1>5 DEF Charged, Fits, Ledger
    <2>3. l.charged + Remaining(w) = l.budget
      BY <1>5, <2>1 DEF Adds, Fits
    <2> QED  BY <1>3, <1>6, <2>1, <2>2, <2>3 DEF Fits
  <1> QED  BY <1>7, <1>8 DEF FitsInv, AllFit

\* The other steps leave the ledgers as they are.
LEMMA NextFits ==
    ASSUME SpendsFitInU64 PROVE FitsInv /\ [Next]_vars => FitsInv'
  <1> SUFFICES ASSUME FitsInv, [Next]_vars PROVE FitsInv'
    OBVIOUS
  <1>1. /\ BudgetInv' /\ KnownInv' /\ TypeOK
        /\ hist \in History /\ now \in Nat /\ AllFit(hist) /\ AllFit(saved.hist)
    BY NextBudget, NextKnown DEF FitsInv, BudgetInv, TypeOK
  <1>2. ASSUME NEW s, NEW c \in Calls, NEW rest, Handle(s, c, rest) PROVE FitsInv'
    <2>1. saved' = saved
      BY <1>2 DEF Handle
    <2> QED  BY <1>1, <1>2, <2>1, HandleFits DEF FitsInv
  <1>3. CASE CallSelf
    <2>1. NextOut.inner \in Calls
      BY <1>1, <1>3, NextOutType DEF CallSelf, Sent, Message
    <2> QED  BY <1>2, <1>3, <2>1 DEF CallSelf
  <1>4. ASSUME hist'.ledger = hist.ledger, saved' = saved PROVE FitsInv'
    BY <1>1, <1>4 DEF FitsInv, AllFit
  <1>5. CASE RepayDebt \/ FinishMsg
    BY <1>1, <1>4, <1>5 DEF RepayDebt, FinishMsg, History
  <1>6. CASE PassOwner \/ PassWallet \/ EndExecute \/ SendCoin \/ Trade \/ Tick \/ UNCHANGED vars
    BY <1>4, <1>6 DEF PassOwner, PassWallet, EndExecute, SendCoin, Trade, Tick, vars
  <1>7. CASE AdmitWallet
    <2>1. PICK w \in Wallet :
              \/ hist' = hist
              \/ hist' = [hist EXCEPT !.ledger[call.sender] = Reopened(@, w)]
      BY <1>1, <1>7, AdmittedWallet
    <2>2. CASE hist' = hist
      BY <1>4, <1>7, <2>2 DEF AdmitWallet
    <2>3. CASE hist' = [hist EXCEPT !.ledger[call.sender] = Reopened(@, w)]
      <3>1. call.sender \in Names /\ hist.ledger[call.sender] \in Ledger
        BY <1>1 DEF TypeOK, Running, History
      <3>2. /\ hist'.ledger[call.sender] = Reopened(hist.ledger[call.sender], w)
            /\ \A b \in Names : b # call.sender => hist'.ledger[b] = hist.ledger[b]
        BY <1>1, <2>3, <3>1 DEF History
      <3>3. AllFit(hist')
        BY <1>1, <3>1, <3>2, ReopenedFits DEF AllFit
      <3> QED  BY <1>1, <1>7, <3>3 DEF AdmitWallet, FitsInv
    <2> QED  BY <2>1, <2>2, <2>3
  <1>8. CASE ChargeCoin
    BY <1>1, <1>8, ChargeFits DEF ChargeCoin, FitsInv
  <1>9. CASE Commit
    BY <1>1, <1>9 DEF Commit, FitsInv, AllFit
  <1>10. CASE Abort
    BY <1>1, <1>10 DEF Abort, FitsInv, AllFit
  <1> QED
    BY <1>2, <1>3, <1>5, <1>6, <1>7, <1>8, <1>9, <1>10 DEF Next, Submit, CallBack

\* No hot wallet is charged more in a period than the period allows it, as long
\* as no coin of a call is worth 2^64 or more: the cast of reduce_limit is the
\* only way around a limit, whatever is called, nested, removed or undone.
THEOREM LimitsHoldBelowU64 ==
    ASSUME SpendsFitInU64 PROVE Spec => []NeverOverLimit
  <1>1. Init => FitsInv
    <2> SUFFICES ASSUME Init PROVE FitsInv
      OBVIOUS
    <2>1. BudgetInv /\ KnownInv
      BY InitBudget, InitKnown
    <2>2. ASSUME NEW a \in Names PROVE Fits(hist.ledger[a])
      <3>1. CASE FirstOf(cfg.hot_wallets, a) = {}
        BY <3>1 DEF Init, NewHistory, Unopened, Fits
      <3>2. CASE FirstOf(cfg.hot_wallets, a) # {}
        <4>1. PICK w \in Wallet : hist.ledger[a] = Opened(w, StartTime)
          BY <2>1, <3>2, ChosenType DEF Init, NewHistory, BudgetInv, TypeOK, State
        <4> QED  BY <4>1, OpenedFits
      <3> QED  BY <3>1, <3>2
    <2> QED  BY <2>1, <2>2 DEF Init, FitsInv, AllFit
  <1>2. FitsInv => NeverOverLimit
    BY DEF FitsInv, AllFit, Fits, NeverOverLimit
  <1> QED  BY <1>1, <1>2, NextFits, PTL DEF Spec

-----------------------------------------------------------------------------
(***************************************************************************)
(* Stored wallets are valid, where the owner adds valid ones.              *)
(***************************************************************************)
AllValid(c) ==
    \A i \in DOMAIN c.hot_wallets : AssertIsValid(c.hot_wallets[i], LimitDenoms)
ValidInv == TypeOK /\ AllValid(cfg) /\ AllValid(saved.cfg)

\* Neither a reset nor a charge changes what assert_is_valid looks at.
LEMMA ResetValid ==
    ASSUME NEW w \in Wallet, AssertIsValid(w, LimitDenoms), NEW v \in Due(w)
    PROVE  AssertIsValid(v, LimitDenoms)
  <1>1. CASE v \in ResetPeriod(w, now)
    <2>1. PICK next : v = [w EXCEPT !.current_period_reset = next,
                               !.spend_limits[1].limit_remaining = w.spend_limits[1].amount]
      BY <1>1 DEF ResetPeriod
    <2>2. w.spend_limits \in Seq(CoinLimit(Denom)) /\ Len(w.spend_limits) = 1
      BY DEF Wallet, HotWallet, AssertIsValid
    <2>3. 1 \in DOMAIN w.spend_limits /\ w.spend_limits[1] \in CoinLimit(Denom)
      BY <2>2
    <2> DEFINE limits == [w.spend_limits EXCEPT
                             ![1].limit_remaining = w.spend_limits[1].amount]
    <2>4. Len(limits) = 1 /\ limits[1].denom = w.spend_limits[1].denom
      BY <2>2, <2>3 DEF CoinLimit
    <2>5. v = [w EXCEPT !.current_period_reset = next, !.spend_limits = limits]
      BY <2>1
    <2> HIDE DEF limits
    <2>6. v.spend_limits = limits /\ v.usdc_denom = w.usdc_denom
      BY <2>5 DEF Wallet, HotWallet
    <2> QED  BY <2>4, <2>6 DEF AssertIsValid
  <1> QED  BY <1>1 DEF Due

\* A reduction changes what is left of a limit, not how many there are.
LEMMA ReduceValid ==
    ASSUME NEW w \in Wallet, AssertIsValid(w, LimitDenoms), NEW usd,
           NEW v \in ReduceLimit(w, usd)
    PROVE  AssertIsValid(v, LimitDenoms)
  <1>1. v = [w EXCEPT !.spend_limits[1].limit_remaining = @ - (usd % U64)]
    BY DEF ReduceLimit
  <1>2. w.spend_limits \in Seq(CoinLimit(Denom)) /\ Len(w.spend_limits) = 1
    BY DEF Wallet, HotWallet, AssertIsValid
  <1>3. 1 \in DOMAIN w.spend_limits /\ w.spend_limits[1] \in CoinLimit(Denom)
    BY <1>2
  <1> DEFINE limits == [w.spend_limits EXCEPT ![1].limit_remaining = @ - (usd % U64)]
  <1>4. Len(limits) = 1 /\ limits[1].denom = w.spend_limits[1].denom
    BY <1>2, <1>3 DEF CoinLimit
  <1>5. v = [w EXCEPT !.spend_limits = limits]
    BY <1>1
  <1> HIDE DEF limits
  <1>6. v.spend_limits = limits /\ v.usdc_denom = w.usdc_denom
    BY <1>5 DEF Wallet, HotWallet
  <1> QED  BY <1>4, <1>6 DEF AssertIsValid

\* What is added is valid, and taking wallets out leaves valid ones.
LEMMA HandleValid ==
    ASSUME AddedWalletsValid, cfg \in State, AllValid(cfg),
           NEW s, NEW c \in Calls, NEW rest, Handle(s, c, rest)
    PROVE  AllValid(cfg')
  <1>0. cfg.hot_wallets \in Seq(Wallet)
    BY DEF State
  <1>1. CASE cfg'.hot_wallets = cfg.hot_wallets
    BY <1>1 DEF AllValid
  <1>2. CASE AddHotWallet(s, c, rest)
    <2>0. PICK w : w = c.new_hot_wallet
      OBVIOUS
    <2>1. w \in Wallet /\ AssertIsValid(w, LimitDenoms)
      BY <1>2, <2>0, ObiProxyAssumption
         DEF WellFormed, AddHotWallet, ExecuteTypes, AddedWalletsValid
    <2>2. cfg'.hot_wallets = Append(cfg.hot_wallets, w)
      BY <1>2, <2>0 DEF AddHotWallet, State
    <2>3. \A i \in DOMAIN cfg'.hot_wallets :
              \/ i \in DOMAIN cfg.hot_wallets /\ cfg'.hot_wallets[i] = cfg.hot_wallets[i]
              \/ cfg'.hot_wallets[i] = w
      BY <1>0, <2>1, <2>2, AppendProperties
    <2> QED  BY <2>1, <2>3 DEF AllValid
  <1>3. CASE RmHotWallet(s, c, rest)
    <2>1. cfg'.hot_wallets \in Retain(cfg.hot_wallets, c.doomed_hot_wallet)
      BY <1>3 DEF RmHotWallet, State
    <2>2. \A n \in DOMAIN cfg'.hot_wallets : \E i \in DOMAIN cfg.hot_wallets :
              cfg'.hot_wallets[n] = cfg.hot_wallets[i]
      <3>1. PICK doomed : doomed = c.doomed_hot_wallet
        OBVIOUS
      <3> QED  BY <1>0, <2>1, <3>1, RetainType
    <2> QED  BY <2>2 DEF AllValid
  <1>4. CASE ExecuteUnchecked(s, c, rest) \/ ExecuteAuthorized(s, c, rest)
             \/ ExecuteChecked(s, c, rest) \/ CancelUpdateAdmin(s, c, rest)
             \/ ProposeUpdateAdmin(s, c, rest) \/ ConfirmUpdateAdmin(s, c, rest)
    BY <1>1, <1>4 DEF ExecuteUnchecked, ExecuteAuthorized, ExecuteChecked, CancelUpdateAdmin,
                ProposeUpdateAdmin, ConfirmUpdateAdmin, State
  <1> QED  BY <1>2, <1>3, <1>4 DEF Handle

\* A valid wallet in the place of another leaves valid wallets.
LEMMA ReplaceValid ==
    ASSUME cfg \in State, AllValid(cfg), NEW i, NEW w, AssertIsValid(w, LimitDenoms),
           cfg' = [cfg EXCEPT !.hot_wallets[i] = w]
    PROVE  AllValid(cfg')
  <1>1. /\ DOMAIN cfg'.hot_wallets = DOMAIN cfg.hot_wallets
        /\ \A k \in DOMAIN cfg.hot_wallets :
              cfg'.hot_wallets[k] = IF k = i THEN w ELSE cfg.hot_wallets[k]
    BY DEF State
  <1> QED  BY <1>1 DEF AllValid

\* So every step keeps the stored wallets valid.
LEMMA NextValid ==
    ASSUME AddedWalletsValid PROVE ValidInv /\ [Next]_vars => ValidInv'
  <1> SUFFICES ASSUME ValidInv, [Next]_vars PROVE ValidInv'
    OBVIOUS
  <1>1. TypeOK' /\ TypeOK /\ cfg \in State /\ AllValid(cfg) /\ AllValid(saved.cfg)
    BY NextType DEF ValidInv, TypeOK
  <1>2. ASSUME NEW s, NEW c \in Calls, NEW rest, Handle(s, c, rest) PROVE ValidInv'
    <2>1. saved' = saved
      BY <1>2 DEF Handle
    <2> QED  BY <1>1, <1>2, <2>1, HandleValid DEF ValidInv
  <1>3. CASE CallSelf
    <2>1. NextOut.inner \in Calls
      BY <1>1, <1>3, NextOutType DEF CallSelf, Sent, Message
    <2> QED  BY <1>2, <1>3, <2>1 DEF CallSelf
  <1>4. ASSUME cfg'.hot_wallets = cfg.hot_wallets, saved' = saved PROVE ValidInv'
    BY <1>1, <1>4 DEF ValidInv, AllValid
  <1>5. CASE RepayDebt
    BY <1>1, <1>4, <1>5 DEF RepayDebt, State
  <1>6. CASE PassOwner \/ PassWallet \/ EndExecute \/ SendCoin \/ FinishMsg \/ Trade \/ Tick
             \/ UNCHANGED vars
    BY <1>4, <1>6
       DEF PassOwner, PassWallet, EndExecute, SendCoin, FinishMsg, Trade, Tick, vars
  <1>7. \A i \in FirstWallet(call.sender) :
            /\ cfg.hot_wallets[i] \in Wallet
            /\ AssertIsValid(cfg.hot_wallets[i], LimitDenoms)
    BY <1>1, FirstOfType DEF FirstWallet, AllValid, State
  <1>8. CASE AdmitWallet
    <2>1. PICK i \in FirstWallet(call.sender) : \E w \in Due(cfg.hot_wallets[i]) :
              cfg' = [cfg EXCEPT !.hot_wallets[i] = w]
      BY <1>8 DEF AdmitWallet
    <2>2. PICK w \in Due(cfg.hot_wallets[i]) : cfg' = [cfg EXCEPT !.hot_wallets[i] = w]
      BY <2>1
    <2>3. AllValid(cfg')
      BY <1>1, <1>7, <2>2, ResetValid, ReplaceValid
    <2> QED  BY <1>1, <1>8, <2>3 DEF AdmitWallet, ValidInv
  <1>9. CASE ChargeCoin
    <2>1. PICK i \in FirstWallet(call.sender), usd \in ToUsdc(market, Head(call.coins)) :
              \E w \in ReduceLimit(cfg.hot_wallets[i], usd.amount) :
                  cfg' = [cfg EXCEPT !.hot_wallets[i] = w]
      BY <1>9 DEF ChargeCoin
    <2>2. PICK w \in ReduceLimit(cfg.hot_wallets[i], usd.amount) :
              cfg' = [cfg EXCEPT !.hot_wallets[i] = w]
      BY <2>1
    <2>3. AllValid(cfg')
      BY <1>1, <1>7, <2>2, ReduceValid, ReplaceValid
    <2> QED  BY <1>1, <1>9, <2>3 DEF ChargeCoin, ValidInv
  <1>10. CASE Commit
    BY <1>1, <1>10 DEF Commit, ValidInv, AllValid
  <1>11. CASE Abort
    BY <1>1, <1>11 DEF Abort, ValidInv, AllValid
  <1> QED
    BY <1>2, <1>3, <1>5, <1>6, <1>8, <1>9, <1>10, <1>11 DEF Next, Submit, CallBack

\* Every stored wallet stays one that instantiate would accept, with one limit
\* in a currency of USDC, as long as add_hot_wallet is given such ones: neither
\* resets, charges, removals nor rollbacks spoil it.
THEOREM ValidWalletsStayValid ==
    ASSUME AddedWalletsValid PROVE Spec => []StoredWalletsValid
  <1>1. Init => ValidInv
    BY InitType DEF Init, Instantiate, ValidInv, AllValid
  <1>2. ValidInv => StoredWalletsValid
    BY DEF ValidInv, AllValid, StoredWalletsValid
  <1> QED  BY <1>1, <1>2, NextValid, PTL DEF Spec
=============================================================================
