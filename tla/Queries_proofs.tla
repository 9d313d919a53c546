--------------------------- MODULE Queries_proofs ---------------------------
(***************************************************************************)
(* What CanSpend refuses is refused.                                       *)
(***************************************************************************)
EXTENDS Queries, ObiProxy_proofs

-----------------------------------------------------------------------------
\* There is a coin that costs more than is left of every first wallet of a.
Hopeless(a, coins) ==
    \E n \in DOMAIN coins : \A i \in FirstWallet(a) :
        \A usd \in ToUsdc(market, coins[n]) :
            usd.amount % U64 > Remaining(cfg.hot_wallets[i])

\* The call that is running was refused, and is not going to end.
Doomed ==
    /\ phase \in {"check", "charge"}
    /\ phase = "check" => CanSpend(call.sender, call.msgs) = {FALSE}
    /\ phase = "charge" => Hopeless(call.sender, call.coins)

Fields ==
    answer = [status |-> answer.status, sender |-> answer.sender, call |-> answer.call,
              can_spend |-> answer.can_spend, promised |-> answer.promised]

AnswerInv ==
    /\ answer.status \in {"none", "asked", "running", "accepted"}
    /\ answer.status # "none" => Fields
    /\ answer.status = "asked" =>
          /\ phase = "idle" /\ answer.sender \in Addr \ {Proxy}
          /\ answer.call \in Executes
          /\ answer.can_spend = CanSpend(answer.sender, answer.call.msgs)
    /\ answer.status = "running" => phase \in {"check", "charge"}
    /\ answer.status = "running" /\ answer.can_spend = {FALSE} =>
          Doomed /\ call.sender \in Addr
    /\ RefusalIsFinal

QueryInv == TypeOK /\ AnswerInv

-----------------------------------------------------------------------------
(***************************************************************************)
(* What a refusal means.                                                   *)
(***************************************************************************)
\* Whoever is refused is not the owner, has one message, which is not to an
\* authorized contract, and which carries coins.
LEMMA Refused ==
    ASSUME NEW s \in Addr, NEW msgs \in Seq(Message), CanSpend(s, msgs) = {FALSE}
    PROVE  /\ ~IsAdmin(s) /\ Len(msgs) = 1 /\ Head(msgs) = msgs[1]
           /\ ~Authorized(Head(msgs), s)
           /\ Head(msgs).kind \in {"bank_send", "staking_delegate"}
           /\ FALSE \in CheckSpendLimits(s, Head(msgs).funds)
  <1>1. /\ {TRUE} # {FALSE} /\ {} # {FALSE}
    OBVIOUS
  <1>2. ~IsAdmin(s) /\ Len(msgs) = 1
    BY <1>1 DEF CanSpend
  <1>3. ~Authorized(msgs[1], s)
    BY <1>1, <1>2 DEF CanSpend
  <1>4. msgs[1].kind \in {"bank_send", "staking_delegate"}
    BY <1>1, <1>2, <1>3 DEF CanSpend
  <1>5. CheckSpendLimits(s, msgs[1].funds) = {FALSE}
    BY <1>2, <1>3, <1>4 DEF CanSpend
  <1>6. Head(msgs) = msgs[1]
    BY <1>2, HeadTailProperties
  <1> QED  BY <1>2, <1>3, <1>4, <1>5, <1>6

\* Of these two kinds only bank messages are let in.
LEMMA BankSpends ==
    ASSUME NEW m, m.kind \in {"bank_send", "staking_delegate"}, Spends(m)
    PROVE  MsgFunds(m) = m.funds
  BY DEF Spends, MsgType, MsgFunds, SpendTypes, BankKinds, SpendCalls, OtherCalls

\* A wallet that is let in has as much left as was compared with.
LEMMA LimitChecked ==
    ASSUME NEW w \in Wallet, w.spend_limits # << >>, NEW v \in Due(w)
    PROVE  Remaining(v) = LimitToCheck(w) /\ v.spend_limits # << >>
  <1>1. w.spend_limits \in Seq(CoinLimit(Denom)) /\ 1 \in DOMAIN w.spend_limits
        /\ w.spend_limits[1] \in CoinLimit(Denom)
    BY DEF Wallet, HotWallet
  <1>2. CASE ShouldReset(w, now)
    <2> DEFINE limits == [w.spend_limits EXCEPT
                             ![1].limit_remaining = w.spend_limits[1].amount]
    <2>1. limits # << >> /\ limits[1].limit_remaining = w.spend_limits[1].amount
      BY <1>1 DEF CoinLimit
    <2>2. PICK next \in NextReset(w, now) :
              v = [w EXCEPT !.current_period_reset = next,
                            !.spend_limits[1].limit_remaining = w.spend_limits[1].amount]
      BY <1>2 DEF Due, ResetPeriod
    <2>3. v = [w EXCEPT !.current_period_reset = next, !.spend_limits = limits]
      BY <2>2
    <2> HIDE DEF limits
    <2>4. v.spend_limits = limits
      BY <2>3 DEF Wallet, HotWallet
    <2> QED  BY <1>2, <2>1, <2>4 DEF LimitToCheck, Remaining
  <1>3. CASE ~ShouldReset(w, now)
    BY <1>3 DEF LimitToCheck, Remaining, Due
  <1> QED  BY <1>2, <1>3

\* A refused message that is let in has a coin that is going to fail.
LEMMA AdmitHopeless ==
    ASSUME TypeOK, AdmitWallet, CanSpend(call.sender, call.msgs) = {FALSE},
           call.sender \in Addr
    PROVE  Hopeless(call.sender, call.coins)'
  <1>1. PICK i \in FirstWallet(call.sender) : \E w \in Due(cfg.hot_wallets[i]) :
            cfg' = [cfg EXCEPT !.hot_wallets[i] = w]
    BY DEF AdmitWallet
  <1>2. PICK w \in Due(cfg.hot_wallets[i]) : cfg' = [cfg EXCEPT !.hot_wallets[i] = w]
    BY <1>1
  <1>3. /\ cfg.hot_wallets \in Seq(Wallet) /\ call.msgs \in Seq(Message)
        /\ i \in FirstOf(cfg.hot_wallets, call.sender) /\ i \in DOMAIN cfg.hot_wallets
        /\ cfg.hot_wallets[i] \in Wallet /\ cfg.hot_wallets[i].address = call.sender
        /\ now \in Nat
    BY FirstOfType DEF FirstWallet, TypeOK, State, Running
  <1>4. w \in Wallet /\ w.address = cfg.hot_wallets[i].address
    BY <1>3, DueType
  <1> DEFINE coins == Head(call.msgs).funds
  <1>5. FALSE \in CheckSpendLimits(call.sender, coins)
        /\ Head(call.msgs).kind \in {"bank_send", "staking_delegate"}
    BY <1>3, Refused
  <1>6. call'.coins = coins /\ call'.sender = call.sender /\ market' = market
    BY <1>5, BankSpends DEF AdmitWallet, TypeOK, Running
  <1> HIDE DEF coins
  <1>7. \E n \in DOMAIN coins : \A usd \in ToUsdc(market, coins[n]) :
            usd.amount % U64 > Remaining(w)
    <2>1. CASE coins # << >> /\ ToUsdc(market, Head(coins)) = {}
      <3>1. Head(call.msgs) \in Message
        BY <1>3, HeadTailProperties DEF AdmitWallet
      <3>2. coins \in Seq(Coin)
        BY <3>1 DEF coins, Message
      <3>3. 1 \in DOMAIN coins /\ Head(coins) = coins[1]
        BY <2>1, <3>2, HeadTailProperties
      <3> QED  BY <2>1, <3>3
    <2>2. ASSUME NEW k \in FirstWallet(call.sender),
                 \/ cfg.hot_wallets[k].spend_limits # << >>
                 \/ coins = << >>,
                 ~CheckSpendVec(cfg.hot_wallets[k], coins)
          PROVE  \E n \in DOMAIN coins : \A usd \in ToUsdc(market, coins[n]) :
                     usd.amount % U64 > Remaining(w)
      <3>1. k = i
        BY <1>3, FirstOfUnique DEF FirstWallet
      <3>2. PICK n \in DOMAIN coins : \A usd \in ToUsdc(market, coins[n]) :
                ~(usd.amount % U64 <= LimitToCheck(cfg.hot_wallets[i]))
        BY <2>2, <3>1 DEF CheckSpendVec
      <3>3. cfg.hot_wallets[i].spend_limits # << >>
        BY <2>2, <3>1, <3>2
      <3>4. Remaining(w) = LimitToCheck(cfg.hot_wallets[i])
        BY <1>2, <1>3, <3>3, LimitChecked
      <3>5. Remaining(w) \in Nat
        BY <1>4, RemainingType, HotWalletsAssumption DEF LimitAmount
      <3>6. ASSUME NEW usd \in ToUsdc(market, coins[n]) PROVE usd.amount % U64 > Remaining(w)
        <4>1. Head(call.msgs) \in Message
          BY <1>3, HeadTailProperties DEF AdmitWallet
        <4>2. coins \in Seq(Coin)
          BY <4>1 DEF coins, Message
        <4>3. usd.amount \in Nat
          <5>1. coins[n] \in Coin /\ market \in Markets
            BY <4>2 DEF TypeOK
          <5>2. usd \in Coin
            BY <5>1, ToUsdcType
          <5> QED  BY <5>2, PricingAssumption DEF Coin, Uint128
        <4>4. usd.amount % U64 \in Nat
          BY <4>3, CastType
        <4> QED  BY <3>2, <3>4, <3>5, <4>4
      <3> QED  BY <3>6
    <2>3. IsHotWallet(call.sender)
      BY <1>1 DEF IsHotWallet
    <2> QED  BY <1>5, <2>1, <2>2, <2>3 DEF CheckSpendLimits
  <1>8. ASSUME NEW k \in FirstOf(cfg'.hot_wallets, call.sender)
        PROVE  cfg'.hot_wallets[k] = w
    <2>1. cfg'.hot_wallets = [cfg.hot_wallets EXCEPT ![i] = w]
      BY <1>2 DEF TypeOK, State
    <2>2. k \in FirstOf(cfg.hot_wallets, call.sender)
      BY <1>3, <1>4, <1>8, <2>1, FirstOfReplaced
    <2>3. k = i
      BY <1>3, <2>2, FirstOfUnique
    <2> QED  BY <1>3, <2>1, <2>3
  <1> QED  BY <1>6, <1>7, <1>8 DEF Hopeless, FirstWallet

\* The coin that is going to fail is not the one that was charged, and there
\* is not more left for it now.
LEMMA ChargeHopeless ==
    ASSUME TypeOK, ChargeCoin, Hopeless(call.sender, call.coins)
    PROVE  Hopeless(call.sender, call.coins)'
  <1>1. PICK i \in FirstWallet(call.sender), coin \in ToUsdc(market, Head(call.coins)) :
            \E w \in ReduceLimit(cfg.hot_wallets[i], coin.amount) :
               cfg' = [cfg EXCEPT !.hot_wallets[i] = w]
    BY DEF ChargeCoin
  <1>2. PICK w \in ReduceLimit(cfg.hot_wallets[i], coin.amount) :
            cfg' = [cfg EXCEPT !.hot_wallets[i] = w]
    BY <1>1
  <1>3. /\ cfg.hot_wallets \in Seq(Wallet) /\ call.coins \in Seq(Coin) /\ call.coins # << >>
        /\ i \in FirstOf(cfg.hot_wallets, call.sender) /\ i \in DOMAIN cfg.hot_wallets
        /\ cfg.hot_wallets[i] \in Wallet /\ cfg.hot_wallets[i].address = call.sender
        /\ market \in Markets
    BY FirstOfType DEF FirstWallet, TypeOK, State, Running, ChargeCoin
  <1>4. /\ Head(call.coins) \in Coin /\ Head(call.coins) = call.coins[1]
        /\ Tail(call.coins) \in Seq(Coin)
    BY <1>3, HeadTailProperties
  <1>5. coin.amount \in Nat /\ coin.amount % U64 \in Nat
    <2>1. coin.amount \in Nat
      BY <1>3, <1>4, ToUsdcType, PricingAssumption DEF Coin, Uint128
    <2> QED  BY <2>1, CastType
  <1>6. /\ w \in Wallet /\ w.address = cfg.hot_wallets[i].address
        /\ Remaining(w) = Remaining(cfg.hot_wallets[i]) - (coin.amount % U64)
        /\ Remaining(w) \in Nat /\ Remaining(cfg.hot_wallets[i]) \in Nat
    BY <1>3, <1>5, ReduceLimitType, RemainingType, HotWalletsAssumption DEF LimitAmount
  <1>7. PICK n \in DOMAIN call.coins : \A usd \in ToUsdc(market, call.coins[n]) :
            usd.amount % U64 > Remaining(cfg.hot_wallets[i])
    BY <1>1 DEF Hopeless
  <1>8. n # 1
    <2>1. ~(coin.amount % U64 > Remaining(cfg.hot_wallets[i]))
      BY <1>5, <1>6
    <2> QED  BY <1>4, <1>7, <2>1
  <1>9. n - 1 \in DOMAIN Tail(call.coins) /\ Tail(call.coins)[n - 1] = call.coins[n]
    BY <1>3, <1>7, <1>8
  <1>10. ASSUME NEW usd \in ToUsdc(market, Tail(call.coins)[n - 1])
         PROVE  usd.amount % U64 > Remaining(w)
    <2>1. usd.amount % U64 > Remaining(cfg.hot_wallets[i])
      BY <1>7, <1>9
    <2>2. usd.amount \in Nat
      <3>1. Tail(call.coins)[n - 1] \in Coin
        BY <1>4, <1>9
      <3>2. usd \in Coin
        BY <1>3, <3>1, ToUsdcType
      <3> QED  BY <3>2, PricingAssumption DEF Coin, Uint128
    <2>3. usd.amount % U64 \in Nat
      BY <2>2, CastType
    <2> QED  BY <1>5, <1>6, <2>1, <2>3
  <1>11. ASSUME NEW k \in FirstOf(cfg'.hot_wallets, call.sender)
         PROVE  cfg'.hot_wallets[k] = w
    <2>1. cfg'.hot_wallets = [cfg.hot_wallets EXCEPT ![i] = w]
      BY <1>2 DEF TypeOK, State
    <2>2. k \in FirstOf(cfg.hot_wallets, call.sender)
      BY <1>3, <1>6, <1>11, <2>1, FirstOfReplaced
    <2>3. k = i
      BY <1>3, <2>2, FirstOfUnique
    <2> QED  BY <1>3, <2>1, <2>3
  <1>12. call'.coins = Tail(call.coins) /\ call'.sender = call.sender /\ market' = market
    BY DEF ChargeCoin, TypeOK, Running
  <1> QED  BY <1>9, <1>10, <1>11, <1>12 DEF Hopeless, FirstWallet

-----------------------------------------------------------------------------
(***************************************************************************)
(* The steps.                                                              *)
(***************************************************************************)
\* The answer depends on the owner, the wallets, the prices and the time.
LEMMA SameAnswer ==
    ASSUME cfg'.admin = cfg.admin, cfg'.hot_wallets = cfg.hot_wallets,
           market' = market, now' = now
    PROVE  \A s, msgs : CanSpend(s, msgs)' = CanSpend(s, msgs)
  <1>1. \A w : LimitToCheck(w)' = LimitToCheck(w)
    BY DEF LimitToCheck
  <1>2. \A w, coins : CheckSpendVec(w, coins)' = CheckSpendVec(w, coins)
    BY <1>1 DEF CheckSpendVec
  <1>3. \A a : /\ FirstWallet(a)' = FirstWallet(a) /\ IsHotWallet(a)' = IsHotWallet(a)
               /\ IsAdmin(a)' = IsAdmin(a)
    BY DEF FirstWallet, IsHotWallet, IsAdmin
  <1>4. \A m, a : Authorized(m, a)' = Authorized(m, a)
    BY <1>3 DEF Authorized
  <1>5. \A a, coins : CheckSpendLimits(a, coins)' = CheckSpendLimits(a, coins)
    BY <1>2, <1>3 DEF CheckSpendLimits
  <1> QED  BY <1>3, <1>4, <1>5 DEF CanSpend

\* A refused call that is running goes on to be doomed, or is undone.
LEMMA DoomedStep ==
    ASSUME TypeOK, Next, Doomed, call.sender \in Addr
    PROVE  phase' = "idle" \/ (Doomed' /\ call'.sender = call.sender)
  <1>1. CASE RepayDebt
    <2>1. /\ phase' = "check" /\ phase = "check"
          /\ call'.sender = call.sender /\ call'.msgs = call.msgs
          /\ cfg'.admin = cfg.admin /\ cfg'.hot_wallets = cfg.hot_wallets
          /\ market' = market /\ now' = now
      BY <1>1 DEF RepayDebt, TypeOK, State, Running
    <2>2. (CanSpend(call.sender, call.msgs) = {FALSE})'
      BY <2>1, SameAnswer DEF Doomed
    <2> QED  BY <2>1, <2>2 DEF Doomed
  <1>2. CASE PassOwner
    BY <1>2, Refused DEF PassOwner, Doomed, TypeOK, Running
  <1>3. CASE AdmitWallet
    <2>1. phase' = "charge" /\ phase = "check" /\ call'.sender = call.sender
      BY <1>3 DEF AdmitWallet, TypeOK, Running
    <2> QED  BY <1>3, <2>1, AdmitHopeless DEF Doomed
  <1>4. CASE ChargeCoin
    <2>1. phase' = "charge" /\ phase = "charge" /\ call'.sender = call.sender
      BY <1>4 DEF ChargeCoin, TypeOK, Running
    <2> QED  BY <1>4, <2>1, ChargeHopeless DEF Doomed
  <1>5. CASE PassWallet
    BY <1>5 DEF PassWallet, Doomed, Hopeless
  <1>6. CASE EndExecute
    <2>1. call.msgs = << >> /\ CanSpend(call.sender, call.msgs) = {FALSE}
          /\ call.msgs \in Seq(Message)
      BY <1>6 DEF EndExecute, Doomed, TypeOK, Running
    <2>2. Len(call.msgs) = 1
      BY <2>1, Refused
    <2> QED  BY <2>1, <2>2
  <1>7. CASE Abort
    BY <1>7 DEF Abort
  <1> QED
    BY <1>1, <1>2, <1>3, <1>4, <1>5, <1>6, <1>7
       DEF Next, Doomed, SendCoin, FinishMsg, CallSelf, Sent, Dispatching, Commit, Trade, Tick

\* A refused call that is taken is doomed.
LEMMA DoomedSubmit ==
    ASSUME TypeOK, NEW s \in Addr, NEW c \in Executes, Submit(s, c),
           CanSpend(s, c.msgs) = {FALSE}
    PROVE  Doomed' /\ call'.sender \in Addr
  <1>0. c \in Calls /\ c.type \in {"execute", "sim_execute"} /\ c.msgs \in Seq(Message)
    BY ObiProxyAssumption DEF Executes, ExecuteTypes, WellFormed
  <1>1. ExecuteChecked(s, c, << >>)
    <2>1. ~IsAdmin(s) /\ ~Authorized(Head(c.msgs), s)
      BY <1>0, Refused
    <2>2. ~ExecuteUnchecked(s, c, << >>) /\ ~ExecuteAuthorized(s, c, << >>)
      BY <2>1 DEF ExecuteUnchecked, ExecuteAuthorized, Unchecked
    <2> QED
      BY <1>0, <2>2 DEF Submit, Handle, AddHotWallet, RmHotWallet, ProposeUpdateAdmin,
             ConfirmUpdateAdmin, CancelUpdateAdmin
  <1>2. /\ phase' = "check" /\ call'.sender = s /\ call'.msgs = c.msgs
        /\ cfg' = cfg /\ market' = market /\ now' = now
    BY <1>1 DEF ExecuteChecked, Submit, Handle
  <1>3. (CanSpend(call.sender, call.msgs) = {FALSE})'
    BY <1>2, SameAnswer
  <1> QED  BY <1>2, <1>3 DEF Doomed

\* A step of the client is one of the proxy, or none.
LEMMA QueryStep == AnswerInv /\ [QueryNext]_queryVars => [Next]_vars
  <1> SUFFICES ASSUME AnswerInv, [QueryNext]_queryVars PROVE [Next]_vars
    OBVIOUS
  <1>1. CASE Follow
    <2>1. /\ Submit(answer.sender, answer.call) /\ answer.sender \in Addr \ {Proxy}
          /\ answer.call \in Calls /\ phase = "idle"
      BY <1>1 DEF Follow, AnswerInv, Executes
    <2> QED  BY <2>1 DEF Next
  <1>2. CASE GoOn \/ Otherwise
    BY <1>2 DEF GoOn, Otherwise
  <1>3. CASE UNCHANGED vars
    BY <1>3
  <1>4. UNCHANGED queryVars => UNCHANGED vars
    BY DEF queryVars, vars
  <1>5. \A s, c : Ask(s, c) => UNCHANGED vars
    BY DEF Ask
  <1> QED  BY <1>1, <1>2, <1>3, <1>4, <1>5 DEF QueryNext

\* No step ends a call that was refused.
LEMMA NextQuery == QueryInv /\ [QueryNext]_queryVars => QueryInv'
  <1> SUFFICES ASSUME QueryInv, [QueryNext]_queryVars PROVE QueryInv'
    OBVIOUS
  <1>1. TypeOK /\ TypeOK' /\ AnswerInv
    BY QueryStep, NextType DEF QueryInv
  <1>2. CASE Follow
    <2>1. /\ answer.status = "asked" /\ Submit(answer.sender, answer.call)
          /\ answer.sender \in Addr /\ answer.call \in Executes /\ Fields
          /\ answer.can_spend = CanSpend(answer.sender, answer.call.msgs)
      BY <1>1, <1>2 DEF Follow, AnswerInv
    <2>2. phase' \in {"check", "dispatch"}
      BY <2>1 DEF Submit, Handle, ExecuteUnchecked, ExecuteAuthorized, ExecuteChecked,
             AddHotWallet, RmHotWallet, ProposeUpdateAdmin, ConfirmUpdateAdmin,
             CancelUpdateAdmin, Return
    <2>3. /\ Fields' /\ answer'.can_spend = answer.can_spend
          /\ answer'.status = IF phase' = "dispatch" THEN "accepted" ELSE "running"
      BY <1>2, <2>1 DEF Follow, Progress, Fields
    <2>4. answer.can_spend = {FALSE} => Doomed' /\ call'.sender \in Addr
      BY <1>1, <2>1, DoomedSubmit
    <2>5. Doomed' => phase' # "dispatch"
      BY DEF Doomed
    <2> QED  BY <1>1, <2>2, <2>3, <2>4, <2>5 DEF QueryInv, AnswerInv, RefusalIsFinal
  <1>3. CASE GoOn
    <2>1. /\ answer.status = "running" /\ Next /\ Fields
          /\ answer.can_spend = {FALSE} => Doomed /\ call.sender \in Addr
          /\ phase \in {"check", "charge"}
      BY <1>1, <1>3 DEF GoOn, AnswerInv
    <2>2. CASE phase' = "idle"
      BY <1>1, <1>3, <2>2 DEF GoOn, NoAnswer, QueryInv, AnswerInv, RefusalIsFinal
    <2>3. CASE phase' # "idle"
      <3>1. /\ Fields' /\ answer'.can_spend = answer.can_spend
            /\ answer'.status = IF phase' = "dispatch" THEN "accepted" ELSE "running"
        BY <1>3, <2>1, <2>3 DEF GoOn, Progress, Fields
      <3>2. answer.can_spend = {FALSE} => Doomed' /\ call'.sender \in Addr
        BY <1>1, <2>1, <2>3, DoomedStep
      <3>3. phase' \in {"check", "charge", "dispatch"}
        BY <1>1, <2>3 DEF TypeOK, Phases
      <3>4. Doomed' => phase' # "dispatch"
        BY DEF Doomed
      <3> QED  BY <1>1, <3>1, <3>2, <3>3, <3>4 DEF QueryInv, AnswerInv, RefusalIsFinal
    <2> QED  BY <2>2, <2>3
  <1>4. CASE Otherwise
    BY <1>1, <1>4 DEF Otherwise, NoAnswer, QueryInv, AnswerInv, RefusalIsFinal
  <1>5. ASSUME phase = "idle", NEW s \in Addr \ {Proxy}, NEW c \in Executes, Ask(s, c)
        PROVE  QueryInv'
    <2>1. /\ UNCHANGED vars
          /\ answer' = [status |-> "asked", sender |-> s, call |-> c,
                        can_spend |-> CanSpend(s, c.msgs), promised |-> Promised(s, c.msgs)]
      BY <1>5 DEF Ask
    <2>2. answer'.status = "asked" /\ Fields' /\ answer'.sender = s /\ answer'.call = c
          /\ answer'.can_spend = CanSpend(s, c.msgs)
      BY <2>1 DEF Fields
    <2>3. CanSpend(s, c.msgs)' = CanSpend(s, c.msgs) /\ phase' = "idle"
      BY <1>5, <2>1, SameAnswer DEF vars
    <2> QED  BY <1>1, <2>2, <2>3 DEF QueryInv, AnswerInv, RefusalIsFinal
  <1>6. CASE UNCHANGED queryVars
    <2>1. UNCHANGED vars /\ answer' = answer
      BY <1>6 DEF queryVars, vars
    <2>2. \A s, msgs : CanSpend(s, msgs)' = CanSpend(s, msgs)
      BY <2>1, SameAnswer DEF vars
    <2>3. Doomed' = Doomed /\ Fields' = Fields /\ RefusalIsFinal' = RefusalIsFinal
      BY <2>1, <2>2 DEF vars, Doomed, Hopeless, FirstWallet, Fields, RefusalIsFinal
    <2> QED  BY <1>1, <2>1, <2>2, <2>3 DEF vars, QueryInv, AnswerInv
  <1> QED  BY <1>2, <1>3, <1>4, <1>5, <1>6 DEF QueryNext

\* What CanSpend refuses is never executed, for every market, wallet, limit,
\* debt and message: the query is not stricter than the call that follows.
THEOREM NoIsNo == QuerySpec => []RefusalIsFinal
  <1>1. QueryInit => QueryInv
    BY InitType DEF QueryInit, QueryInv, AnswerInv, NoAnswer, RefusalIsFinal
  <1>2. QueryInv => RefusalIsFinal
    BY DEF QueryInv, AnswerInv
  <1> QED  BY <1>1, <1>2, NextQuery, PTL DEF QuerySpec

-----------------------------------------------------------------------------
(***************************************************************************)
(* What is promised is kept.  The promise of a call that is running, and   *)
(* was not passed on at once, is about a debt-free wallet and one message. *)
(***************************************************************************)
\* The message is to be let in, and its coin, if it has one, to be charged.
Assured ==
    \/ phase = "check" /\ call.msgs = << >>
    \/ /\ phase = "check" /\ call.msgs # << >>
       /\ Promised(call.sender, call.msgs)
       /\ ~IsAdmin(call.sender) /\ ~Authorized(Head(call.msgs), call.sender)
    \/ /\ phase = "charge" /\ Len(call.msgs) = 1 /\ Len(call.coins) <= 1
       /\ call.coins # << >> => GoesOnWithCoin(Head(call.coins))

PromiseInv ==
    /\ QueryInv
    /\ answer.status = "asked" =>
          answer.promised = Promised(answer.sender, answer.call.msgs)
    /\ answer.status = "running" /\ answer.promised => Assured

\* What is promised of a message that is not passed on at once.
LEMMA PromisedMsg ==
    ASSUME NEW s, NEW msgs \in Seq(Message), Promised(s, msgs),
           ~Unchecked(s), msgs # << >> => ~Authorized(Head(msgs), s)
    PROVE  /\ ~IsAdmin(s) /\ cfg.uusd_fee_debt = 0
           /\ Len(msgs) = 1 /\ Head(msgs) = msgs[1] /\ Head(msgs) \in Message
           /\ Head(msgs).kind = "bank_send" /\ Len(Head(msgs).funds) <= 1
           /\ CheckSpendLimits(s, Head(msgs).funds) = {TRUE}
           /\ \E i \in FirstWallet(s) : Due(cfg.hot_wallets[i]) # {}
  <1>1. /\ ~IsAdmin(s) /\ cfg.uusd_fee_debt = 0
        /\ Head(msgs).kind = "bank_send" /\ Len(Head(msgs).funds) <= 1
        /\ \E i \in FirstWallet(s) : Due(cfg.hot_wallets[i]) # {}
        /\ CanSpend(s, msgs) = {TRUE}
    BY DEF Promised, CanExecute
  <1>2. Len(msgs) = 1
    BY <1>1 DEF CanSpend
  <1>3. msgs # << >> /\ Head(msgs) = msgs[1] /\ Head(msgs) \in Message
    <2>1. msgs # << >> /\ Head(msgs) = msgs[1]
      BY <1>2
    <2> QED  BY <2>1, HeadTailProperties
  <1>4. CheckSpendLimits(s, Head(msgs).funds) = {TRUE}
    BY <1>1, <1>2, <1>3 DEF CanSpend
  <1> QED  BY <1>1, <1>2, <1>3, <1>4

\* A bank message is one that spends.
LEMMA BankSendSpends ==
    ASSUME NEW m, m.kind = "bank_send" PROVE Spends(m) /\ MsgFunds(m) = m.funds
  BY DEF Spends, MsgType, MsgFunds, SpendTypes, BankKinds

\* A wallet that was told yes, and is let in, can pay for the coin.
LEMMA AdmitAssured ==
    ASSUME TypeOK, AdmitWallet, Assured PROVE Assured'
  <1>1. /\ phase = "check" /\ call.msgs # << >> /\ call.msgs \in Seq(Message)
        /\ ~IsAdmin(call.sender) /\ cfg.hot_wallets \in Seq(Wallet) /\ now \in Nat
    BY DEF AdmitWallet, TypeOK, Running, State
  <1>2. Promised(call.sender, call.msgs) /\ ~Authorized(Head(call.msgs), call.sender)
    BY <1>1 DEF Assured
  <1> DEFINE coins == Head(call.msgs).funds
  <1>3. /\ Len(call.msgs) = 1 /\ Head(call.msgs) \in Message
        /\ Head(call.msgs).kind = "bank_send" /\ Len(coins) <= 1
        /\ CheckSpendLimits(call.sender, coins) = {TRUE}
    BY <1>1, <1>2, PromisedMsg DEF Unchecked
  <1>4. coins \in Seq(Coin)
    BY <1>3 DEF Message
  <1>5. /\ call'.coins = coins /\ call'.sender = call.sender /\ call'.msgs = call.msgs
        /\ market' = market /\ phase' = "charge"
    BY <1>3, BankSendSpends DEF AdmitWallet, TypeOK, Running
  <1> HIDE DEF coins
  <1>6. PICK i \in FirstWallet(call.sender) : \E w \in Due(cfg.hot_wallets[i]) :
            cfg' = [cfg EXCEPT !.hot_wallets[i] = w]
    BY DEF AdmitWallet
  <1>7. PICK w \in Due(cfg.hot_wallets[i]) : cfg' = [cfg EXCEPT !.hot_wallets[i] = w]
    BY <1>6
  <1>8. /\ i \in FirstOf(cfg.hot_wallets, call.sender) /\ i \in DOMAIN cfg.hot_wallets
        /\ cfg.hot_wallets[i] \in Wallet
    BY <1>1, FirstOfType DEF FirstWallet
  <1>9. w \in Wallet /\ w.address = cfg.hot_wallets[i].address
    BY <1>1, <1>8, DueType
  <1>10. ASSUME coins # << >> PROVE GoesOnWithCoin(Head(call.coins))'
    <2>1. coins[1] = Head(coins) /\ 1 \in DOMAIN coins
      BY <1>4, <1>10, HeadTailProperties
    <2>2. cfg.hot_wallets[i].spend_limits # << >>
          /\ CheckSpendVec(cfg.hot_wallets[i], coins)
      <3>1. TRUE \in CheckSpendLimits(call.sender, coins)
        BY <1>3
      <3>2. PICK k \in FirstWallet(call.sender) :
                /\ cfg.hot_wallets[k].spend_limits # << >> \/ coins = << >>
                /\ CheckSpendVec(cfg.hot_wallets[k], coins)
        BY <3>1 DEF CheckSpendLimits
      <3>3. k = i
        BY <1>1, <1>8, FirstOfUnique DEF FirstWallet
      <3> QED  BY <1>10, <3>2, <3>3
    <2>3. PICK usd \in ToUsdc(market, Head(coins)) :
              usd.amount % U64 <= LimitToCheck(cfg.hot_wallets[i])
      BY <2>1, <2>2 DEF CheckSpendVec
    <2>4. Remaining(w) = LimitToCheck(cfg.hot_wallets[i])
      BY <1>7, <1>8, <2>2, LimitChecked
    <2>5. w.spend_limits # << >>
      BY <1>7, <1>8, <2>2, LimitChecked
    <2>6. ReduceLimit(w, usd.amount) # {}
      <3>1. w.spend_limits[1].limit_remaining = Remaining(w)
        BY <2>5 DEF Remaining
      <3>2. Remaining(w) \in Nat /\ usd.amount % U64 \in Nat
        <4>1. Remaining(w) \in Nat
          BY <1>9, RemainingType, HotWalletsAssumption DEF LimitAmount
        <4>2. usd.amount \in Nat
          <5>1. Head(coins) \in Coin /\ market \in Markets
            BY <1>4, <1>10, HeadTailProperties DEF TypeOK
          <5>2. usd \in Coin
            BY <5>1, ToUsdcType
          <5> QED  BY <5>2, PricingAssumption DEF Coin, Uint128
        <4> QED  BY <4>1, <4>2, CastType
      <3>3. ~(usd.amount % U64 > w.spend_limits[1].limit_remaining)
        BY <2>3, <2>4, <3>1, <3>2
      <3> QED  BY <2>5, <3>3 DEF ReduceLimit
    <2>7. i \in FirstOf(cfg'.hot_wallets, call.sender) /\ cfg'.hot_wallets[i] = w
      <3>1. cfg'.hot_wallets = [cfg.hot_wallets EXCEPT ![i] = w]
        BY <1>7 DEF TypeOK, State
      <3>2. i \in FirstOf(cfg'.hot_wallets, call.sender)
        BY <1>1, <1>8, <1>9, <3>1, FirstOfReplaced
      <3> QED  BY <1>1, <1>8, <3>1, <3>2
    <2>8. i \in FirstWallet(call.sender)'
      BY <1>5, <2>7 DEF FirstWallet
    <2> QED  BY <1>5, <2>3, <2>6, <2>7, <2>8 DEF GoesOnWithCoin
  <1> QED  BY <1>3, <1>5, <1>10 DEF Assured

\* A call that was promised to pass goes on, and stays promised.
LEMMA AssuredGoesOn ==
    ASSUME TypeOK, Assured PROVE GoesOn
  <1>1. CASE phase = "check" /\ call.msgs # << >>
    <2>1. call.msgs \in Seq(Message) /\ Promised(call.sender, call.msgs)
          /\ ~IsAdmin(call.sender) /\ ~Authorized(Head(call.msgs), call.sender)
      BY <1>1 DEF Assured, TypeOK, Running
    <2>2. /\ Head(call.msgs).kind = "bank_send" /\ cfg.uusd_fee_debt = 0
          /\ \E i \in FirstWallet(call.sender) : Due(cfg.hot_wallets[i]) # {}
      BY <2>1, PromisedMsg DEF Unchecked
    <2>3. Spends(Head(call.msgs))
      BY <2>2, BankSendSpends
    <2> QED  BY <1>1, <2>2, <2>3 DEF GoesOn, GoesOnWithMsg
  <1> QED  BY <1>1 DEF Assured, GoesOn

\* What is assured stays so until the call is over.
LEMMA AssuredStep ==
    ASSUME TypeOK, Next, Assured
    PROVE  phase' \in {"idle", "dispatch"} \/ Assured'
  <1>1. CASE RepayDebt
    <2>1. /\ phase = "check" /\ call.msgs # << >> /\ cfg.uusd_fee_debt > 0
          /\ call.msgs \in Seq(Message)
      BY <1>1 DEF RepayDebt, TypeOK, Running
    <2>2. cfg.uusd_fee_debt = 0
      BY <2>1, PromisedMsg DEF Assured, Unchecked
    <2> QED  BY <2>1, <2>2
  <1>2. CASE PassOwner
    BY <1>2 DEF PassOwner, Assured
  <1>3. CASE AdmitWallet
    BY <1>3, AdmitAssured
  <1>4. CASE ChargeCoin
    <2>1. /\ phase = "charge" /\ phase' = "charge" /\ call.coins # << >>
          /\ call'.msgs = call.msgs /\ call'.coins = Tail(call.coins)
          /\ call.coins \in Seq(Coin)
      BY <1>4 DEF ChargeCoin, TypeOK, Running
    <2>2. Len(call.msgs) = 1 /\ Len(call.coins) <= 1
      BY <2>1 DEF Assured
    <2>3. Tail(call.coins) = << >>
      BY <2>1, <2>2
    <2>4. Len(<< >>) <= 1
      OBVIOUS
    <2> QED  BY <2>1, <2>2, <2>3, <2>4 DEF Assured
  <1>5. CASE PassWallet
    <2>1. phase = "charge" /\ phase' = "check" /\ call'.msgs = Tail(call.msgs)
          /\ call.msgs \in Seq(Message)
      BY <1>5 DEF PassWallet, NextMsg, TypeOK, Running
    <2>2. Len(call.msgs) = 1
      BY <2>1 DEF Assured
    <2>3. Tail(call.msgs) = << >>
      <3>1. PICK msgs \in Seq(Message) : msgs = call.msgs /\ Len(msgs) = 1
        BY <2>1, <2>2
      <3>2. msgs # << >> /\ Len(msgs) = 1
        BY <3>1
      <3>3. Tail(msgs) \in Seq(Message) /\ Len(Tail(msgs)) = 0
        BY <3>2, HeadTailProperties
      <3>4. Tail(msgs) = << >>
        BY <3>3, EmptySeq
      <3> QED  BY <3>1, <3>4
    <2> QED  BY <2>1, <2>3 DEF Assured
  <1>6. CASE EndExecute \/ Abort
    BY <1>6 DEF EndExecute, Return, Abort
  <1> QED
    BY <1>1, <1>2, <1>3, <1>4, <1>5, <1>6
       DEF Next, Assured, SendCoin, FinishMsg, CallSelf, Sent, Dispatching, Commit, Trade, Tick

\* What is promised depends on the state of the contract, the prices and the
\* time.
LEMMA SamePromise ==
    ASSUME cfg' = cfg, market' = market, now' = now
    PROVE  \A s, msgs : Promised(s, msgs)' = Promised(s, msgs)
  <1>1. \A s, msgs : CanSpend(s, msgs)' = CanSpend(s, msgs)
    BY SameAnswer
  <1>2. \A a : /\ FirstWallet(a)' = FirstWallet(a) /\ IsAdmin(a)' = IsAdmin(a)
               /\ IsHotWallet(a)' = IsHotWallet(a)
    BY DEF FirstWallet, IsAdmin, IsHotWallet
  <1>3. \A a : CanExecute(a)' = CanExecute(a) /\ Unchecked(a)' = Unchecked(a)
    BY <1>2 DEF CanExecute, Unchecked
  <1>4. \A m, a : Authorized(m, a)' = Authorized(m, a)
    BY <1>2 DEF Authorized
  <1>5. \A w : Due(w)' = Due(w)
    BY DEF Due
  <1> QED  BY <1>1, <1>2, <1>3, <1>4, <1>5 DEF Promised

\* A promised call that a handler takes stays promised, if it is not passed on
\* at once.
LEMMA AssuredSubmit ==
    ASSUME NEW s, NEW c \in Executes, Submit(s, c), Promised(s, c.msgs)
    PROVE  phase' = "dispatch" \/ Assured'
  <1>0. c \in Calls /\ c.type \in {"execute", "sim_execute"} /\ c.msgs \in Seq(Message)
    BY ObiProxyAssumption DEF Executes, ExecuteTypes, WellFormed
  <1>1. CASE ExecuteChecked(s, c, << >>)
    <2>1. /\ phase' = "check" /\ call'.sender = s /\ call'.msgs = c.msgs
          /\ ~Unchecked(s) /\ c.msgs # << >> /\ ~Authorized(Head(c.msgs), s)
          /\ cfg' = cfg /\ market' = market /\ now' = now
      BY <1>1 DEF ExecuteChecked, Submit, Handle
    <2>2. ~IsAdmin(s)
      BY <1>0, <2>1, PromisedMsg
    <2>3. (Promised(call.sender, call.msgs) /\ ~IsAdmin(call.sender)
             /\ ~Authorized(Head(call.msgs), call.sender))'
      BY <2>1, <2>2, SamePromise DEF IsAdmin, Authorized, IsHotWallet, FirstWallet
    <2> QED  BY <2>1, <2>3 DEF Assured
  <1>2. CASE ExecuteUnchecked(s, c, << >>) \/ ExecuteAuthorized(s, c, << >>)
    BY <1>2 DEF ExecuteUnchecked, ExecuteAuthorized, Return
  <1> QED
    BY <1>0, <1>1, <1>2 DEF Submit, Handle, AddHotWallet, RmHotWallet, ProposeUpdateAdmin,
           ConfirmUpdateAdmin, CancelUpdateAdmin

\* No step breaks a promise.
LEMMA NextPromise == PromiseInv /\ [QueryNext]_queryVars => PromiseInv'
  <1> SUFFICES ASSUME PromiseInv, [QueryNext]_queryVars PROVE PromiseInv'
    OBVIOUS
  <1>1. QueryInv /\ QueryInv' /\ TypeOK /\ AnswerInv
    BY NextQuery DEF PromiseInv, QueryInv
  <1>2. CASE Follow
    <2>1. /\ answer.status = "asked" /\ Submit(answer.sender, answer.call) /\ Fields
          /\ answer.call \in Executes
          /\ answer.promised = Promised(answer.sender, answer.call.msgs)
      BY <1>1, <1>2 DEF Follow, AnswerInv, PromiseInv
    <2>2. /\ answer'.promised = answer.promised
          /\ answer'.status = IF phase' = "dispatch" THEN "accepted" ELSE "running"
      BY <1>2, <2>1 DEF Follow, Progress, Fields
    <2>3. answer.promised => phase' = "dispatch" \/ Assured'
      BY <2>1, AssuredSubmit
    <2> QED  BY <1>1, <2>2, <2>3 DEF PromiseInv
  <1>3. CASE GoOn
    <2>1. answer.status = "running" /\ Next /\ Fields
      BY <1>1, <1>3 DEF GoOn, AnswerInv
    <2>2. CASE phase' = "idle"
      BY <1>1, <1>3, <2>2 DEF GoOn, NoAnswer, PromiseInv
    <2>3. CASE phase' # "idle"
      <3>1. /\ answer'.promised = answer.promised
            /\ answer'.status = IF phase' = "dispatch" THEN "accepted" ELSE "running"
        BY <1>3, <2>1, <2>3 DEF GoOn, Progress, Fields
      <3>2. answer.promised => phase' = "dispatch" \/ Assured'
        BY <1>1, <2>1, <2>3, AssuredStep DEF PromiseInv
      <3> QED  BY <1>1, <3>1, <3>2 DEF PromiseInv
    <2> QED  BY <2>2, <2>3
  <1>4. CASE Otherwise
    BY <1>1, <1>4 DEF Otherwise, NoAnswer, PromiseInv
  <1>5. ASSUME NEW s, NEW c, Ask(s, c) PROVE PromiseInv'
    <2>1. /\ UNCHANGED vars /\ answer'.status = "asked"
          /\ answer'.sender = s /\ answer'.call = c
          /\ answer'.promised = Promised(s, c.msgs)
      BY <1>5 DEF Ask
    <2>2. Promised(s, c.msgs)' = Promised(s, c.msgs)
      BY <2>1, SamePromise DEF vars
    <2> QED  BY <1>1, <2>1, <2>2 DEF PromiseInv
  <1>6. CASE UNCHANGED queryVars
    <2>1. UNCHANGED <<cfg, market, now, phase, call, answer>>
      BY <1>6 DEF queryVars
    <2>2. \A s, msgs : Promised(s, msgs)' = Promised(s, msgs)
      BY <2>1, SamePromise
    <2>3. Assured' = Assured
      BY <2>1, <2>2
         DEF Assured, IsAdmin, Authorized, IsHotWallet, FirstWallet, GoesOnWithCoin
    <2> QED  BY <1>1, <2>1, <2>2, <2>3 DEF PromiseInv
  <1> QED  BY <1>2, <1>3, <1>4, <1>5, <1>6 DEF QueryNext

\* Whatever the wallets, limits, prices and calls: where the client may rely on
\* a yes, execute_execute takes the call and finds no reason to refuse it up to
\* its end.  (query_can_spend and can_execute against execute_execute.)
THEOREM YesIsYes == QuerySpec => []PromiseKept
  <1>1. QueryInit => PromiseInv
    BY InitType
       DEF QueryInit, PromiseInv, QueryInv, AnswerInv, NoAnswer, RefusalIsFinal
  <1>2. PromiseInv => PromiseKept
    <2> SUFFICES ASSUME PromiseInv, answer.status \in {"asked", "running"}, answer.promised
                 PROVE  IF answer.status = "asked"
                        THEN Takes(answer.sender, answer.call) ELSE GoesOn
      BY DEF PromiseKept
    <2>1. CASE answer.status = "asked"
      <3>1. /\ answer.call \in Executes /\ phase = "idle"
            /\ Promised(answer.sender, answer.call.msgs)
        BY <2>1 DEF PromiseInv, QueryInv, AnswerInv
      <3>2. answer.call.msgs \in Seq(Message)
        BY <3>1, ObiProxyAssumption DEF Executes, ExecuteTypes, WellFormed
      <3>3. Unchecked(answer.sender) \/ answer.call.msgs # << >>
        <4>1. Unchecked(answer.sender) \/ answer.call.msgs # << >> \/ Len(answer.call.msgs) = 1
          BY <3>1, <3>2, PromisedMsg
        <4>2. Len(<< >>) # 1
          OBVIOUS
        <4> QED  BY <4>1, <4>2
      <3> QED  BY <2>1, <3>1, <3>3 DEF Takes
    <2>2. CASE answer.status = "running"
      BY <2>2, AssuredGoesOn DEF PromiseInv, QueryInv
    <2> QED  BY <2>1, <2>2
  <1> QED  BY <1>1, <1>2, NextPromise, PTL DEF QuerySpec
=============================================================================
