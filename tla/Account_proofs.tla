--------------------------- MODULE Account_proofs ---------------------------
(***************************************************************************)
(* ObiProxy implements Account: every step of the proxy is one step of the *)
(* account or none.                                                        *)
(***************************************************************************)
EXTENDS ObiProxy_proofs, WellFoundedInduction

-----------------------------------------------------------------------------
(***************************************************************************)
(* What the wallets allow, and what becomes of it when they change.        *)
(***************************************************************************)
\* A set of numbers has a smallest one.
LEMMA SmallestOf ==
    ASSUME NEW S \in SUBSET Nat, S # {}
    PROVE  \E n \in S : \A m \in S : n <= m
  <1>1. PICK n \in S : \A m \in S : ~(<<m, n>> \in OpToRel(<, Nat))
    BY NatLessThanWellFounded, WFMin
  <1>2. \A m \in S : ~(m < n)
    BY <1>1 DEF OpToRel
  <1> QED  BY <1>2

\* What a wallet allows.
Terms(w) == [limit |-> Limit(w), left |-> Remaining(w)]

\* The first wallet of an address says what it is allowed.
LEMMA AllowanceAt ==
    ASSUME NEW wallets \in Seq(Wallet), NEW a \in Names, NEW i \in FirstOf(wallets, a)
    PROVE  /\ a \in DOMAIN AllowanceOf(wallets)
           /\ AllowanceOf(wallets)[a] = Terms(wallets[i])
  <1>1. (CHOOSE k \in FirstOf(wallets, a) : TRUE) = i
    BY ChosenType, FirstOfUnique
  <1> QED  BY <1>1 DEF AllowanceOf, Terms

\* Who is allowed anything has a first wallet.
LEMMA AllowanceDomain ==
    ASSUME NEW wallets
    PROVE  DOMAIN AllowanceOf(wallets) = {a \in Names : FirstOf(wallets, a) # {}}
  BY DEF AllowanceOf

\* The allowances of two lists of wallets are the same except for one address.
OthersSame(a, old, new) ==
    /\ \A x \in DOMAIN old \ {a} : x \in DOMAIN new /\ new[x] = old[x]
    /\ DOMAIN new \subseteq DOMAIN old \cup {a}

\* A wallet is replaced in its place.
LEMMA AllowanceReplaced ==
    ASSUME NEW wallets \in Seq(Wallet), NEW a \in Names, NEW i \in FirstOf(wallets, a),
           NEW w \in Wallet, w.address = a,
           NEW rest, rest = [wallets EXCEPT ![i] = w]
    PROVE  /\ OthersSame(a, AllowanceOf(wallets), AllowanceOf(rest))
           /\ a \in DOMAIN AllowanceOf(rest) /\ AllowanceOf(rest)[a] = Terms(w)
           /\ a \in DOMAIN AllowanceOf(wallets)
           /\ AllowanceOf(wallets)[a] = Terms(wallets[i])
           /\ Terms(w) = Terms(wallets[i]) => AllowanceOf(rest) = AllowanceOf(wallets)
  <1>1. i \in DOMAIN wallets /\ wallets[i].address = a /\ rest \in Seq(Wallet)
    BY FirstOfType
  <1>2. ASSUME NEW x PROVE FirstOf(rest, x) = FirstOf(wallets, x)
    <2>0. i \in DOMAIN wallets /\ w.address = wallets[i].address
      BY <1>1
    <2>1. FirstOf([wallets EXCEPT ![i] = w], x) = FirstOf(wallets, x)
      BY <2>0, FirstOfReplaced, Zenon
    <2> QED  BY <2>1
  <1>3. DOMAIN AllowanceOf(rest) = DOMAIN AllowanceOf(wallets)
    BY <1>2, AllowanceDomain
  <1>4. a \in DOMAIN AllowanceOf(rest) /\ AllowanceOf(rest)[a] = Terms(w)
    BY <1>1, <1>2, AllowanceAt
  <1>5. a \in DOMAIN AllowanceOf(wallets) /\ AllowanceOf(wallets)[a] = Terms(wallets[i])
    BY AllowanceAt
  <1>6. ASSUME NEW x \in DOMAIN AllowanceOf(wallets), x # a
        PROVE  AllowanceOf(rest)[x] = AllowanceOf(wallets)[x]
    <2>1. PICK k \in FirstOf(wallets, x) : x \in Names
      BY <1>6, AllowanceDomain
    <2>2. k \in DOMAIN wallets /\ wallets[k].address = x
      BY FirstOfType
    <2>3. rest[k] = wallets[k] /\ k \in FirstOf(rest, x)
      BY <1>1, <1>2, <1>6, <2>2
    <2>4. AllowanceOf(rest)[x] = Terms(rest[k])
      BY <1>1, <2>1, <2>3, AllowanceAt
    <2>5. AllowanceOf(wallets)[x] = Terms(wallets[k])
      BY <2>1, AllowanceAt
    <2> QED  BY <2>3, <2>4, <2>5
  <1>7. ASSUME Terms(w) = Terms(wallets[i])
        PROVE  AllowanceOf(rest) = AllowanceOf(wallets)
    <2>1. \A x \in DOMAIN AllowanceOf(wallets) : AllowanceOf(rest)[x] = AllowanceOf(wallets)[x]
      BY <1>4, <1>5, <1>6, <1>7
    <2>2. /\ AllowanceOf(wallets) =
                 [x \in DOMAIN AllowanceOf(wallets) |-> AllowanceOf(wallets)[x]]
          /\ AllowanceOf(rest) = [x \in DOMAIN AllowanceOf(rest) |-> AllowanceOf(rest)[x]]
      BY DEF AllowanceOf
    <2> QED  BY <1>3, <2>1, <2>2
  <1> QED  BY <1>3, <1>4, <1>5, <1>6, <1>7 DEF OthersSame

\* A wallet is added for an address without one.
LEMMA AllowanceAppended ==
    ASSUME NEW wallets \in Seq(Wallet), NEW w \in Wallet, w.address \in Names,
           FirstOf(wallets, w.address) = {},
           NEW rest, rest = Append(wallets, w)
    PROVE  /\ OthersSame(w.address, AllowanceOf(wallets), AllowanceOf(rest))
           /\ w.address \notin DOMAIN AllowanceOf(wallets)
           /\ w.address \in DOMAIN AllowanceOf(rest)
  <1> DEFINE N == Len(wallets)
  <1>1. /\ DOMAIN rest = 1 .. N + 1 /\ rest[N + 1] = w /\ N \in Nat
        /\ DOMAIN wallets = 1 .. N /\ rest \in Seq(Wallet)
        /\ \A k \in 1 .. N : rest[k] = wallets[k]
    BY AppendProperties
  <1>2. Appended(wallets, w, rest)
    BY DEF Appended
  <1> HIDE DEF N
  <1>3. N + 1 \in FirstOf(rest, w.address)
    <2>1. ASSUME NEW k \in 1 .. N, wallets[k].address = w.address PROVE FALSE
      <3> DEFINE S == {n \in 1 .. N : wallets[n].address = w.address}
      <3>1. S \in SUBSET Nat /\ k \in S
        BY <1>1, <2>1
      <3>2. PICK n \in S : \A m \in S : n <= m
        <4>1. \A m \in 1 .. N : m \in Nat
          BY <1>1
        <4> QED  BY <3>1, <4>1, SmallestOf
      <3>3. n \in FirstOf(wallets, w.address)
        BY <1>1, <3>2 DEF FirstOf
      <3> QED  BY <3>3
    <2> QED  BY <1>1, <2>1 DEF FirstOf
  <1>4. w.address \in DOMAIN AllowanceOf(rest) /\ w.address \notin DOMAIN AllowanceOf(wallets)
    BY <1>3, AllowanceDomain
  <1>5. ASSUME NEW x \in DOMAIN AllowanceOf(wallets)
        PROVE  x \in DOMAIN AllowanceOf(rest) /\ AllowanceOf(rest)[x] = AllowanceOf(wallets)[x]
    <2>1. PICK i \in FirstOf(wallets, x) : x \in Names
      BY <1>5, AllowanceDomain
    <2>2. i \in 1 .. N /\ rest[i] = wallets[i] /\ 1 .. i - 1 \subseteq 1 .. N
      BY <1>1, FirstOfType
    <2>3. i \in FirstOf(rest, x)
      BY <1>1, <2>2 DEF FirstOf
    <2>4. x \in DOMAIN AllowanceOf(rest) /\ AllowanceOf(rest)[x] = Terms(rest[i])
      BY <1>1, <2>1, <2>3, AllowanceAt
    <2>5. AllowanceOf(wallets)[x] = Terms(wallets[i])
      BY <2>1, AllowanceAt
    <2> QED  BY <2>2, <2>4, <2>5
  <1>6. ASSUME NEW x \in DOMAIN AllowanceOf(rest), x # w.address
        PROVE  x \in DOMAIN AllowanceOf(wallets)
    <2>0. x \in Names /\ FirstOf(rest, x) # {}
      BY <1>6, AllowanceDomain
    <2>1. PICK j \in FirstOf(rest, x) : x \in Names
      BY <2>0
    <2>2. j \in FirstOf(wallets, x)
      BY <1>2, <1>6, FirstOfAppended
    <2> QED  BY <2>1, <2>2, AllowanceDomain
  <1> QED  BY <1>4, <1>5, <1>6 DEF OthersSame

\* The wallets of one address are taken out.
LEMMA AllowanceRetained ==
    ASSUME NEW wallets \in Seq(Wallet), NEW doomed \in Names,
           FirstOf(wallets, doomed) # {}, NEW rest \in Retain(wallets, doomed)
    PROVE  /\ OthersSame(doomed, AllowanceOf(wallets), AllowanceOf(rest))
           /\ doomed \in DOMAIN AllowanceOf(wallets)
           /\ doomed \notin DOMAIN AllowanceOf(rest)
  <1>0. rest \in Seq(Wallet)
    BY RetainType
  <1>1. doomed \in DOMAIN AllowanceOf(wallets)
    BY AllowanceDomain
  <1>2. ASSUME NEW x \in DOMAIN AllowanceOf(rest)
        PROVE  x # doomed /\ x \in DOMAIN AllowanceOf(wallets)
    <2>1. x \in Names /\ FirstOf(rest, x) # {}
      BY <1>2, AllowanceDomain
    <2>2. PICK j \in FirstOf(rest, x) : TRUE
      BY <2>1
    <2>3. x # doomed /\ FirstOf(wallets, x) # {}
      BY <2>2, FirstOfRetained
    <2> QED  BY <2>1, <2>3, AllowanceDomain
  <1>3. ASSUME NEW x \in DOMAIN AllowanceOf(wallets), x # doomed
        PROVE  x \in DOMAIN AllowanceOf(rest) /\ AllowanceOf(rest)[x] = AllowanceOf(wallets)[x]
    <2>1. x \in Names /\ FirstOf(wallets, x) # {}
      BY <1>3, AllowanceDomain
    <2>2. PICK i \in FirstOf(wallets, x) : TRUE
      BY <2>1
    <2>3. /\ i \in DOMAIN wallets /\ wallets[i].address = x
          /\ \A k \in 1 .. i - 1 : wallets[k].address # x
      BY <2>2 DEF FirstOf
    <2> DEFINE kept == {n \in DOMAIN wallets : wallets[n].address # doomed}
               N == Cardinality(kept)
    <2>4. PICK f \in [1 .. N -> kept] :
              /\ rest = [n \in 1 .. N |-> wallets[f[n]]]
              /\ \A m, n \in DOMAIN f : m < n => f[m] < f[n]
              /\ \A n \in kept : \E m \in DOMAIN f : f[m] = n
      BY DEF Retain
    <2>5. i \in kept /\ kept \subseteq 1 .. Len(wallets)
      BY <1>3, <2>3
    <2>6. N \in Nat
      <3>1. kept \subseteq 1 .. Len(wallets) /\ IsFiniteSet(1 .. Len(wallets))
        BY <2>5, FS_Interval
      <3> QED  BY <3>1, FS_Subset, FS_CardinalityType
    <2>7. PICK j \in 1 .. N : f[j] = i
      BY <2>4, <2>5
    <2> HIDE DEF N
    <2>8. ASSUME NEW k \in 1 .. j - 1 PROVE rest[k].address # x
      <3>1. k \in 1 .. N /\ k < j
        BY <2>6, <2>7
      <3>2. f[k] \in 1 .. Len(wallets) /\ f[k] < i
        BY <2>4, <2>5, <2>7, <3>1
      <3>3. f[k] \in 1 .. i - 1
        BY <2>3, <3>2
      <3> QED  BY <2>3, <2>4, <3>1, <3>3
    <2>9. rest[j] = wallets[i] /\ j \in FirstOf(rest, x)
      <3>1. rest[j] = wallets[i] /\ j \in DOMAIN rest
        BY <2>4, <2>7
      <3> QED  BY <2>3, <2>8, <3>1 DEF FirstOf
    <2>10. x \in DOMAIN AllowanceOf(rest) /\ AllowanceOf(rest)[x] = Terms(rest[j])
      BY <1>0, <2>1, <2>9, AllowanceAt
    <2>11. AllowanceOf(wallets)[x] = Terms(wallets[i])
      BY <2>1, <2>2, AllowanceAt
    <2> QED  BY <2>9, <2>10, <2>11
  <1> QED  BY <1>1, <1>2, <1>3 DEF OthersSame

-----------------------------------------------------------------------------
(***************************************************************************)
(* The steps.                                                              *)
(***************************************************************************)
\* An account's step, or none.
AccountStep == [Account!Next]_(Account!vars)

\* Nothing of the account changes but an allowance.
OthersUnchanged(a) ==
    /\ cfg'.admin = cfg.admin /\ cfg'.pending = cfg.pending
    /\ cfg'.uusd_fee_debt = cfg.uusd_fee_debt /\ saved' = saved
    /\ OthersSame(a, AllowanceOf(cfg.hot_wallets), AllowanceOf(cfg'.hot_wallets))

\* Where no other wallet changes, the step is about one allowance.
LEMMA AllowanceOnly ==
    ASSUME NEW a, OthersUnchanged(a) PROVE Account!OnlyOf(a)
  BY DEF OthersUnchanged, OthersSame, Account!OnlyOf, Account!Holders

\* A step that leaves the account as it is.
LEMMA NoStep ==
    ASSUME cfg' = cfg, saved' = saved PROVE AccountStep
  BY DEF AccountStep, Account!vars, Account!book

\* Each handler is a step of the account: the owner admits and dismisses
\* holders and nominates, the candidate takes over.
LEMMA HandleAccount ==
    ASSUME cfg \in State, NEW s, NEW c \in Calls, NEW rest, Handle(s, c, rest)
    PROVE  AccountStep
  <1>0. /\ WellFormed(c) /\ saved' = saved /\ cfg.hot_wallets \in Seq(Wallet)
        /\ cfg.admin \in Names
    BY ObiProxyAssumption DEF Handle, State
  <1>1. CASE ExecuteUnchecked(s, c, rest) \/ ExecuteAuthorized(s, c, rest)
             \/ ExecuteChecked(s, c, rest)
    BY <1>0, <1>1, NoStep DEF ExecuteUnchecked, ExecuteAuthorized, ExecuteChecked
  <1>2. CASE AddHotWallet(s, c, rest)
    <2>0. PICK w : w = c.new_hot_wallet
      OBVIOUS
    <2>1. w \in Wallet /\ w.address \in Names
      BY <1>0, <1>2, <2>0, ObiProxyAssumption DEF WellFormed, AddHotWallet, ExecuteTypes
    <2>2. /\ FirstOf(cfg.hot_wallets, w.address) = {}
          /\ cfg'.hot_wallets = Append(cfg.hot_wallets, w)
          /\ cfg'.admin = cfg.admin /\ cfg'.pending = cfg.pending
          /\ cfg'.uusd_fee_debt = cfg.uusd_fee_debt
      BY <1>2, <2>0 DEF AddHotWallet, IsHotWallet, FirstWallet, State
    <2>3. /\ OthersSame(w.address, AllowanceOf(cfg.hot_wallets), AllowanceOf(cfg'.hot_wallets))
          /\ w.address \notin DOMAIN AllowanceOf(cfg.hot_wallets)
          /\ w.address \in DOMAIN AllowanceOf(cfg'.hot_wallets)
      BY <1>0, <2>1, <2>2, AllowanceAppended
    <2>4. Account!OnlyOf(w.address)
      BY <1>0, <2>2, <2>3, AllowanceOnly DEF OthersUnchanged
    <2>5. Account!Admit(w.address)
      BY <2>3, <2>4 DEF Account!Admit, Account!Holders
    <2> QED  BY <2>1, <2>5 DEF AccountStep, Account!Next
  <1>3. CASE RmHotWallet(s, c, rest)
    <2>0. PICK a : a = c.doomed_hot_wallet
      OBVIOUS
    <2>1. /\ a \in Names /\ FirstOf(cfg.hot_wallets, a) # {}
          /\ cfg'.hot_wallets \in Retain(cfg.hot_wallets, a)
          /\ cfg'.admin = cfg.admin /\ cfg'.pending = cfg.pending
          /\ cfg'.uusd_fee_debt = cfg.uusd_fee_debt
      BY <1>0, <1>3, <2>0
         DEF WellFormed, ExecuteTypes, RmHotWallet, IsHotWallet, FirstWallet, State
    <2>2. /\ OthersSame(a, AllowanceOf(cfg.hot_wallets), AllowanceOf(cfg'.hot_wallets))
          /\ a \in DOMAIN AllowanceOf(cfg.hot_wallets)
          /\ a \notin DOMAIN AllowanceOf(cfg'.hot_wallets)
      BY <1>0, <2>1, AllowanceRetained
    <2>3. Account!OnlyOf(a)
      BY <1>0, <2>1, <2>2, AllowanceOnly DEF OthersUnchanged
    <2>4. Account!Dismiss(a)
      BY <2>2, <2>3 DEF Account!Dismiss, Account!Holders
    <2> QED  BY <2>1, <2>4 DEF AccountStep, Account!Next
  <1>4. CASE ProposeUpdateAdmin(s, c, rest)
    <2>1. cfg' = [cfg EXCEPT !.pending = c.new_admin] /\ c.new_admin \in Names
      BY <1>4, ObiProxyAssumption DEF ProposeUpdateAdmin
    <2>2. Account!Nominate
      BY <1>0, <2>1 DEF State, Account!Nominate
    <2> QED  BY <2>2 DEF AccountStep, Account!Next
  <1>5. CASE ConfirmUpdateAdmin(s, c, rest)
    <2>1. cfg' = [cfg EXCEPT !.admin = cfg.pending]
      BY <1>5 DEF ConfirmUpdateAdmin
    <2>2. Account!TakeOver
      BY <1>0, <2>1 DEF State, Account!TakeOver
    <2> QED  BY <2>2 DEF AccountStep, Account!Next
  <1>6. CASE CancelUpdateAdmin(s, c, rest)
    <2>1. cfg' = [cfg EXCEPT !.pending = cfg.admin]
      BY <1>6 DEF CancelUpdateAdmin
    <2>2. Account!Nominate
      BY <1>0, <2>1 DEF State, Account!Nominate
    <2> QED  BY <2>2 DEF AccountStep, Account!Next
  <1> QED  BY <1>1, <1>2, <1>3, <1>4, <1>5, <1>6 DEF Handle

\* A reset gives the whole limit back and keeps it as it is.
LEMMA ResetTerms ==
    ASSUME NEW w \in Wallet, NEW t, NEW v \in ResetPeriod(w, t)
    PROVE  Terms(v) = [Terms(w) EXCEPT !.left = Terms(w).limit]
  BY ResetLimit DEF Terms

\* A charge keeps the limit and takes what it costs, cast, from what is left.
LEMMA ReducedTerms ==
    ASSUME NEW w \in Wallet, NEW usd \in Nat, NEW v \in ReduceLimit(w, usd)
    PROVE  /\ Terms(v).limit = Terms(w).limit
           /\ usd % U64 # 0 => Terms(v).left \in 0 .. Terms(w).left - 1
           /\ usd % U64 = 0 => Terms(v) = Terms(w)
  <1>1. Terms(v).limit = Terms(w).limit
    BY ReduceLimitType DEF Terms
  <1>2. /\ Terms(v).left = Terms(w).left - (usd % U64)
        /\ Terms(v).left \in Nat /\ Terms(w).left \in Nat
    BY ReduceLimitType, RemainingType, HotWalletsAssumption DEF Terms, LimitAmount
  <1>3. usd % U64 \in Nat
    BY CastType
  <1>4. usd % U64 = 0 => Terms(v).left = Terms(w).left
    BY <1>2
  <1>5. ASSUME usd % U64 = 0 PROVE Terms(v) = Terms(w)
    <2>1. Terms(v) = [limit |-> Terms(v).limit, left |-> Terms(v).left]
      BY DEF Terms
    <2>2. Terms(w) = [limit |-> Terms(w).limit, left |-> Terms(w).left]
      BY DEF Terms
    <2> QED  BY <1>1, <1>4, <1>5, <2>1, <2>2
  <1> QED  BY <1>1, <1>2, <1>3, <1>5

\* A wallet that is let in keeps its allowance or has it renewed.
LEMMA AdmitAccount ==
    ASSUME TypeOK, AdmitWallet PROVE AccountStep
  <1>1. PICK i \in FirstWallet(call.sender) : \E w \in Due(cfg.hot_wallets[i]) :
            cfg' = [cfg EXCEPT !.hot_wallets[i] = w]
    BY DEF AdmitWallet
  <1>2. PICK w \in Due(cfg.hot_wallets[i]) : cfg' = [cfg EXCEPT !.hot_wallets[i] = w]
    BY <1>1
  <1>3. /\ cfg.hot_wallets \in Seq(Wallet) /\ call.sender \in Names
        /\ i \in FirstOf(cfg.hot_wallets, call.sender) /\ now \in Nat
    BY DEF TypeOK, State, Running, FirstWallet
  <1>4. cfg.hot_wallets[i] \in Wallet /\ cfg.hot_wallets[i].address = call.sender
    BY <1>3, FirstOfType
  <1>5. w \in Wallet /\ w.address = call.sender
    BY <1>3, <1>4, DueType
  <1>6. /\ cfg'.hot_wallets = [cfg.hot_wallets EXCEPT ![i] = w]
        /\ cfg'.admin = cfg.admin /\ cfg'.pending = cfg.pending
        /\ cfg'.uusd_fee_debt = cfg.uusd_fee_debt /\ saved' = saved
    BY <1>2 DEF AdmitWallet, TypeOK, State
  <1> DEFINE old == AllowanceOf(cfg.hot_wallets)
             new == AllowanceOf(cfg'.hot_wallets)
  <1>7. /\ OthersSame(call.sender, old, new)
        /\ call.sender \in DOMAIN new /\ new[call.sender] = Terms(w)
        /\ call.sender \in DOMAIN old /\ old[call.sender] = Terms(cfg.hot_wallets[i])
        /\ Terms(w) = Terms(cfg.hot_wallets[i]) => new = old
    BY <1>3, <1>5, <1>6, AllowanceReplaced
  <1>8. Account!OnlyOf(call.sender)
    BY <1>6, <1>7, AllowanceOnly DEF OthersUnchanged
  <1>9. CASE w = cfg.hot_wallets[i]
    BY <1>6, <1>7, <1>9 DEF AccountStep, Account!vars, Account!book
  <1>10. CASE w \in ResetPeriod(cfg.hot_wallets[i], now)
    <2>1. new[call.sender] = [old[call.sender] EXCEPT !.left = old[call.sender].limit]
      BY <1>4, <1>7, <1>10, ResetTerms
    <2>2. Account!Renew(call.sender)
      BY <1>7, <1>8, <2>1 DEF Account!Renew, Account!Holders
    <2> QED  BY <1>3, <2>2 DEF AccountStep, Account!Next
  <1> QED  BY <1>2, <1>9, <1>10 DEF Due

\* A wallet that is charged uses its allowance, unless the charge is cast to 0.
LEMMA ChargeAccount ==
    ASSUME TypeOK, ChargeCoin PROVE AccountStep
  <1>1. PICK i \in FirstWallet(call.sender), usd \in ToUsdc(market, Head(call.coins)) :
            \E w \in ReduceLimit(cfg.hot_wallets[i], usd.amount) :
               cfg' = [cfg EXCEPT !.hot_wallets[i] = w]
    BY DEF ChargeCoin
  <1>2. PICK w \in ReduceLimit(cfg.hot_wallets[i], usd.amount) :
            cfg' = [cfg EXCEPT !.hot_wallets[i] = w]
    BY <1>1
  <1>3. /\ cfg.hot_wallets \in Seq(Wallet) /\ call.sender \in Names
        /\ i \in FirstOf(cfg.hot_wallets, call.sender) /\ market \in Markets
    BY DEF TypeOK, State, Running, FirstWallet
  <1>4. cfg.hot_wallets[i] \in Wallet /\ cfg.hot_wallets[i].address = call.sender
    BY <1>3, FirstOfType
  <1>5. usd.amount \in Nat
    <2>1. Head(call.coins) \in Coin
      BY HeadTailProperties DEF ChargeCoin, TypeOK, Running
    <2> QED  BY <1>3, <2>1, ToUsdcType, PricingAssumption DEF Coin, Uint128
  <1>6. w \in Wallet /\ w.address = call.sender
    BY <1>4, <1>5, ReduceLimitType
  <1>7. /\ cfg'.hot_wallets = [cfg.hot_wallets EXCEPT ![i] = w]
        /\ cfg'.admin = cfg.admin /\ cfg'.pending = cfg.pending
        /\ cfg'.uusd_fee_debt = cfg.uusd_fee_debt /\ saved' = saved
    BY <1>2 DEF ChargeCoin, TypeOK, State
  <1> DEFINE old == AllowanceOf(cfg.hot_wallets)
             new == AllowanceOf(cfg'.hot_wallets)
  <1>8. /\ OthersSame(call.sender, old, new)
        /\ call.sender \in DOMAIN new /\ new[call.sender] = Terms(w)
        /\ call.sender \in DOMAIN old /\ old[call.sender] = Terms(cfg.hot_wallets[i])
        /\ Terms(w) = Terms(cfg.hot_wallets[i]) => new = old
    BY <1>3, <1>6, <1>7, AllowanceReplaced
  <1>9. Account!OnlyOf(call.sender)
    BY <1>7, <1>8, AllowanceOnly DEF OthersUnchanged
  <1>10. /\ Terms(w).limit = Terms(cfg.hot_wallets[i]).limit
         /\ usd.amount % U64 # 0 => Terms(w).left \in 0 .. Terms(cfg.hot_wallets[i]).left - 1
         /\ usd.amount % U64 = 0 => Terms(w) = Terms(cfg.hot_wallets[i])
    BY <1>4, <1>5, ReducedTerms
  <1>11. CASE usd.amount % U64 = 0
    BY <1>7, <1>8, <1>10, <1>11 DEF AccountStep, Account!vars, Account!book
  <1>12. CASE usd.amount % U64 # 0
    <2>1. Account!Use(call.sender)
      BY <1>8, <1>9, <1>10, <1>12 DEF Account!Use, Account!Holders
    <2> QED  BY <1>3, <2>1 DEF AccountStep, Account!Next
  <1> QED  BY <1>11, <1>12

\* Every step is a step of the account or none, one case per action.
LEMMA NextAccount == TypeOK /\ [Next]_vars => AccountStep
  <1> SUFFICES ASSUME TypeOK, [Next]_vars PROVE AccountStep
    OBVIOUS
  <1>1. cfg \in State
    BY DEF TypeOK
  <1>2. ASSUME NEW s, NEW c \in Calls, NEW rest, Handle(s, c, rest) PROVE AccountStep
    BY <1>1, <1>2, HandleAccount
  <1>3. CASE RepayDebt
    <2>1. /\ cfg' = [cfg EXCEPT !.uusd_fee_debt = 0] /\ saved' = saved
          /\ cfg.uusd_fee_debt > 0
      BY <1>3 DEF RepayDebt
    <2>2. Account!Settle
      BY <1>1, <2>1 DEF State, Account!Settle
    <2> QED  BY <2>2 DEF AccountStep, Account!Next
  <1>4. CASE PassOwner \/ PassWallet \/ EndExecute \/ SendCoin \/ FinishMsg
             \/ Trade \/ Tick \/ UNCHANGED vars
    BY <1>4, NoStep
       DEF PassOwner, PassWallet, EndExecute, SendCoin, FinishMsg, Trade, Tick, vars
  <1>5. CASE Commit
    <2>1. cfg' = cfg /\ saved'.cfg = cfg
      BY <1>5 DEF Commit
    <2>2. Account!Keep
      BY <2>1 DEF Account!Keep, Account!book
    <2> QED  BY <2>2 DEF AccountStep, Account!Next
  <1>6. CASE Abort
    <2>1. cfg' = saved.cfg /\ saved' = saved
      BY <1>6 DEF Abort
    <2>2. Account!Undo
      BY <2>1 DEF Account!Undo, Account!book
    <2> QED  BY <2>2 DEF AccountStep, Account!Next
  <1>7. CASE CallSelf
    <2>1. NextOut.inner \in Calls
      BY <1>7, NextOutType DEF CallSelf, Sent, Message
    <2> QED  BY <1>2, <1>7, <2>1 DEF CallSelf
  <1> QED
    BY <1>2, <1>3, <1>4, <1>5, <1>6, <1>7, AdmitAccount, ChargeAccount
       DEF Next, Submit, CallBack

\* The proxy is an account: whatever its callers, its messages and the
\* exchanges do, each of its steps hands over, admits, dismisses, renews or
\* uses one allowance or settles the debt, or changes none of this, and a
\* transaction that fails leaves the account as it was.
THEOREM AccountImplemented == Spec => ImplementsAccount
  <1>1. Init => Account!Init
    BY DEF Init, Account!Init, Account!book
  <1>2. TypeOK /\ [Next]_vars => [Account!Next]_(Account!vars)
    BY NextAccount DEF AccountStep
  <1> QED  BY <1>1, <1>2, TypeCorrect, PTL DEF Spec, ImplementsAccount, Account!Spec
=============================================================================
