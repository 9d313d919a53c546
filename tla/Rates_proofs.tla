---------------------------- MODULE Rates_proofs ----------------------------
(***************************************************************************)
(* How often a limit of ObiProxy is given back, and what that comes to.    *)
(***************************************************************************)
EXTENDS ObiProxy_proofs, HotWallets_proofs

-----------------------------------------------------------------------------
(***************************************************************************)
(* One wallet.  A reset puts the next one at least a period after it, so   *)
(* that the next reset pays for all that were until now.                   *)
(***************************************************************************)
DaysBetween(w) == w.period_multiple * SecondsPerDay + 1

Spaced(w, l, t) ==
    /\ l.since <= t
    /\ l.resets > 0 /\ w.period_multiple > 0 =>
          IF w.period_type = "DAYS"
          THEN /\ l.since + l.resets * DaysBetween(w) <= w.current_period_reset + 1
               /\ w.current_period_reset < t + DaysBetween(w)
          ELSE \E month \in Nat :
                  /\ w.current_period_reset = month * SecondsPerMonth
                  /\ MonthIndex(l.since) + l.resets * w.period_multiple <= month
                  /\ month <= MonthIndex(t) + w.period_multiple

\* The numbers these formulas deal with.
LEMMA SpacedTypes ==
    ASSUME NEW w \in Wallet, NEW l \in Ledger
    PROVE  /\ w.current_period_reset \in Nat /\ w.period_multiple \in Nat
           /\ w.period_type \in {"DAYS", "MONTHS"} /\ DaysBetween(w) \in Nat
           /\ l.since \in Nat /\ l.resets \in Nat
  <1>1. w.period_multiple \in MultipleRange /\ MaxU16 \in Nat
    BY DEF Wallet, HotWallet, MaxU16
  <1>2. w.period_multiple \in Nat
    BY <1>1 DEF MultipleRange
  <1>3. DaysBetween(w) \in Nat
    BY <1>2, HotWalletsAssumption DEF DaysBetween
  <1> QED  BY <1>2, <1>3 DEF Wallet, HotWallet, Ledger

\* The month of a time.
LEMMA MonthIndexType ==
    ASSUME NEW t \in Nat
    PROVE  MonthIndex(t) \in Nat /\ \A u \in Nat : t <= u => MonthIndex(t) <= MonthIndex(u)
  BY HotWalletsAssumption, Division, LaterMonth DEF MonthIndex

\* Time does no harm.
LEMMA SpacedLater ==
    ASSUME NEW w \in Wallet, NEW l \in Ledger, NEW t \in Nat, NEW u \in Nat, t <= u,
           Spaced(w, l, t)
    PROVE  Spaced(w, l, u)
  <1>1. MonthIndex(t) \in Nat /\ MonthIndex(u) \in Nat /\ MonthIndex(t) <= MonthIndex(u)
    BY MonthIndexType
  <1>2. /\ w.current_period_reset \in Nat /\ w.period_multiple \in Nat
        /\ DaysBetween(w) \in Nat /\ l.since \in Nat
    BY SpacedTypes
  <1>3. ASSUME NEW month \in Nat, month <= MonthIndex(t) + w.period_multiple
        PROVE  month <= MonthIndex(u) + w.period_multiple
    BY <1>1, <1>2, <1>3
  <1> QED  BY <1>2, <1>3 DEF Spaced

\* A wallet that changed in nothing but its limit, and its ledger.
LEMMA SpacedSame ==
    ASSUME NEW w, NEW l, NEW v, NEW m, NEW t, Spaced(w, l, t),
           v.current_period_reset = w.current_period_reset,
           v.period_type = w.period_type, v.period_multiple = w.period_multiple,
           m.since = l.since, m.resets = l.resets
    PROVE  Spaced(v, m, t)
  BY DEF Spaced, DaysBetween

\* A reset, as far as the calendar is concerned.
LEMMA ResetFields ==
    ASSUME NEW w \in Wallet, NEW t, NEW v \in ResetPeriod(w, t)
    PROVE  /\ v.current_period_reset \in NextReset(w, t)
           /\ v.period_type = w.period_type /\ v.period_multiple = w.period_multiple
  <1>1. w.spend_limits # << >>
    BY DEF ResetPeriod
  <1>2. PICK next \in NextReset(w, t) :
            v = [w EXCEPT !.current_period_reset = next,
                          !.spend_limits[1].limit_remaining = w.spend_limits[1].amount]
    BY <1>1 DEF ResetPeriod
  <1> QED  BY <1>2 DEF Wallet, HotWallet

\* A reset counts one more and moves the next one by a period.
LEMMA SpacedReset ==
    ASSUME NEW w \in Wallet, NEW l \in Ledger, NEW t \in Nat, Spaced(w, l, t),
           ShouldReset(w, t), NEW v \in ResetPeriod(w, t)
    PROVE  Spaced(v, Reopened(l, v), t)
  <1> DEFINE k == l.resets
             next == v.current_period_reset
             multiple == w.period_multiple
  <1>1. /\ w.current_period_reset \in Nat /\ multiple \in Nat
        /\ w.period_type \in {"DAYS", "MONTHS"} /\ DaysBetween(w) \in Nat
        /\ l.since \in Nat /\ k \in Nat
    BY SpacedTypes
  <1>2. /\ Reopened(l, v).since = l.since /\ Reopened(l, v).resets = k + 1
    BY DEF Reopened, Ledger
  <1>3. /\ next \in NextReset(w, t)
        /\ v.period_type = w.period_type /\ v.period_multiple = multiple
        /\ DaysBetween(v) = DaysBetween(w)
    BY ResetFields DEF DaysBetween
  <1>4. l.since <= t /\ w.current_period_reset < t
    BY <1>1 DEF Spaced, ShouldReset
  <1>5. CASE multiple = 0
    BY <1>2, <1>3, <1>4, <1>5 DEF Spaced
  <1>6. CASE multiple > 0 /\ w.period_type = "DAYS"
    <2>1. PICK days \in Nat : days = DaysBetween(w)
      BY <1>1
    <2>2. next = t + days - 1
      BY <1>1, <1>3, <1>6, <2>1, HotWalletsAssumption DEF NextReset, NextResetDays, DaysBetween
    <2>3. k * days \in Nat /\ (k + 1) * days = k * days + days
      BY <1>1
    <2>4. l.since + k * days <= t
      <3>1. CASE k = 0
        <4>1. k * days = 0
          BY <2>1, <3>1
        <4> QED  BY <1>1, <1>4, <4>1
      <3>2. CASE k > 0
        <4>1. l.since + k * days <= w.current_period_reset + 1
          BY <1>6, <2>1, <3>2 DEF Spaced
        <4> QED  BY <1>1, <1>4, <2>3, <4>1
      <3> QED  BY <1>1, <3>1, <3>2
    <2>5. l.since + (k + 1) * days <= next + 1 /\ next < t + days
      BY <1>1, <2>1, <2>2, <2>3, <2>4
    <2> QED  BY <1>2, <1>3, <1>4, <1>6, <2>1, <2>5 DEF Spaced
  <1>7. CASE multiple > 0 /\ w.period_type = "MONTHS"
    <2>1. next = (MonthIndex(t) + multiple) * SecondsPerMonth
      BY <1>1, <1>3, <1>7, NextMonth DEF NextReset, MonthIndex
    <2>2. PICK since \in Nat, this \in Nat :
              since = MonthIndex(l.since) /\ this = MonthIndex(t) /\ since <= this
      BY <1>1, <1>4, MonthIndexType
    <2>3. k * multiple \in Nat /\ (k + 1) * multiple = k * multiple + multiple
      BY <1>1
    <2>4. since + k * multiple <= this
      <3>1. CASE k = 0
        BY <2>2, <3>1, <1>1
      <3>2. CASE k > 0
        <4>1. PICK month \in Nat :
                  /\ w.current_period_reset = month * SecondsPerMonth
                  /\ since + k * multiple <= month
          BY <1>7, <2>2, <3>2 DEF Spaced
        <4>2. t >= month * SecondsPerMonth
          BY <1>1, <1>4, <4>1
        <4>3. month <= this
          BY <2>2, <4>2, InOrAfterMonth, MonthIndexType, HotWalletsAssumption DEF MonthIndex
        <4> QED  BY <2>2, <2>3, <4>1, <4>3
      <3> QED  BY <1>1, <3>1, <3>2
    <2>5. PICK month \in Nat : month = this + multiple
      BY <1>1, <2>2
    <2>6. since + (k + 1) * multiple <= month
      BY <1>1, <2>2, <2>3, <2>4, <2>5
    <2>7. next = month * SecondsPerMonth /\ month <= this + multiple
      BY <2>1, <2>2, <2>5
    <2>8. /\ v.period_type # "DAYS" /\ v.period_multiple = multiple
          /\ Reopened(l, v).since <= t
          /\ MonthIndex(Reopened(l, v).since) + Reopened(l, v).resets * v.period_multiple
                 <= month
          /\ v.current_period_reset = month * SecondsPerMonth
          /\ month <= MonthIndex(t) + v.period_multiple
      BY <1>2, <1>3, <1>4, <1>7, <2>2, <2>6, <2>7
    <2> QED  BY <2>8 DEF Spaced
  <1> QED  BY <1>1, <1>5, <1>6, <1>7

\* What is spaced is within the rate.
LEMMA SpacedRate ==
    ASSUME NEW w \in Wallet, NEW l \in Ledger, now \in Nat, Spaced(w, l, now)
    PROVE  Rollovers(w, l)
  <1> DEFINE k == l.resets
             multiple == w.period_multiple
  <1>1. /\ w.current_period_reset \in Nat /\ multiple \in Nat
        /\ w.period_type \in {"DAYS", "MONTHS"} /\ DaysBetween(w) \in Nat
        /\ l.since \in Nat /\ k \in Nat
    BY SpacedTypes
  <1>2. CASE k > 0 /\ multiple > 0 /\ w.period_type = "DAYS"
    <2>1. PICK days \in Nat : days = DaysBetween(w)
      BY <1>1
    <2>2. l.since + k * days <= w.current_period_reset + 1 /\ w.current_period_reset < now + days
      BY <1>2, <2>1 DEF Spaced
    <2>3. k * days \in Nat /\ (k - 1) * days = k * days - days
      BY <1>1
    <2>4. (k - 1) * days <= now - l.since
      BY <1>1, <2>2, <2>3
    <2> QED  BY <1>2, <2>1, <2>4 DEF Rollovers, DaysBetween
  <1>3. CASE k > 0 /\ multiple > 0 /\ w.period_type = "MONTHS"
    <2>1. PICK since \in Nat, this \in Nat :
              since = MonthIndex(l.since) /\ this = MonthIndex(now)
      BY <1>1, MonthIndexType
    <2>2. PICK month \in Nat : since + k * multiple <= month /\ month <= this + multiple
      BY <1>3, <2>1 DEF Spaced
    <2>3. k * multiple \in Nat /\ (k - 1) * multiple = k * multiple - multiple
      BY <1>1
    <2>4. (k - 1) * multiple <= this - since
      BY <1>1, <2>2, <2>3
    <2> QED  BY <1>3, <2>1, <2>4 DEF Rollovers
  <1> QED  BY <1>1, <1>2, <1>3 DEF Rollovers

-----------------------------------------------------------------------------
(***************************************************************************)
(* What a wallet has taken from its limit, and how much that is over time. *)
(***************************************************************************)
\* What was taken and what is left were given, at first or by a reset.
Financed(w, l) == l.taken + Remaining(w) <= l.first + l.resets * Limit(w)

\* A limit is a number.
LEMMA LimitType == ASSUME NEW w \in Wallet PROVE Limit(w) \in Nat
  <1>1. CASE w.spend_limits = << >>
    BY <1>1 DEF Limit
  <1>2. CASE w.spend_limits # << >>
    <2>1. w.spend_limits \in Seq(CoinLimit(Denom))
      BY DEF Wallet, HotWallet
    <2>2. w.spend_limits[1] \in CoinLimit(Denom)
      BY <1>2, <2>1
    <2> QED  BY <1>2, <2>2, HotWalletsAssumption DEF Limit, CoinLimit, LimitAmount
  <1> QED  BY <1>1, <1>2

\* The numbers of this formula.
LEMMA FinancedTypes ==
    ASSUME NEW w \in Wallet, NEW l \in Ledger
    PROVE  /\ Remaining(w) \in Nat /\ Limit(w) \in Nat
           /\ l.taken \in Nat /\ l.first \in Nat /\ l.resets \in Nat
  BY LimitType, RemainingType, HotWalletsAssumption DEF Ledger, LimitAmount

\* Of a wallet that is added nothing was taken.
LEMMA FinancedOpened ==
    ASSUME NEW w \in Wallet, NEW t
    PROVE  Financed(w, Opened(w, t))
  <1>1. Remaining(w) \in Nat
    BY RemainingType, HotWalletsAssumption DEF LimitAmount
  <1>2. Limit(w) \in Nat
    BY LimitType
  <1>3. 0 + Remaining(w) <= Remaining(w) + 0 * Limit(w)
    BY <1>1, <1>2
  <1> QED  BY <1>3 DEF Financed, Opened

\* A reset gives one limit, and what was left is gone.
LEMMA FinancedReset ==
    ASSUME NEW w \in Wallet, NEW l \in Ledger, Financed(w, l),
           NEW t \in Nat, NEW v \in ResetPeriod(w, t)
    PROVE  Financed(v, Reopened(l, v))
  <1>1. /\ Remaining(w) \in Nat /\ Limit(w) \in Nat
        /\ l.taken \in Nat /\ l.first \in Nat /\ l.resets \in Nat
    BY FinancedTypes
  <1>2. /\ Reopened(l, v).taken = l.taken /\ Reopened(l, v).first = l.first
        /\ Reopened(l, v).resets = l.resets + 1
    BY DEF Reopened, Ledger
  <1>3. Limit(v) = Limit(w) /\ Remaining(v) = Limit(w)
    BY ResetLimit
  <1>4. (l.resets + 1) * Limit(w) = l.resets * Limit(w) + Limit(w)
        /\ l.resets * Limit(w) \in Nat
    BY <1>1
  <1>5. l.taken + Remaining(w) <= l.first + l.resets * Limit(w)
    BY DEF Financed
  <1>6. l.taken + Limit(w) <= l.first + (l.resets + 1) * Limit(w)
    BY <1>1, <1>4, <1>5
  <1> QED  BY <1>2, <1>3, <1>6 DEF Financed

\* A charge takes from what is left what it adds to what was taken.
LEMMA FinancedCharge ==
    ASSUME NEW w \in Wallet, NEW l \in Ledger, Financed(w, l),
           NEW usd \in Nat, NEW v \in ReduceLimit(w, usd)
    PROVE  Financed(v, Charged(l, usd))
  <1>1. /\ Remaining(w) \in Nat /\ Limit(w) \in Nat
        /\ l.taken \in Nat /\ l.first \in Nat /\ l.resets \in Nat
    BY FinancedTypes
  <1>2. /\ Charged(l, usd).taken = l.taken + (usd % U64)
        /\ Charged(l, usd).first = l.first /\ Charged(l, usd).resets = l.resets
    BY DEF Charged, Ledger
  <1>3. Limit(v) = Limit(w) /\ Remaining(v) = Remaining(w) - (usd % U64)
    BY ReduceLimitType
  <1>4. PICK cost \in Nat : cost = usd % U64
    BY CastType
  <1>5. l.resets * Limit(w) \in Nat
    BY <1>1
  <1> QED  BY <1>1, <1>2, <1>3, <1>4, <1>5 DEF Financed

\* Resets that keep their distance, and are given one limit each, keep what
\* is taken in proportion to time.
LEMMA Proportional ==
    ASSUME NEW more \in Int, NEW resets \in Nat, NEW limit \in Nat, NEW period \in Nat,
           NEW elapsed \in Nat,
           more <= (resets - 1) * limit,
           resets > 0 => (resets - 1) * period <= elapsed
    PROVE  more * period <= elapsed * limit
  <1>1. CASE resets = 0
    <2>1. more <= 0
      BY <1>1
    <2>2. more * period <= 0
      BY <2>1
    <2>3. elapsed * limit >= 0
      OBVIOUS
    <2> QED  BY <2>2, <2>3
  <1>2. CASE resets > 0
    <2>1. PICK k \in Nat : k = resets - 1
      BY <1>2
    <2>2. more <= k * limit /\ k * period <= elapsed
      BY <1>2, <2>1
    <2>3. more * period <= (k * limit) * period
      BY <2>1, <2>2
    <2>4. (k * limit) * period = (k * period) * limit
      BY <2>1
    <2>5. (k * period) * limit <= elapsed * limit
      BY <2>1, <2>2
    <2> QED  BY <2>1, <2>3, <2>4, <2>5
  <1> QED  BY <1>1, <1>2

\* A wallet that is spaced and financed takes no more than it may over time.
LEMMA SpacedAndFinanced ==
    ASSUME NEW w \in Wallet, NEW l \in Ledger, now \in Nat,
           Spaced(w, l, now), Financed(w, l)
    PROVE  Affordable(w, l)
  <1> DEFINE more == l.taken - l.first - Limit(w)
  <1>1. /\ Remaining(w) \in Nat /\ Limit(w) \in Nat
        /\ l.taken \in Nat /\ l.first \in Nat /\ l.resets \in Nat
    BY FinancedTypes
  <1>2. /\ w.period_multiple \in Nat /\ w.period_type \in {"DAYS", "MONTHS"}
        /\ DaysBetween(w) \in Nat /\ l.since \in Nat /\ l.since <= now
    BY SpacedTypes DEF Spaced
  <1>3. more \in Int /\ more <= (l.resets - 1) * Limit(w)
    <2>1. l.resets * Limit(w) \in Nat
          /\ (l.resets - 1) * Limit(w) = l.resets * Limit(w) - Limit(w)
      BY <1>1
    <2>2. l.taken + Remaining(w) <= l.first + l.resets * Limit(w)
      BY DEF Financed
    <2> QED  BY <1>1, <2>1, <2>2
  <1>4. Rollovers(w, l)
    BY SpacedRate
  <1> HIDE DEF more
  <1>5. CASE w.period_multiple > 0 /\ w.period_type = "DAYS"
    <2>1. l.resets > 0 => (l.resets - 1) * DaysBetween(w) <= now - l.since
      BY <1>4, <1>5 DEF Rollovers, DaysBetween
    <2>2. now - l.since \in Nat
      BY <1>2
    <2>3. more * DaysBetween(w) <= (now - l.since) * Limit(w)
      BY <1>1, <1>2, <1>3, <2>1, <2>2, Proportional
    <2> QED  BY <1>5, <2>3 DEF Affordable, DaysBetween, more
  <1>6. CASE w.period_multiple > 0 /\ w.period_type = "MONTHS"
    <2>1. l.resets > 0 => (l.resets - 1) * w.period_multiple
                              <= MonthIndex(now) - MonthIndex(l.since)
      BY <1>4, <1>6 DEF Rollovers
    <2>2. MonthIndex(now) - MonthIndex(l.since) \in Nat
      <3>1. MonthIndex(l.since) \in Nat /\ MonthIndex(now) \in Nat
            /\ MonthIndex(l.since) <= MonthIndex(now)
        BY <1>2, MonthIndexType
      <3> QED  BY <3>1
    <2>3. more * w.period_multiple <= (MonthIndex(now) - MonthIndex(l.since)) * Limit(w)
      BY <1>1, <1>2, <1>3, <2>1, <2>2, Proportional
    <2> QED  BY <1>6, <2>3 DEF Affordable, more
  <1>7. w.period_multiple > 0 \/ w.period_multiple = 0
    BY <1>2
  <1> QED  BY <1>2, <1>5, <1>6, <1>7 DEF Affordable

-----------------------------------------------------------------------------
(***************************************************************************)
(* All wallets, and what an abort goes back to.                            *)
(***************************************************************************)
OnRate(w, l, t) == Spaced(w, l, t) /\ Financed(w, l)

AllSpaced(c, h, t) ==
    \A a \in Names : \A i \in FirstOf(c.hot_wallets, a) :
        OnRate(c.hot_wallets[i], h.ledger[a], t)

RateInv == TypeOK /\ AllSpaced(cfg, hist, now) /\ AllSpaced(saved.cfg, saved.hist, now)

\* A wallet that is added has not been reset.
LEMMA SpacedOpened ==
    ASSUME NEW w \in Wallet, NEW t \in Nat
    PROVE  OnRate(w, Opened(w, t), t)
  <1>1. Spaced(w, Opened(w, t), t)
    BY DEF Spaced, Opened
  <1> QED  BY <1>1, FinancedOpened DEF OnRate

\* Of the handlers, only adding and removing wallets concern the resets.
LEMMA HandleSpaced ==
    ASSUME cfg \in State, hist \in History, now \in Nat, AllSpaced(cfg, hist, now),
           NEW s, NEW c \in Calls, NEW rest, Handle(s, c, rest)
    PROVE  AllSpaced(cfg', hist', now)
  <1>0. cfg.hot_wallets \in Seq(Wallet) /\ hist.ledger \in [Names -> Ledger]
    BY DEF State, History
  <1>1. CASE ExecuteUnchecked(s, c, rest) \/ ExecuteAuthorized(s, c, rest)
             \/ ExecuteChecked(s, c, rest) \/ CancelUpdateAdmin(s, c, rest)
             \/ ProposeUpdateAdmin(s, c, rest) \/ ConfirmUpdateAdmin(s, c, rest)
    BY <1>1 DEF ExecuteUnchecked, ExecuteAuthorized, ExecuteChecked, CancelUpdateAdmin,
                ProposeUpdateAdmin, ConfirmUpdateAdmin, Proposed, Withdrawn,
                AllSpaced, State, History
  <1>2. CASE AddHotWallet(s, c, rest)
    <2>0. PICK w : w = c.new_hot_wallet
      OBVIOUS
    <2>1. w \in Wallet /\ w.address \in Names
      BY <1>2, <2>0, ObiProxyAssumption DEF WellFormed, AddHotWallet, ExecuteTypes
    <2>2. PICK old, new :
              /\ old = cfg.hot_wallets /\ new = cfg'.hot_wallets
              /\ FirstOf(old, w.address) = {} /\ Appended(old, w, new)
              /\ hist'.ledger = [hist.ledger EXCEPT ![w.address] = Opened(w, now)]
      BY <1>2, <2>0
         DEF AddHotWallet, IsHotWallet, FirstWallet, State, History, Appended
    <2>3. ASSUME NEW a \in Names, NEW j \in FirstOf(new, a)
          PROVE  OnRate(new[j], hist'.ledger[a], now)
      <3>1. \/ a = w.address /\ new[j] = w
            \/ a # w.address /\ j \in FirstOf(old, a) /\ new[j] = old[j]
        BY <1>0, <2>1, <2>2, <2>3, FirstOfAppended
      <3>2. CASE a = w.address /\ new[j] = w
        BY <1>0, <2>1, <2>2, <3>2, SpacedOpened
      <3>3. CASE a # w.address /\ j \in FirstOf(old, a) /\ new[j] = old[j]
        BY <1>0, <2>2, <3>3 DEF AllSpaced
      <3> QED  BY <3>1, <3>2, <3>3
    <2> QED  BY <2>2, <2>3 DEF AllSpaced
  <1>3. CASE RmHotWallet(s, c, rest)
    <2>1. PICK doomed :
              /\ cfg'.hot_wallets \in Retain(cfg.hot_wallets, doomed)
              /\ hist'.ledger = [hist.ledger EXCEPT ![doomed] = Unopened]
      BY <1>3 DEF RmHotWallet, State, History
    <2>2. ASSUME NEW a \in Names, NEW j \in FirstOf(cfg'.hot_wallets, a)
          PROVE  OnRate(cfg'.hot_wallets[j], hist'.ledger[a], now)
      <3>1. PICK i \in FirstOf(cfg.hot_wallets, a) :
                a # doomed /\ cfg'.hot_wallets[j] = cfg.hot_wallets[i]
        BY <1>0, <2>1, <2>2, FirstOfRetained
      <3>2. hist'.ledger[a] = hist.ledger[a]
        BY <1>0, <2>1, <3>1
      <3> QED  BY <3>1, <3>2 DEF AllSpaced
    <2> QED  BY <2>2 DEF AllSpaced
  <1> QED  BY <1>1, <1>2, <1>3 DEF Handle

\* A wallet is replaced by one of the same address.
LEMMA ReplaceSpaced ==
    ASSUME cfg \in State, hist \in History, AllSpaced(cfg, hist, now),
           NEW a, NEW i \in FirstOf(cfg.hot_wallets, a), NEW w, w.address = a,
           cfg' = [cfg EXCEPT !.hot_wallets[i] = w],
           \A b \in Names : b # a => hist'.ledger[b] = hist.ledger[b],
           OnRate(w, hist'.ledger[a], now)
    PROVE  AllSpaced(cfg', hist', now)
  <1>1. /\ cfg.hot_wallets \in Seq(Wallet)
        /\ i \in DOMAIN cfg.hot_wallets /\ cfg.hot_wallets[i].address = a
    BY FirstOfType DEF State
  <1>2. cfg'.hot_wallets = [cfg.hot_wallets EXCEPT ![i] = w]
    BY DEF State
  <1>3. ASSUME NEW b \in Names, NEW j \in FirstOf(cfg'.hot_wallets, b)
        PROVE  OnRate(cfg'.hot_wallets[j], hist'.ledger[b], now)
    <2>1. j \in FirstOf(cfg.hot_wallets, b) /\ j \in DOMAIN cfg.hot_wallets
          /\ cfg.hot_wallets[j].address = b
      BY <1>1, <1>2, <1>3, FirstOfReplaced, FirstOfType
    <2>2. CASE b = a
      <3>1. j = i
        BY <1>1, <2>1, <2>2, FirstOfUnique
      <3>2. cfg'.hot_wallets[j] = w
        BY <1>1, <1>2, <3>1
      <3> QED  BY <2>2, <3>2
    <2>3. CASE b # a
      <3>1. cfg'.hot_wallets[j] = cfg.hot_wallets[j]
        BY <1>1, <1>2, <2>1, <2>3
      <3> QED  BY <2>1, <2>3, <3>1 DEF AllSpaced
    <2> QED  BY <2>2, <2>3
  <1> QED  BY <1>3 DEF AllSpaced

\* A wallet that is let in is reset only when its time has passed.
LEMMA AdmitSpaced ==
    ASSUME TypeOK, AllSpaced(cfg, hist, now), AdmitWallet
    PROVE  AllSpaced(cfg', hist', now)
  <1>1. PICK i \in FirstWallet(call.sender) : \E w \in Due(cfg.hot_wallets[i]) :
            /\ cfg' = [cfg EXCEPT !.hot_wallets[i] = w]
            /\ hist' = IF ShouldReset(cfg.hot_wallets[i], now)
                       THEN [hist EXCEPT !.ledger[call.sender] = Reopened(@, w)]
                       ELSE hist
    BY DEF AdmitWallet
  <1>2. PICK w \in Due(cfg.hot_wallets[i]) :
            /\ cfg' = [cfg EXCEPT !.hot_wallets[i] = w]
            /\ hist' = IF ShouldReset(cfg.hot_wallets[i], now)
                       THEN [hist EXCEPT !.ledger[call.sender] = Reopened(@, w)]
                       ELSE hist
    BY <1>1
  <1>3. /\ cfg \in State /\ hist \in History /\ now \in Nat /\ call.sender \in Names
        /\ i \in FirstOf(cfg.hot_wallets, call.sender)
        /\ cfg.hot_wallets[i] \in Wallet /\ cfg.hot_wallets[i].address = call.sender
        /\ hist.ledger[call.sender] \in Ledger
    BY FirstOfType DEF FirstWallet, TypeOK, State, History, Running
  <1>4. w.address = call.sender
    BY <1>3, DueType
  <1>5. OnRate(cfg.hot_wallets[i], hist.ledger[call.sender], now)
    BY <1>3 DEF AllSpaced
  <1>6. /\ \A b \in Names : b # call.sender => hist'.ledger[b] = hist.ledger[b]
        /\ OnRate(w, hist'.ledger[call.sender], now)
    <2>1. CASE ShouldReset(cfg.hot_wallets[i], now)
      <3>1. w \in ResetPeriod(cfg.hot_wallets[i], now)
        BY <2>1 DEF Due
      <3>2. OnRate(w, Reopened(hist.ledger[call.sender], w), now)
        BY <1>3, <1>5, <2>1, <3>1, SpacedReset, FinancedReset DEF OnRate
      <3>3. hist'.ledger = [hist.ledger EXCEPT ![call.sender] =
                                Reopened(hist.ledger[call.sender], w)]
        BY <1>2, <1>3, <2>1 DEF History
      <3> QED  BY <1>3, <3>2, <3>3 DEF History
    <2>2. CASE ~ShouldReset(cfg.hot_wallets[i], now)
      BY <1>2, <1>5, <2>2 DEF Due
    <2> QED  BY <2>1, <2>2
  <1> QED  BY <1>2, <1>3, <1>4, <1>6, ReplaceSpaced

\* A charge does not touch the calendar.
LEMMA ChargeSpaced ==
    ASSUME TypeOK, AllSpaced(cfg, hist, now), ChargeCoin
    PROVE  AllSpaced(cfg', hist', now)
  <1>1. PICK i \in FirstWallet(call.sender), usd \in ToUsdc(market, Head(call.coins)) :
            \E w \in ReduceLimit(cfg.hot_wallets[i], usd.amount) :
            /\ cfg' = [cfg EXCEPT !.hot_wallets[i] = w]
            /\ hist' = [hist EXCEPT !.ledger[call.sender] = Charged(@, usd.amount)]
    BY DEF ChargeCoin
  <1>2. PICK w \in ReduceLimit(cfg.hot_wallets[i], usd.amount) :
            /\ cfg' = [cfg EXCEPT !.hot_wallets[i] = w]
            /\ hist' = [hist EXCEPT !.ledger[call.sender] = Charged(@, usd.amount)]
    BY <1>1
  <1>3. /\ cfg \in State /\ hist \in History /\ call.sender \in Names
        /\ i \in FirstOf(cfg.hot_wallets, call.sender)
        /\ cfg.hot_wallets[i] \in Wallet /\ cfg.hot_wallets[i].address = call.sender
        /\ hist.ledger[call.sender] \in Ledger
    BY FirstOfType DEF FirstWallet, TypeOK, State, History, Running
  <1>4. /\ w.address = call.sender
        /\ w.current_period_reset = cfg.hot_wallets[i].current_period_reset
        /\ w.period_type = cfg.hot_wallets[i].period_type
        /\ w.period_multiple = cfg.hot_wallets[i].period_multiple
    BY <1>3 DEF ReduceLimit, Wallet, HotWallet
  <1>5. hist'.ledger = [hist.ledger EXCEPT ![call.sender] =
                            Charged(hist.ledger[call.sender], usd.amount)]
    BY <1>2, <1>3 DEF History
  <1>6. /\ \A b \in Names : b # call.sender => hist'.ledger[b] = hist.ledger[b]
        /\ hist'.ledger[call.sender].since = hist.ledger[call.sender].since
        /\ hist'.ledger[call.sender].resets = hist.ledger[call.sender].resets
    BY <1>3, <1>5 DEF Charged, History, Ledger
  <1>7. OnRate(cfg.hot_wallets[i], hist.ledger[call.sender], now)
    BY <1>3 DEF AllSpaced
  <1>8. Spaced(w, hist'.ledger[call.sender], now)
    BY <1>4, <1>6, <1>7, SpacedSame DEF OnRate
  <1>9. usd.amount \in Nat
    <2>1. Head(call.coins) \in Coin
      BY HeadTailProperties DEF ChargeCoin, TypeOK, Running
    <2>2. usd.amount \in Uint128
      BY <2>1, ToUsdcType DEF TypeOK, Coin
    <2> QED  BY <2>2, PricingAssumption DEF Uint128
  <1>10. Financed(w, hist'.ledger[call.sender])
    <2>1. hist'.ledger[call.sender] = Charged(hist.ledger[call.sender], usd.amount)
      BY <1>3, <1>5 DEF History
    <2> QED  BY <1>3, <1>7, <1>9, <2>1, FinancedCharge DEF OnRate
  <1> QED  BY <1>2, <1>3, <1>4, <1>6, <1>8, <1>10, ReplaceSpaced DEF OnRate

\* Time passes for every wallet.
LEMMA AllLater ==
    ASSUME NEW c \in State, NEW h \in History, NEW t \in Nat, NEW u \in Nat, t <= u,
           AllSpaced(c, h, t)
    PROVE  AllSpaced(c, h, u)
  <1>1. ASSUME NEW a \in Names, NEW i \in FirstOf(c.hot_wallets, a)
        PROVE  OnRate(c.hot_wallets[i], h.ledger[a], u)
    <2>1. c.hot_wallets[i] \in Wallet /\ h.ledger[a] \in Ledger
      BY <1>1, FirstOfType DEF State, History
    <2>2. OnRate(c.hot_wallets[i], h.ledger[a], t)
      BY <1>1 DEF AllSpaced
    <2> QED  BY <2>1, <2>2, SpacedLater DEF OnRate
  <1> QED  BY <1>1 DEF AllSpaced

\* Every step keeps the spaces, one case per action.
LEMMA NextSpaced == RateInv /\ [Next]_vars => RateInv'
  <1> SUFFICES ASSUME RateInv, [Next]_vars PROVE RateInv'
    OBVIOUS
  <1>1. /\ TypeOK' /\ TypeOK /\ cfg \in State /\ hist \in History /\ now \in Nat
        /\ AllSpaced(cfg, hist, now) /\ AllSpaced(saved.cfg, saved.hist, now)
    BY NextType DEF RateInv, TypeOK
  <1>2. ASSUME AllSpaced(cfg', hist', now), saved' = saved, now' = now PROVE RateInv'
    BY <1>1, <1>2 DEF RateInv
  <1>3. ASSUME NEW s, NEW c \in Calls, NEW rest, Handle(s, c, rest) PROVE RateInv'
    <2>1. saved' = saved /\ now' = now
      BY <1>3 DEF Handle
    <2> QED  BY <1>1, <1>2, <1>3, <2>1, HandleSpaced
  <1>4. ASSUME cfg'.hot_wallets = cfg.hot_wallets, hist'.ledger = hist.ledger,
               saved' = saved, now' = now
        PROVE  RateInv'
    BY <1>1, <1>2, <1>4 DEF AllSpaced
  <1>5. CASE RepayDebt
    BY <1>1, <1>4, <1>5 DEF RepayDebt, State, History
  <1>6. CASE PassOwner \/ PassWallet \/ EndExecute \/ SendCoin \/ Trade \/ UNCHANGED vars
    BY <1>4, <1>6 DEF PassOwner, PassWallet, EndExecute, SendCoin, Trade, vars
  <1>7. CASE AdmitWallet
    <2>1. saved' = saved /\ now' = now
      BY <1>7 DEF AdmitWallet
    <2> QED  BY <1>1, <1>2, <1>7, <2>1, AdmitSpaced
  <1>8. CASE ChargeCoin
    <2>1. saved' = saved /\ now' = now
      BY <1>8 DEF ChargeCoin
    <2> QED  BY <1>1, <1>2, <1>8, <2>1, ChargeSpaced
  <1>9. CASE FinishMsg
    BY <1>1, <1>4, <1>9 DEF FinishMsg, State, History
  <1>10. CASE Commit
    BY <1>1, <1>10 DEF Commit, RateInv, AllSpaced
  <1>11. CASE Abort
    BY <1>1, <1>11 DEF Abort, RateInv, AllSpaced
  <1>12. CASE Tick
    <2>1. /\ cfg' = cfg /\ hist' = hist /\ saved' = saved
          /\ now' \in Nat /\ now <= now'
      BY <1>1, <1>12 DEF Tick
    <2>2. saved.cfg \in State /\ saved.hist \in History
      BY <1>1 DEF TypeOK
    <2>3. AllSpaced(cfg, hist, now') /\ AllSpaced(saved.cfg, saved.hist, now')
      BY <1>1, <2>1, <2>2, AllLater
    <2> QED  BY <1>1, <2>1, <2>3 DEF RateInv
  <1>13. CASE CallSelf
    <2>1. NextOut.inner \in Calls
      BY <1>1, <1>13, NextOutType DEF CallSelf, Sent, Message
    <2> QED  BY <1>3, <1>13, <2>1 DEF CallSelf
  <1> QED
    BY <1>3, <1>5, <1>6, <1>7, <1>8, <1>9, <1>10, <1>11, <1>12, <1>13
       DEF Next, Submit, CallBack

\* The wallets of the beginning have not been reset.
LEMMA InitSpaced == Init => RateInv
  <1> SUFFICES ASSUME Init PROVE RateInv
    OBVIOUS
  <1>1. cfg.hot_wallets \in Seq(Wallet)
    BY InitType DEF TypeOK, State
  <1>2. ASSUME NEW a \in Names, NEW i \in FirstOf(cfg.hot_wallets, a)
        PROVE  OnRate(cfg.hot_wallets[i], hist.ledger[a], now)
    <2>1. (CHOOSE k \in FirstOf(cfg.hot_wallets, a) : TRUE) = i
      BY <1>1, <1>2, ChosenType, FirstOfUnique
    <2>2. hist.ledger[a] = Opened(cfg.hot_wallets[i], StartTime)
      BY <1>2, <2>1 DEF Init, NewHistory
    <2>3. cfg.hot_wallets[i] \in Wallet /\ now = StartTime /\ StartTime \in Nat
      BY <1>1, <1>2, FirstOfType, ObiProxyAssumption DEF Init
    <2> QED  BY <2>2, <2>3, SpacedOpened
  <1> QED  BY <1>2, InitType DEF Init, RateInv, AllSpaced

\* What the invariant says of the wallet an address has now.
LEMMA WalletOnRate ==
    ASSUME RateInv, NEW a \in Names, NEW i \in FirstWallet(a)
    PROVE  /\ cfg.hot_wallets[i] \in Wallet /\ hist.ledger[a] \in Ledger /\ now \in Nat
           /\ Spaced(cfg.hot_wallets[i], hist.ledger[a], now)
           /\ Financed(cfg.hot_wallets[i], hist.ledger[a])
  BY FirstOfType DEF RateInv, TypeOK, State, History, FirstWallet, AllSpaced, OnRate

\* No hot wallet gets its limit back more often than its period says, for any
\* period, and whatever happens between its resets: reset_period counts the
\* next period from the time it is called and not from the end of the last.
THEOREM ResetsAreSpaced == Spec => []RolloverRate
  <1>1. RateInv => RolloverRate
    BY WalletOnRate, SpacedRate DEF RolloverRate
  <1> QED  BY <1>1, InitSpaced, NextSpaced, PTL DEF Spec

\* No hot wallet takes more from its limit than its period allows over its
\* whole life, for any limit, period, prices and calls: what is proved of one
\* period and what is proved of the resets, put together.
THEOREM SpendingIsRated == Spec => []SpendingRate
  <1>1. RateInv => SpendingRate
    BY WalletOnRate, SpacedAndFinanced DEF SpendingRate
  <1> QED  BY <1>1, InitSpaced, NextSpaced, PTL DEF Spec
=============================================================================
