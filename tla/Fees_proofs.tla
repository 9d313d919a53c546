----------------------------- MODULE Fees_proofs -----------------------------
(***************************************************************************)
(* Theorems about the fee debt of ObiProxy: what the messages that are     *)
(* waiting to leave have to do with the debt on the books.                 *)
(***************************************************************************)
EXTENDS ObiProxy_proofs

-----------------------------------------------------------------------------
(***************************************************************************)
(* What the handlers leave to be dispatched.                               *)
(***************************************************************************)
\* What a handler returns: messages of an owner out of debt and messages to
\* token contracts, the latter without coins.
Returned(out) ==
    /\ out \in Seq(Outgoing)
    /\ \A n \in DOMAIN out :
          /\ out[n].origin \in {"owner", "token"}
          /\ out[n].origin = "token" => out[n].msg.funds = << >>
          /\ out[n].origin = "owner" => cfg.uusd_fee_debt = 0

\* Only execute_execute returns messages, and no handler touches the debt or
\* begins with a response.
LEMMA HandleOut ==
    ASSUME cfg \in State, hist \in History, NEW s, NEW c \in Calls, NEW rest,
           rest \in Seq(Outgoing), Handle(s, c, rest)
    PROVE  /\ cfg'.uusd_fee_debt = cfg.uusd_fee_debt /\ hist'.fees = hist.fees
           /\ phase' \in {"check", "dispatch"}
           /\ call'.out = << >>
           /\ \E out : Returned(out) /\ queue' = out \o rest
  <1>0. /\ WellFormed(c) /\ Returned(<< >>)
        /\ rest = << >> \o rest /\ NotRunning.out = << >>
    BY ObiProxyAssumption, ConcatProperties DEF Returned, NotRunning
  <1>1. CASE ExecuteUnchecked(s, c, rest)
    <2> DEFINE sent == [n \in DOMAIN c.msgs |-> Out(c.msgs[n], "owner", 0)]
    <2>1. c.msgs \in Seq(Message)
      BY <1>0, <1>1 DEF WellFormed, ExecuteUnchecked, ExecuteTypes
    <2>2. sent \in Seq(Outgoing)
      BY <2>1, OutType, ZeroType DEF Origins
    <2>3. \A n \in DOMAIN sent : sent[n].origin = "owner"
      BY DEF Out
    <2>4. cfg.uusd_fee_debt = 0
      BY <1>1 DEF ExecuteUnchecked, Unchecked
    <2>5. Returned(sent)
      BY <2>2, <2>3, <2>4 DEF Returned
    <2> QED  BY <1>0, <1>1, <2>5 DEF ExecuteUnchecked, Return
  <1>2. CASE ExecuteAuthorized(s, c, rest)
    <2>1. c.msgs \in Seq(Message) /\ c.msgs # << >> /\ Authorized(Head(c.msgs), s)
      BY <1>0, <1>2 DEF WellFormed, ExecuteAuthorized, ExecuteTypes
    <2> DEFINE o == Out(Head(c.msgs), "token", 0)
    <2>2. o \in Outgoing /\ o.origin = "token" /\ o.msg.funds = << >>
      BY <2>1, HeadTailProperties, OutType, ZeroType DEF Origins, Out, Authorized
    <2> HIDE DEF o
    <2>3. Returned(<<o>>)
      BY <2>2 DEF Returned
    <2> QED  BY <1>0, <1>2, <2>3 DEF ExecuteAuthorized, Return, o
  <1>3. CASE ExecuteChecked(s, c, rest)
    BY <1>0, <1>3 DEF ExecuteChecked
  <1>4. CASE AddHotWallet(s, c, rest)
    BY <1>0, <1>4 DEF AddHotWallet, Return, State, History
  <1>5. CASE RmHotWallet(s, c, rest)
    BY <1>0, <1>5 DEF RmHotWallet, Return, State, History
  <1>6. CASE ProposeUpdateAdmin(s, c, rest)
    BY <1>0, <1>6 DEF ProposeUpdateAdmin, Proposed, Return, State, History
  <1>7. CASE ConfirmUpdateAdmin(s, c, rest)
    BY <1>0, <1>7 DEF ConfirmUpdateAdmin, Return, State, History
  <1>8. CASE CancelUpdateAdmin(s, c, rest)
    BY <1>0, <1>8 DEF CancelUpdateAdmin, Withdrawn, Return, State, History
  <1> QED  BY <1>1, <1>2, <1>3, <1>4, <1>5, <1>6, <1>7, <1>8 DEF Handle

-----------------------------------------------------------------------------
(***************************************************************************)
(* The debt comes first.                                                   *)
(***************************************************************************)
\* Nothing in q has to wait for the fee.
NoneBound(q) == \A n \in DOMAIN q : ~AfterTheFee(q[n])

\* Nothing is gained by an abort: no transaction brings coins in.
DebtInv ==
    /\ TypeOK
    /\ cfg.uusd_fee_debt # 0 =>
          /\ NoneBound(queue) /\ NoneBound(call.out)
          /\ phase # "charge"
    /\ \A d \in NativeDenoms : bank[d] <= saved.bank[d]

\* Every element of two sequences put together is one of theirs.
LEMMA ConcatElement ==
    ASSUME NEW p \in Seq(Outgoing), NEW q \in Seq(Outgoing), NEW n \in DOMAIN (p \o q)
    PROVE  \/ \E k \in DOMAIN p : (p \o q)[n] = p[k]
           \/ \E k \in DOMAIN q : (p \o q)[n] = q[k]
  <1>1. n \in 1 .. Len(p) + Len(q)
    BY ConcatProperties
  <1>2. CASE n \in 1 .. Len(p)
    BY <1>2, ConcatProperties
  <1>3. CASE n \notin 1 .. Len(p)
    BY <1>1, <1>3, ConcatProperties
  <1> QED  BY <1>2, <1>3

\* Two sequences with nothing bound in them make one.
LEMMA NoneBoundConcat ==
    ASSUME NEW p \in Seq(Outgoing), NEW q \in Seq(Outgoing), NoneBound(p), NoneBound(q)
    PROVE  NoneBound(p \o q)
  BY ConcatElement DEF NoneBound

\* So do a sequence and one more message.
LEMMA NoneBoundAppend ==
    ASSUME NEW q \in Seq(Outgoing), NEW o \in Outgoing, NoneBound(q), ~AfterTheFee(o)
    PROVE  NoneBound(Append(q, o))
  BY AppendProperties DEF NoneBound

\* Nor does dispatching one add to what is bound.
LEMMA NoneBoundTail ==
    ASSUME NEW q \in Seq(Outgoing), q # << >>, NoneBound(q)
    PROVE  NoneBound(Tail(q))
  BY HeadTailProperties DEF NoneBound

\* A handler returns nothing bound while there is a debt.
LEMMA HandleDebt ==
    ASSUME DebtInv, TypeOK', NEW s, NEW c \in Calls, NEW rest,
           rest \in Seq(Outgoing), NoneBound(queue) => NoneBound(rest),
           Handle(s, c, rest)
    PROVE  DebtInv'
  <1>1. cfg \in State /\ hist \in History
    BY DEF DebtInv, TypeOK
  <1>2. PICK out : Returned(out) /\ queue' = out \o rest
    BY <1>1, HandleOut
  <1>3. /\ cfg'.uusd_fee_debt = cfg.uusd_fee_debt /\ call'.out = << >>
        /\ phase' # "charge" /\ bank' = bank /\ saved' = saved
    BY <1>1, HandleOut DEF Handle
  <1>4. ASSUME cfg'.uusd_fee_debt # 0
        PROVE  NoneBound(queue') /\ NoneBound(call'.out)
    <2>1. NoneBound(rest) /\ NoneBound(out) /\ out \in Seq(Outgoing)
      BY <1>2, <1>3, <1>4 DEF DebtInv, Returned, NoneBound, AfterTheFee
    <2> QED  BY <1>2, <1>3, <2>1, NoneBoundConcat DEF NoneBound
  <1> QED  BY <1>3, <1>4 DEF DebtInv

\* The messages that execute_execute lets through in debt are not bound.
LEMMA NextMsgDebt ==
    ASSUME DebtInv, TypeOK', call.msgs # << >>, NEW origin \in Origins, NextMsg(origin),
           cfg.uusd_fee_debt # 0 => ~Spends(Head(call.msgs)) /\ origin # "owner",
           phase' \in {"check", phase}, UNCHANGED <<cfg, bank, queue, saved>>
    PROVE  DebtInv'
  <1>1. ASSUME cfg.uusd_fee_debt # 0 PROVE NoneBound(call'.out)
    <2> DEFINE o == Out(Head(call.msgs), origin, 0)
    <2>1. call.out \in Seq(Outgoing) /\ Head(call.msgs) \in Message
      BY HeadTailProperties DEF DebtInv, TypeOK, Running
    <2>2. o \in Outgoing
      BY <2>1, OutType, ZeroType
    <2>3. ~AfterTheFee(o)
      BY <1>1 DEF AfterTheFee, Out
    <2>4. call'.out = IF call.sim THEN call.out ELSE Append(call.out, o)
      BY DEF NextMsg, DebtInv, TypeOK, Running
    <2> HIDE DEF o
    <2> QED  BY <1>1, <2>1, <2>2, <2>3, <2>4, NoneBoundAppend DEF DebtInv
  <1> QED  BY <1>1 DEF DebtInv

\* What is on its way stays as it is or gets shorter.
LEMMA NextDebt == DebtInv /\ [Next]_vars => DebtInv'
  <1> SUFFICES ASSUME DebtInv, [Next]_vars PROVE DebtInv'
    OBVIOUS
  <1>1. TypeOK' /\ TypeOK
    BY NextType DEF DebtInv
  <1>2. ASSUME NEW s, NEW c \in Calls, Submit(s, c) PROVE DebtInv'
    <2>1. << >> \in Seq(Outgoing) /\ NoneBound(<< >>)
      BY DEF NoneBound
    <2> QED  BY <1>1, <1>2, <2>1, HandleDebt DEF Submit
  <1>3. ASSUME NEW s, NEW c \in Calls, CallBack(s, c) PROVE DebtInv'
    <2>1. queue \in Seq(Outgoing)
      BY <1>1 DEF TypeOK
    <2> QED  BY <1>1, <1>3, <2>1, HandleDebt DEF CallBack
  <1>4. CASE CallSelf
    <2>1. NextOut.inner \in Calls /\ Tail(queue) \in Seq(Outgoing)
          /\ queue \in Seq(Outgoing) /\ queue # << >>
      BY <1>1, <1>4, NextOutType DEF CallSelf, Sent, Message, Dispatching, TypeOK
    <2> QED  BY <1>1, <1>4, <2>1, NoneBoundTail, HandleDebt DEF CallSelf
  <1>5. CASE RepayDebt
    <2>1. cfg'.uusd_fee_debt = 0 /\ UNCHANGED <<bank, saved>>
      BY <1>1, <1>5 DEF RepayDebt, TypeOK, State
    <2> QED  BY <1>1, <2>1 DEF DebtInv
  <1>6. CASE PassOwner
    <2>1. cfg.uusd_fee_debt # 0 => ~Spends(Head(call.msgs))
      BY <1>6 DEF PassOwner, Spends, SpendTypes, OtherCalls, SpendCalls, BankKinds
    <2> QED  BY <1>1, <1>6, <2>1, NextMsgDebt DEF PassOwner, Origins
  <1>7. CASE AdmitWallet
    <2>1. cfg'.uusd_fee_debt = 0 /\ UNCHANGED <<bank, saved>>
      BY <1>1, <1>7 DEF AdmitWallet, TypeOK, State
    <2> QED  BY <1>1, <2>1 DEF DebtInv
  <1>8. CASE ChargeCoin
    <2>1. /\ cfg'.uusd_fee_debt = cfg.uusd_fee_debt /\ call'.out = call.out
          /\ UNCHANGED <<bank, saved, phase, queue>>
      BY <1>1, <1>8 DEF ChargeCoin, TypeOK, State, Running
    <2> QED  BY <1>1, <2>1 DEF DebtInv
  <1>9. CASE PassWallet
    <2>1. cfg.uusd_fee_debt = 0 /\ call.msgs # << >>
      BY <1>9 DEF PassWallet, DebtInv, TypeOK
    <2> QED  BY <1>1, <1>9, <2>1, NextMsgDebt DEF PassWallet, Origins
  <1>10. CASE EndExecute
    <2>1. call.out \in Seq(Outgoing) /\ queue \in Seq(Outgoing)
      BY <1>1 DEF TypeOK, Running
    <2>2. queue' = call.out \o queue /\ call'.out = << >> /\ phase' = "dispatch"
      BY <1>10 DEF EndExecute, Return, NotRunning
    <2>3. cfg.uusd_fee_debt # 0 => NoneBound(queue') /\ NoneBound(call'.out)
      BY <2>1, <2>2, NoneBoundConcat DEF DebtInv, NoneBound
    <2> QED  BY <1>1, <1>10, <2>2, <2>3 DEF EndExecute, DebtInv
  <1>11. CASE SendCoin
    <2>1. /\ 1 \in DOMAIN queue /\ queue[1] \in Outgoing /\ NextOut = queue[1].msg
          /\ NextOut \in Message /\ NextOut.funds # << >>
      BY <1>1, <1>11, NextOutType DEF SendCoin, NextOut
    <2>2. /\ queue' = [queue EXCEPT ![1].msg.funds = Tail(NextOut.funds)]
          /\ UNCHANGED <<cfg, phase, call, saved>>
      BY <1>11, <2>1 DEF SendCoin
    <2>3. DOMAIN queue' = DOMAIN queue /\ \A n \in DOMAIN queue \ {1} : queue'[n] = queue[n]
      BY <1>1, <2>2 DEF TypeOK
    <2>4. AfterTheFee(queue'[1]) => AfterTheFee(queue[1])
      <3>1. /\ queue'[1].origin = queue[1].origin
            /\ queue'[1].msg = [NextOut EXCEPT !.funds = Tail(NextOut.funds)]
        BY <1>1, <2>1, <2>2 DEF TypeOK, Outgoing
      <3>2. Spends(queue'[1].msg) = Spends(NextOut)
        BY <2>1, <3>1 DEF Spends, MsgType, Message
      <3> QED  BY <2>1, <3>1, <3>2 DEF AfterTheFee
    <2>5. \A d \in NativeDenoms : bank'[d] <= bank[d]
      <3> DEFINE coin == Head(NextOut.funds)
      <3>1. coin \in Coin
        BY <2>1, HeadTailProperties DEF Message
      <3>2. coin.amount \in Nat
        BY <3>1, PricingAssumption DEF Coin, Uint128
      <3>3. bank' = IF NextOut.to = Proxy THEN bank
                    ELSE [bank EXCEPT ![coin.denom] = @ - coin.amount]
        BY <1>11 DEF SendCoin
      <3> HIDE DEF coin
      <3> QED  BY <1>1, <3>2, <3>3 DEF TypeOK, Balances
    <2>6. \A d \in NativeDenoms : bank'[d] <= saved.bank[d]
      <3>1. \A d \in NativeDenoms : bank[d] \in Nat /\ bank'[d] \in Nat /\ saved.bank[d] \in Nat
        BY <1>1 DEF TypeOK, Balances
      <3> QED  BY <2>5, <3>1 DEF DebtInv
    <2>7. NoneBound(queue) => NoneBound(queue')
      BY <2>1, <2>3, <2>4 DEF NoneBound
    <2> QED  BY <1>1, <2>2, <2>6, <2>7 DEF DebtInv
  <1>12. CASE FinishMsg
    <2>1. queue \in Seq(Outgoing) /\ queue # << >>
      BY <1>1, <1>12 DEF FinishMsg, Sent, Dispatching, TypeOK
    <2> QED  BY <1>1, <1>12, <2>1, NoneBoundTail DEF FinishMsg, DebtInv
  <1>13. CASE Commit
    <2>1. \A d \in NativeDenoms : bank[d] \in Nat
      BY <1>1 DEF TypeOK, Balances
    <2> QED  BY <1>1, <1>13, <2>1 DEF Commit, DebtInv
  <1>14. CASE Abort
    <2>1. \A d \in NativeDenoms : saved.bank[d] \in Nat
      BY <1>1 DEF TypeOK, Balances
    <2> QED  BY <1>1, <1>14, <2>1 DEF Abort, DebtInv, NoneBound, NotRunning
  <1>15. CASE Trade \/ Tick \/ UNCHANGED vars
    BY <1>1, <1>15 DEF Trade, Tick, vars, DebtInv
  <1> QED
    BY <1>2, <1>3, <1>4, <1>5, <1>6, <1>7, <1>8, <1>9, <1>10, <1>11, <1>12, <1>13,
       <1>14, <1>15 DEF Next

\* Only the bank takes coins out of the proxy: those of the next message.
LEMMA OnlySendCoin ==
    ASSUME DebtInv, [Next]_vars, CoinsLeave
    PROVE  SendCoin
  <1>1. CASE Abort
    <2>1. \A d \in NativeDenoms :
              bank[d] \in Nat /\ bank'[d] \in Nat /\ bank[d] <= bank'[d]
      BY <1>1 DEF Abort, DebtInv, TypeOK, Balances
    <2> QED  BY <2>1 DEF CoinsLeave
  <1>2. ASSUME bank' = bank PROVE FALSE
    <2>1. \A d \in NativeDenoms : bank[d] \in Nat
      BY DEF DebtInv, TypeOK, Balances
    <2> QED  BY <1>2, <2>1 DEF CoinsLeave
  <1>3. ASSUME NEW s, NEW c, NEW rest, Handle(s, c, rest) PROVE FALSE
    BY <1>2, <1>3 DEF Handle
  <1>4. CASE Commit \/ Trade \/ Tick \/ FinishMsg \/ EndExecute \/ UNCHANGED vars
    BY <1>2, <1>4 DEF Commit, Trade, Tick, FinishMsg, EndExecute, vars
  <1>5. CASE RepayDebt \/ PassOwner \/ AdmitWallet \/ ChargeCoin \/ PassWallet
    BY <1>2, <1>5 DEF RepayDebt, PassOwner, AdmitWallet, ChargeCoin, PassWallet
  <1> QED  BY <1>1, <1>3, <1>4, <1>5 DEF Next, Submit, CallSelf, CallBack

\* Nothing is under way at first.
LEMMA InitDebt == Init => DebtInv
  <1> SUFFICES ASSUME Init PROVE DebtInv
    OBVIOUS
  <1>1. TypeOK /\ saved.bank = bank
    BY InitType DEF Init
  <1>2. \A d \in NativeDenoms : bank[d] <= saved.bank[d]
    BY <1>1 DEF TypeOK, Balances
  <1> QED  BY <1>1, <1>2 DEF Init, DebtInv, NoneBound, NotRunning

-----------------------------------------------------------------------------
(***************************************************************************)
(* The fee is conserved.  While it is neither owed nor paid, exactly one   *)
(* message carries it: in the response that is being made, or in the queue.*)
(***************************************************************************)
NoRepay(q) == \A n \in DOMAIN q : q[n].origin # "repay"

\* A bank message is never a call of the proxy to itself, which would take
\* the place of the payment.
Repayment(o, usd) == o.origin = "repay" /\ o.usd = usd /\ o.msg.kind = "bank_send"
OneRepay(q, usd) ==
    \E n \in DOMAIN q :
        Repayment(q[n], usd) /\ \A k \in DOMAIN q \ {n} : q[k].origin # "repay"

Settled(c, h) == h.fees.paid + h.fees.waived + c.uusd_fee_debt = h.fees.owed

\* The fee is on its way.
Underway(usd) ==
    /\ cfg.uusd_fee_debt = 0
    /\ hist.fees.paid + hist.fees.waived + usd = hist.fees.owed
    /\ \/ OneRepay(call.out, usd) /\ NoRepay(queue)
       \/ NoRepay(call.out) /\ OneRepay(queue, usd)

FeesInv ==
    /\ TypeOK
    /\ Settled(saved.cfg, saved.hist)
    /\ phase \in {"idle", "dispatch"} => call.out = << >>
    /\ phase = "idle" => queue = << >>
    /\ \/ Settled(cfg, hist) /\ NoRepay(call.out) /\ NoRepay(queue)
       \/ \E usd \in Uint128 : Underway(usd)

\* Repayments in two sequences that are put together.
LEMMA NoRepayConcat ==
    ASSUME NEW p \in Seq(Outgoing), NEW q \in Seq(Outgoing), NoRepay(p), NoRepay(q)
    PROVE  NoRepay(p \o q)
  BY ConcatElement DEF NoRepay

\* One repayment on either side is one in all.
LEMMA OneRepayConcat ==
    ASSUME NEW p \in Seq(Outgoing), NEW q \in Seq(Outgoing), NEW usd,
           \/ OneRepay(p, usd) /\ NoRepay(q)
           \/ NoRepay(p) /\ OneRepay(q, usd)
    PROVE  OneRepay(p \o q, usd)
  <1> DEFINE r == p \o q
  <1>1. /\ Len(p) \in Nat /\ Len(q) \in Nat
        /\ DOMAIN p = 1 .. Len(p) /\ DOMAIN q = 1 .. Len(q)
        /\ DOMAIN r = 1 .. Len(p) + Len(q)
        /\ \A n \in 1 .. Len(p) : r[n] = p[n]
        /\ \A n \in 1 .. Len(p) + Len(q) : n \notin 1 .. Len(p) =>
              n - Len(p) \in 1 .. Len(q) /\ r[n] = q[n - Len(p)]
    BY ConcatProperties
  <1> HIDE DEF r
  <1>2. CASE OneRepay(p, usd) /\ NoRepay(q)
    <2>1. PICK n \in DOMAIN p :
              Repayment(p[n], usd) /\ \A k \in DOMAIN p \ {n} : p[k].origin # "repay"
      BY <1>2 DEF OneRepay
    <2>2. n \in DOMAIN r /\ Repayment(r[n], usd)
      BY <1>1, <2>1
    <2>3. \A k \in DOMAIN r \ {n} : r[k].origin # "repay"
      BY <1>1, <1>2, <2>1 DEF NoRepay
    <2> QED  BY <2>2, <2>3 DEF OneRepay, r
  <1>3. CASE NoRepay(p) /\ OneRepay(q, usd)
    <2>1. PICK n \in DOMAIN q :
              Repayment(q[n], usd) /\ \A k \in DOMAIN q \ {n} : q[k].origin # "repay"
      BY <1>3 DEF OneRepay
    <2> DEFINE m == n + Len(p)
    <2>2. m \in DOMAIN r /\ m \notin 1 .. Len(p) /\ m - Len(p) = n
      BY <1>1, <2>1
    <2>3. Repayment(r[m], usd)
      BY <1>1, <2>1, <2>2
    <2>4. ASSUME NEW k \in DOMAIN r, k # m PROVE r[k].origin # "repay"
      <3>1. CASE k \in 1 .. Len(p)
        BY <1>1, <1>3, <3>1 DEF NoRepay
      <3>2. CASE k \notin 1 .. Len(p)
        <4>1. k - Len(p) \in DOMAIN q \ {n}
          BY <1>1, <2>1, <2>4, <3>2
        <4> QED  BY <1>1, <2>1, <3>2, <4>1
      <3> QED  BY <3>1, <3>2
    <2> HIDE DEF m
    <2> QED  BY <2>2, <2>3, <2>4 DEF OneRepay, r
  <1> QED  BY <1>2, <1>3

\* Repayments in a sequence with one more message.
LEMMA RepayAppend ==
    ASSUME NEW q \in Seq(Outgoing), NEW o \in Outgoing, o.origin # "repay", NEW usd
    PROVE  /\ NoRepay(q) => NoRepay(Append(q, o))
           /\ OneRepay(q, usd) => OneRepay(Append(q, o), usd)
  <1> DEFINE r == Append(q, o)
  <1>1. /\ DOMAIN r = 1 .. Len(q) + 1 /\ DOMAIN q = 1 .. Len(q) /\ Len(q) \in Nat
        /\ r[Len(q) + 1] = o /\ \A n \in 1 .. Len(q) : r[n] = q[n]
    BY AppendProperties
  <1> HIDE DEF r
  <1>2. NoRepay(q) => NoRepay(r)
    BY <1>1 DEF NoRepay
  <1>3. OneRepay(q, usd) => OneRepay(r, usd)
    <2> SUFFICES ASSUME OneRepay(q, usd) PROVE OneRepay(r, usd)
      OBVIOUS
    <2>1. PICK n \in DOMAIN q :
              Repayment(q[n], usd) /\ \A k \in DOMAIN q \ {n} : q[k].origin # "repay"
      BY DEF OneRepay
    <2>2. n \in DOMAIN r /\ Repayment(r[n], usd)
      BY <1>1, <2>1
    <2>3. \A k \in DOMAIN r \ {n} : r[k].origin # "repay"
      BY <1>1, <2>1
    <2> QED  BY <2>2, <2>3 DEF OneRepay
  <1> QED  BY <1>2, <1>3 DEF r

\* The payment is attached to a response without one.
LEMMA RepayAttached ==
    ASSUME NEW q \in Seq(Outgoing), NEW o \in Outgoing, NEW usd,
           Repayment(o, usd), NoRepay(q)
    PROVE  OneRepay(Append(q, o), usd)
  <1> DEFINE r == Append(q, o)
  <1>1. /\ DOMAIN r = 1 .. Len(q) + 1 /\ DOMAIN q = 1 .. Len(q) /\ Len(q) \in Nat
        /\ r[Len(q) + 1] = o /\ \A n \in 1 .. Len(q) : r[n] = q[n]
    BY AppendProperties
  <1> HIDE DEF r
  <1>2. Len(q) + 1 \in DOMAIN r /\ Repayment(r[Len(q) + 1], usd)
    BY <1>1
  <1>3. \A k \in DOMAIN r \ {Len(q) + 1} : r[k].origin # "repay"
    BY <1>1 DEF NoRepay
  <1>4. OneRepay(r, usd)
    BY <1>2, <1>3 DEF OneRepay
  <1> QED  BY <1>4 DEF r

\* The first message is done.
LEMMA RepayTail ==
    ASSUME NEW q \in Seq(Outgoing), q # << >>, NEW usd
    PROVE  /\ NoRepay(q) => NoRepay(Tail(q)) /\ Head(q).origin # "repay"
           /\ OneRepay(q, usd) =>
                 \/ Repayment(Head(q), usd) /\ NoRepay(Tail(q))
                 \/ Head(q).origin # "repay" /\ OneRepay(Tail(q), usd)
  <1>1. /\ Len(q) \in Nat \ {0} /\ DOMAIN q = 1 .. Len(q) /\ Head(q) = q[1]
        /\ DOMAIN Tail(q) = 1 .. Len(q) - 1
        /\ \A n \in 1 .. Len(q) - 1 : Tail(q)[n] = q[n + 1]
    BY HeadTailProperties
  <1>2. NoRepay(q) => NoRepay(Tail(q)) /\ Head(q).origin # "repay"
    BY <1>1 DEF NoRepay
  <1>3. ASSUME OneRepay(q, usd)
        PROVE  \/ Repayment(Head(q), usd) /\ NoRepay(Tail(q))
               \/ Head(q).origin # "repay" /\ OneRepay(Tail(q), usd)
    <2>1. PICK n \in DOMAIN q :
              Repayment(q[n], usd) /\ \A k \in DOMAIN q \ {n} : q[k].origin # "repay"
      BY <1>3 DEF OneRepay
    <2>2. CASE n = 1
      BY <1>1, <2>1, <2>2 DEF NoRepay
    <2>3. CASE n # 1
      <3>1. n - 1 \in DOMAIN Tail(q) /\ Tail(q)[n - 1] = q[n]
        BY <1>1, <2>1, <2>3
      <3>2. \A k \in DOMAIN Tail(q) \ {n - 1} : Tail(q)[k].origin # "repay"
        BY <1>1, <2>1
      <3>3. Head(q).origin # "repay"
        BY <1>1, <2>1, <2>3
      <3> QED  BY <2>1, <3>1, <3>2, <3>3 DEF OneRepay
    <2> QED  BY <2>2, <2>3
  <1> QED  BY <1>2, <1>3

\* A handler returns no payment and drops none.
LEMMA HandleFees ==
    ASSUME FeesInv, TypeOK', NEW s, NEW c \in Calls, NEW rest, rest \in Seq(Outgoing),
           phase \in {"idle", "dispatch"}, Handle(s, c, rest),
           NoRepay(queue) => NoRepay(rest),
           \A usd \in Uint128 : OneRepay(queue, usd) => OneRepay(rest, usd)
    PROVE  FeesInv'
  <1>1. cfg \in State /\ hist \in History /\ call.out = << >>
    BY DEF FeesInv, TypeOK
  <1>2. PICK out : Returned(out) /\ queue' = out \o rest
    BY <1>1, HandleOut
  <1>3. /\ cfg'.uusd_fee_debt = cfg.uusd_fee_debt /\ call'.out = << >>
        /\ hist'.fees = hist.fees /\ phase' \in {"check", "dispatch"} /\ saved' = saved
    BY <1>1, HandleOut DEF Handle
  <1>4. out \in Seq(Outgoing) /\ NoRepay(out) /\ NoRepay(<< >>)
    <2>1. \A n \in DOMAIN out : out[n].origin = "owner" \/ out[n].origin = "token"
      BY <1>2 DEF Returned
    <2> QED  BY <1>2, <2>1 DEF Returned, NoRepay
  <1>5. CASE Settled(cfg, hist) /\ NoRepay(queue)
    <2>1. NoRepay(queue') /\ Settled(cfg', hist')
      BY <1>2, <1>3, <1>4, <1>5, NoRepayConcat DEF Settled
    <2> QED  BY <1>3, <1>4, <2>1 DEF FeesInv
  <1>6. ASSUME NEW usd \in Uint128, Underway(usd) PROVE FeesInv'
    <2>1. OneRepay(rest, usd)
      <3>1. ~OneRepay(<< >>, usd)
        BY DEF OneRepay
      <3> QED  BY <1>1, <1>6, <3>1 DEF Underway
    <2>2. OneRepay(queue', usd)
      BY <1>2, <1>4, <2>1, OneRepayConcat
    <2>3. Underway(usd)'
      BY <1>3, <1>4, <1>6, <2>2 DEF Underway
    <2> QED  BY <1>3, <2>3 DEF FeesInv
  <1> QED  BY <1>5, <1>6 DEF FeesInv

\* A step that changes neither the books of the fee nor the messages.
LEMMA SameFees ==
    ASSUME FeesInv, TypeOK', phase' = phase, call'.out = call.out, queue' = queue,
           cfg'.uusd_fee_debt = cfg.uusd_fee_debt, hist'.fees = hist.fees, saved' = saved
    PROVE  FeesInv'
  <1>1. Settled(cfg, hist) => Settled(cfg', hist')
    BY DEF Settled
  <1>2. \A usd \in Uint128 : Underway(usd) => Underway(usd)'
    BY DEF Underway
  <1> QED  BY <1>1, <1>2 DEF FeesInv

\* A message that is passed on is no payment.
LEMMA NextMsgFees ==
    ASSUME FeesInv, TypeOK', call.msgs # << >>, NEW origin \in Origins \ {"repay"},
           NextMsg(origin), phase = "check" \/ phase = "charge", phase' = "check",
           UNCHANGED <<cfg, queue, hist, saved>>
    PROVE  FeesInv'
  <1> DEFINE o == Out(Head(call.msgs), origin, 0)
  <1>1. call.out \in Seq(Outgoing) /\ Head(call.msgs) \in Message
    BY HeadTailProperties DEF FeesInv, TypeOK, Running
  <1>2. o \in Outgoing /\ o.origin # "repay"
    BY <1>1, OutType, ZeroType DEF Out
  <1>3. call'.out = call.out \/ call'.out = Append(call.out, o)
    BY DEF NextMsg, FeesInv, TypeOK, Running
  <1> HIDE DEF o
  <1>4. NoRepay(call.out) => NoRepay(call'.out)
    BY <1>1, <1>2, <1>3, RepayAppend
  <1>5. \A usd \in Uint128 : OneRepay(call.out, usd) => OneRepay(call'.out, usd)
    BY <1>1, <1>2, <1>3, RepayAppend
  <1>6. \A usd \in Uint128 : Underway(usd) => Underway(usd)'
    BY <1>4, <1>5 DEF Underway
  <1> QED  BY <1>4, <1>6 DEF FeesInv, Settled

\* The amounts that are added up.
LEMMA FeesType ==
    ASSUME TypeOK
    PROVE  /\ cfg.uusd_fee_debt \in Uint128 /\ cfg.uusd_fee_debt \in Nat
           /\ hist.fees \in [owed : Uint128, paid : Nat, waived : Nat]
           /\ hist.fees.owed \in Nat
  <1>1. cfg.uusd_fee_debt \in Uint128
    BY DEF TypeOK, State
  <1>2. hist.fees \in [owed : Uint128, paid : Nat, waived : Nat]
    BY DEF TypeOK, History
  <1> QED  BY <1>1, <1>2, PricingAssumption DEF Uint128

\* The repayment is a message.
LEMMA RepayOutType ==
    ASSUME TypeOK, call.msgs # << >>,
           NEW coin \in RepayCoins(MsgFunds(Head(call.msgs)))
    PROVE  Out(RepayMsg(coin), "repay", cfg.uusd_fee_debt) \in Outgoing
  <1>1. Head(call.msgs) \in Message /\ cfg.uusd_fee_debt \in Uint128
    BY HeadTailProperties, FeesType DEF TypeOK, Running
  <1>2. coin \in Coin
    BY <1>1, MsgFundsType, RepayCoinsType DEF TypeOK
  <1>3. RepayMsg(coin) \in Message
    BY <1>2, ZeroType, ObiProxyAssumption DEF RepayMsg, Message, MsgKinds, BankKinds
  <1> QED  BY <1>1, <1>3, OutType DEF Origins

\* The debt becomes a payment, or is waived by a simulation.
LEMMA RepayDebtFees ==
    ASSUME FeesInv, TypeOK', RepayDebt PROVE FeesInv'
  <1>0. PICK debt : debt = cfg.uusd_fee_debt
    OBVIOUS
  <1>1. /\ debt \in Uint128 /\ debt \in Nat
        /\ hist.fees \in [owed : Uint128, paid : Nat, waived : Nat]
    BY <1>0, FeesType DEF FeesInv
  <1>2. /\ debt # 0 /\ cfg' = [cfg EXCEPT !.uusd_fee_debt = 0]
        /\ phase = "check" /\ phase' = phase /\ UNCHANGED <<queue, saved>>
    BY <1>0 DEF RepayDebt
  <1>3. cfg'.uusd_fee_debt = 0
    BY <1>2 DEF FeesInv, TypeOK, State
  <1>4. Settled(cfg, hist) /\ NoRepay(call.out) /\ NoRepay(queue)
    BY <1>0, <1>2 DEF FeesInv, Underway
  <1>5. CASE call.sim
    <2>1. call' = call /\ hist' = [hist EXCEPT !.fees.waived = @ + debt]
      BY <1>0, <1>5 DEF RepayDebt
    <2>2. hist'.fees = [hist.fees EXCEPT !.waived = @ + debt]
      BY <2>1 DEF FeesInv, TypeOK, History
    <2>3. Settled(cfg', hist')
      BY <1>0, <1>1, <1>3, <1>4, <2>2 DEF Settled
    <2> QED  BY <1>2, <1>4, <2>1, <2>3 DEF FeesInv
  <1>6. CASE ~call.sim
    <2>1. PICK coin \in RepayCoins(MsgFunds(Head(call.msgs))) :
              call' = [call EXCEPT !.out = Append(@, Out(RepayMsg(coin), "repay", debt))]
      BY <1>0, <1>6 DEF RepayDebt
    <2>2. hist' = hist
      BY <1>6 DEF RepayDebt
    <2> DEFINE o == Out(RepayMsg(coin), "repay", debt)
    <2>3. call.out \in Seq(Outgoing) /\ call'.out = Append(call.out, o)
      BY <2>1 DEF FeesInv, TypeOK, Running
    <2>4. o \in Outgoing
      BY <1>0, <2>1, RepayOutType DEF FeesInv, RepayDebt
    <2>5. Repayment(o, debt)
      BY DEF Repayment, Out, RepayMsg
    <2> HIDE DEF o
    <2>6. OneRepay(call'.out, debt)
      BY <1>4, <2>3, <2>4, <2>5, RepayAttached
    <2>7. hist'.fees.paid + hist'.fees.waived + debt = hist'.fees.owed
      BY <1>0, <1>4, <2>2 DEF Settled
    <2>8. Underway(debt)'
      BY <1>2, <1>3, <1>4, <2>6, <2>7 DEF Underway
    <2> QED  BY <1>1, <1>2, <2>8 DEF FeesInv
  <1> QED  BY <1>5, <1>6

\* The response joins the queue.
LEMMA EndExecuteFees ==
    ASSUME FeesInv, TypeOK', EndExecute PROVE FeesInv'
  <1>1. /\ call.out \in Seq(Outgoing) /\ queue \in Seq(Outgoing)
        /\ queue' = call.out \o queue /\ call'.out = << >> /\ phase' = "dispatch"
        /\ UNCHANGED <<cfg, hist, saved>>
    BY DEF EndExecute, Return, NotRunning, FeesInv, TypeOK, Running
  <1>2. NoRepay(call'.out)
    BY <1>1 DEF NoRepay
  <1>3. CASE Settled(cfg, hist) /\ NoRepay(call.out) /\ NoRepay(queue)
    BY <1>1, <1>2, <1>3, NoRepayConcat DEF FeesInv
  <1>4. ASSUME NEW usd \in Uint128, Underway(usd) PROVE FeesInv'
    <2>1. OneRepay(queue', usd)
      BY <1>1, <1>4, OneRepayConcat DEF Underway
    <2>2. Underway(usd)'
      BY <1>1, <1>2, <1>4, <2>1 DEF Underway
    <2> QED  BY <1>1, <2>2 DEF FeesInv
  <1> QED  BY <1>3, <1>4 DEF FeesInv

\* Coins leave one by one; the message stays what it is.
LEMMA SendCoinFees ==
    ASSUME FeesInv, TypeOK', SendCoin PROVE FeesInv'
  <1>1. /\ 1 \in DOMAIN queue /\ queue[1] \in Outgoing /\ queue \in Seq(Outgoing)
    BY NextOutType DEF SendCoin, FeesInv, TypeOK
  <1>2. /\ queue' = [queue EXCEPT ![1].msg.funds = Tail(@)]
        /\ UNCHANGED <<cfg, hist, phase, call, saved>> /\ phase = "dispatch"
    BY DEF SendCoin, Dispatching
  <1>3. /\ DOMAIN queue' = DOMAIN queue
        /\ \A n \in DOMAIN queue : queue'[n].origin = queue[n].origin
                                   /\ queue'[n].usd = queue[n].usd
                                   /\ queue'[n].msg.kind = queue[n].msg.kind
    BY <1>1, <1>2 DEF Outgoing, Message
  <1>4. /\ NoRepay(queue) => NoRepay(queue')
        /\ \A usd \in Uint128 : OneRepay(queue, usd) => OneRepay(queue', usd)
    BY <1>3 DEF NoRepay, OneRepay, Repayment
  <1>5. \A usd \in Uint128 : Underway(usd) => Underway(usd)'
    BY <1>2, <1>4 DEF Underway
  <1> QED  BY <1>2, <1>4, <1>5 DEF FeesInv

\* The payment is made.
LEMMA FinishMsgFees ==
    ASSUME FeesInv, TypeOK', FinishMsg PROVE FeesInv'
  <1>1. /\ queue \in Seq(Outgoing) /\ queue # << >> /\ Head(queue) \in Outgoing
        /\ call.out = << >>
    BY NextOutType DEF FinishMsg, Sent, Dispatching, FeesInv, TypeOK
  <1>2. /\ queue' = Tail(queue) /\ UNCHANGED <<cfg, phase, call, saved>> /\ phase = "dispatch"
        /\ hist' = IF Head(queue).origin = "repay"
                   THEN [hist EXCEPT !.fees.paid = @ + Head(queue).usd] ELSE hist
    BY DEF FinishMsg, Sent, Dispatching
  <1>3. CASE Settled(cfg, hist) /\ NoRepay(call.out) /\ NoRepay(queue)
    <2>1. NoRepay(queue') /\ hist' = hist
      BY <1>1, <1>2, <1>3, RepayTail
    <2> QED  BY <1>2, <1>3, <2>1 DEF FeesInv
  <1>4. ASSUME NEW usd \in Uint128, Underway(usd) PROVE FeesInv'
    <2>1. NoRepay(call.out) /\ OneRepay(queue, usd)
      <3>1. ~OneRepay(<< >>, usd)
        BY DEF OneRepay
      <3> QED  BY <1>1, <1>4, <3>1 DEF Underway
    <2>2. CASE Repayment(Head(queue), usd) /\ NoRepay(Tail(queue))
      <3>1. hist' = [hist EXCEPT !.fees.paid = @ + usd]
        BY <1>2, <2>2 DEF Repayment
      <3>2. hist'.fees = [hist.fees EXCEPT !.paid = @ + usd]
        BY <3>1 DEF FeesInv, TypeOK, History
      <3>3. /\ hist.fees \in [owed : Uint128, paid : Nat, waived : Nat]
            /\ hist.fees.owed \in Nat /\ usd \in Nat
        BY FeesType, PricingAssumption DEF FeesInv, Uint128
      <3>4. Settled(cfg', hist')
        BY <1>2, <1>4, <3>2, <3>3 DEF Settled, Underway
      <3> QED  BY <1>2, <2>1, <2>2, <3>4 DEF FeesInv
    <2>3. CASE Head(queue).origin # "repay" /\ OneRepay(Tail(queue), usd)
      <3>1. hist' = hist
        BY <1>2, <2>3
      <3>2. Underway(usd)'
        BY <1>2, <1>4, <2>1, <2>3, <3>1 DEF Underway
      <3> QED  BY <1>2, <3>2 DEF FeesInv
    <2> QED  BY <1>1, <2>1, <2>2, <2>3, RepayTail
  <1> QED  BY <1>3, <1>4 DEF FeesInv

\* Every step keeps the fee accounted for.
LEMMA NextFees == FeesInv /\ [Next]_vars => FeesInv'
  <1> SUFFICES ASSUME FeesInv, [Next]_vars PROVE FeesInv'
    OBVIOUS
  <1>1. TypeOK' /\ TypeOK /\ queue \in Seq(Outgoing)
    BY NextType DEF FeesInv, TypeOK
  <1>2. ASSUME NEW s, NEW c \in Calls, Submit(s, c) PROVE FeesInv'
    <2>1. queue = << >> /\ << >> \in Seq(Outgoing)
      BY <1>2 DEF Submit, FeesInv
    <2> QED  BY <1>1, <1>2, <2>1, HandleFees DEF Submit
  <1>3. ASSUME NEW s, NEW c \in Calls, CallBack(s, c) PROVE FeesInv'
    BY <1>1, <1>3, HandleFees DEF CallBack, Sent, Dispatching
  <1>4. CASE CallSelf
    <2>1. /\ NextOut.inner \in Calls /\ Tail(queue) \in Seq(Outgoing)
          /\ queue # << >> /\ phase = "dispatch"
      BY <1>1, <1>4, NextOutType DEF CallSelf, Sent, Message, Dispatching
    <2>2. Handle(Proxy, NextOut.inner, Tail(queue)) /\ Head(queue).msg.kind = "wasm_execute"
      BY <1>4 DEF CallSelf, Calling, NextOut
    <2>3. NoRepay(queue) => NoRepay(Tail(queue))
      BY <1>1, <2>1, RepayTail
    <2>4. \A usd \in Uint128 : OneRepay(queue, usd) => OneRepay(Tail(queue), usd)
      BY <1>1, <2>1, <2>2, RepayTail DEF Repayment
    <2> QED  BY <1>1, <2>1, <2>2, <2>3, <2>4, HandleFees
  <1>5. CASE RepayDebt
    BY <1>1, <1>5, RepayDebtFees
  <1>6. CASE PassOwner
    BY <1>1, <1>6, NextMsgFees DEF PassOwner, Origins
  <1>7. CASE AdmitWallet
    <2>1. /\ cfg'.uusd_fee_debt = cfg.uusd_fee_debt /\ hist'.fees = hist.fees
          /\ call'.out = call.out /\ UNCHANGED <<queue, saved>>
      <3>1. call'.out = call.out /\ UNCHANGED <<queue, saved>>
        BY <1>1, <1>7 DEF AdmitWallet, TypeOK, Running
      <3> QED  BY <1>1, <1>7, <3>1, AdmittedWallet DEF TypeOK, State, History
    <2>2. phase = "check" /\ phase' = "charge"
      BY <1>7 DEF AdmitWallet
    <2>3. Settled(cfg, hist) => Settled(cfg', hist')
      BY <2>1 DEF Settled
    <2>4. \A usd \in Uint128 : Underway(usd) => Underway(usd)'
      BY <2>1 DEF Underway
    <2> QED  BY <1>1, <2>1, <2>2, <2>3, <2>4 DEF FeesInv
  <1>8. CASE ChargeCoin
    <2>1. call'.out = call.out /\ UNCHANGED <<phase, queue, saved>>
      BY <1>1, <1>8 DEF ChargeCoin, TypeOK, Running
    <2>2. cfg'.uusd_fee_debt = cfg.uusd_fee_debt /\ hist'.fees = hist.fees
      BY <1>1, <1>8, ChargedWallet DEF TypeOK, State, History
    <2> QED  BY <1>1, <2>1, <2>2, SameFees
  <1>9. CASE PassWallet
    BY <1>1, <1>9, NextMsgFees DEF PassWallet, Origins, FeesInv, TypeOK
  <1>10. CASE EndExecute
    BY <1>1, <1>10, EndExecuteFees
  <1>11. CASE SendCoin
    BY <1>1, <1>11, SendCoinFees
  <1>12. CASE FinishMsg
    BY <1>1, <1>12, FinishMsgFees
  <1>13. CASE Commit
    <2>1. /\ UNCHANGED <<cfg, call, queue, hist>> /\ saved'.cfg = cfg /\ saved'.hist = hist
          /\ queue = << >> /\ phase = "dispatch"
      BY <1>13 DEF Commit
    <2>2. \A usd \in Uint128 : ~Underway(usd)
      BY <2>1 DEF FeesInv, Underway, OneRepay
    <2> QED  BY <1>1, <2>1, <2>2 DEF FeesInv
  <1>14. CASE Abort
    BY <1>1, <1>14 DEF Abort, FeesInv, NoRepay, NotRunning
  <1>15. CASE Trade \/ Tick \/ UNCHANGED vars
    BY <1>1, <1>15, SameFees DEF Trade, Tick, vars
  <1> QED
    BY <1>2, <1>3, <1>4, <1>5, <1>6, <1>7, <1>8, <1>9, <1>10, <1>11, <1>12, <1>13,
       <1>14, <1>15 DEF Next

\* At first the fee of instantiate is owed, and nothing waits.
LEMMA InitFees == Init => FeesInv
  <1> SUFFICES ASSUME Init PROVE FeesInv
    OBVIOUS
  <1>1. TypeOK /\ NoRepay(<< >>) /\ hist.fees = NewHistory(cfg).fees
    BY InitType DEF Init, NoRepay
  <1>2. Settled(cfg, hist)
    BY <1>1, FeesType DEF Settled, NewHistory
  <1> QED  BY <1>1, <1>2 DEF Init, FeesInv, NotRunning

\* No transaction, whatever it nests and wherever it fails, loses the fee,
\* pays it twice or pays a part of it: it is owed, paid, or was waived by a
\* simulation.  (try_repay_debt.)
THEOREM FeeIsConserved == Spec => []FeesConserved
  <1>1. FeesInv => FeesConserved
    <2> SUFFICES ASSUME FeesInv, phase = "idle" PROVE Settled(cfg, hist)
      BY DEF FeesConserved, Settled
    <2>1. \A usd \in Uint128 : ~Underway(usd)
      BY DEF FeesInv, Underway, OneRepay
    <2> QED  BY <2>1 DEF FeesInv
  <1> QED  BY <1>1, InitFees, NextFees, PTL DEF Spec

\* Nothing that has to wait for the fee leaves before the fee is paid, waived or
\* carried in full by a message behind it: not by a transfer, nor at the wish of
\* an owner out of debt, however calls, simulations, nested handlers and failures
\* follow each other.  (check_coins before everything that spends.)
THEOREM DebtComesFirst == Spec => DebtFirst
  <1> DEFINE Leaves == (CoinsLeave \/ FinishMsg) /\ AfterTheFee(Head(queue))
  <1>1. DebtInv /\ FeesInv /\ [Next]_vars => [Leaves => FeeSecured]_vars
    <2> SUFFICES ASSUME DebtInv, FeesInv, [Next]_vars, Leaves PROVE FeeSecured
      OBVIOUS
    <2>1. phase = "dispatch" /\ queue # << >>
      BY OnlySendCoin DEF SendCoin, FinishMsg, Sent, Dispatching
    <2>2. 1 \in DOMAIN queue /\ Head(queue) = queue[1]
      BY <2>1, HeadTailProperties DEF FeesInv, TypeOK
    <2>3. cfg.uusd_fee_debt = 0
      BY <2>2 DEF DebtInv, NoneBound
    <2>4. CASE Settled(cfg, hist)
      <3>1. hist.fees.paid + hist.fees.waived \in Nat
        BY FeesType DEF FeesInv
      <3> QED  BY <2>3, <2>4, <3>1 DEF Settled, FeeSecured
    <2>5. ASSUME NEW usd \in Uint128, Underway(usd) PROVE FeeSecured
      <3>1. ~OneRepay(<< >>, usd) /\ call.out = << >>
        BY <2>1 DEF OneRepay, FeesInv
      <3>2. OneRepay(queue, usd)
        BY <2>5, <3>1 DEF Underway
      <3>3. PICK n \in DOMAIN queue : Repayment(queue[n], usd)
        BY <3>2 DEF OneRepay
      <3> QED  BY <2>5, <3>3 DEF Repayment, Underway, FeeSecured
    <2> QED  BY <2>4, <2>5 DEF FeesInv
  <1> QED  BY <1>1, InitDebt, NextDebt, InitFees, NextFees, PTL DEF Spec, DebtFirst, Leaves

-----------------------------------------------------------------------------
(***************************************************************************)
(* Prices.                                                                 *)
(***************************************************************************)
\* An answer that is understood comes from a pair of JunoType: a pair of
\* LoopType answers in a shape nobody asks for.
LEMMA UnderstoodAnswer ==
    ASSUME NEW m \in Markets, NEW n \in DOMAIN PairContracts, NEW amount \in Uint128,
           NEW flip \in BOOLEAN,
           QueryContract(m, PairContracts[n], amount, flip) # {},
           PairContracts[n].format \in {"LoopType", "JunoType"}
    PROVE  PairContracts[n].format = "JunoType"
  <1> DEFINE query == DexQuery(PairContracts[n], amount, flip)
  <1>1. Dex(m, PairContracts[n], query).shape \in {"error", AnswerShape(query.type)}
    BY ExchangeAssumption
  <1>2. Dex(m, PairContracts[n], query).shape = ExpectedShape(flip)
    BY DEF QueryContract
  <1>3. query.type = QueryType(PairContracts[n].format, flip)
    BY DEF DexQuery
  <1> HIDE DEF query
  <1> QED  BY <1>1, <1>2, <1>3 DEF QueryType, AnswerShape, ExpectedShape

\* The code knows two formats of pairs.
LEMMA PairFormat ==
    ASSUME NEW n \in DOMAIN PairContracts
    PROVE  PairContracts[n].format \in {"LoopType", "JunoType"}
  <1>1. PairContracts \in {PairsFor("ujuno"), PairsFor("ujunox"),
                           PairsFor("testtokens"), << >>}
    BY PricingAssumption DEF PairContracts, Networks
  <1>2. ASSUME NEW native, PairContracts = PairsFor(native)
        PROVE  PairContracts[n].format \in {"LoopType", "JunoType"}
    BY <1>2 DEF PairsFor
  <1>3. PairContracts # << >>
    OBVIOUS
  <1> QED  BY <1>1, <1>2, <1>3

\* On every network and whatever the exchanges answer, an amount that is taken
\* for USDC is labelled as USDC: a pair that would be mislabelled never gives
\* a price.  (create_query_msg and process_query.)
THEOREM EveryPriceInUsdc == Spec => []PricesInUsdc
  <1>1. ASSUME market \in Markets, NEW d \in Denom,
               NEW usd \in ToUsdc(market, [denom |-> d, amount |-> 1])
        PROVE  usd.denom = USDC
    <2>1. CASE d = USDC
      BY <2>1 DEF ToUsdc
    <2>2. CASE d # USDC
      <3>0. 1 \in Uint128
        <4>1. MaxUint128 \in Nat \ {0}
          BY PricingAssumption
        <4> QED  BY <4>1 DEF Uint128
      <3>1. usd \in Simulate(market, d, USDC, 1, FALSE)
        BY <2>2 DEF ToUsdc
      <3> DEFINE reverse(p) == ~(p.denom1 = d /\ p.denom2 = USDC)
      <3>2. PICK n \in FirstPair(d, USDC) :
                usd \in QueryContract(market, PairContracts[n], 1,
                                      FlipAssets(reverse(PairContracts[n]), FALSE, FALSE))
        BY <3>1 DEF Simulate
      <3>3. PICK p : p = PairContracts[n]
        OBVIOUS
      <3>4. FlipAssets(reverse(p), FALSE, FALSE) = reverse(p) /\ reverse(p) \in BOOLEAN
        BY DEF FlipAssets
      <3>5. usd \in QueryContract(market, p, 1, reverse(p))
        BY <3>2, <3>3, <3>4
      <3>6. n \in DOMAIN PairContracts /\ Joins(p, d, USDC)
        BY <3>3 DEF FirstPair
      <3>7. p.format = "JunoType"
        BY <1>1, <3>0, <3>3, <3>4, <3>5, <3>6, PairFormat, UnderstoodAnswer
      <3>8. usd.denom = ResponseAsset(p, reverse(p))
        BY <3>5 DEF QueryContract
      <3> QED  BY <3>6, <3>7, <3>8 DEF ResponseAsset, Joins
    <2> QED  BY <2>1, <2>2
  <1>2. TypeOK => PricesInUsdc
    BY <1>1 DEF TypeOK, PricesInUsdc
  <1> QED  BY <1>2, TypeCorrect, PTL

\* The pairs that answer join a native denom with USDC, in this order.
LEMMA JunoPair ==
    ASSUME NEW n \in DOMAIN PairContracts, PairContracts[n].format = "JunoType"
    PROVE  /\ PairContracts[n].denom1 \in RepayableDenoms
           /\ PairContracts[n].denom2 = USDC
  <1>1. PairContracts \in {PairsFor("ujuno"), PairsFor("ujunox"),
                           PairsFor("testtokens"), << >>}
    BY PricingAssumption DEF PairContracts, Networks
  <1>2. ASSUME NEW native \in RepayableDenoms, PairContracts = PairsFor(native)
        PROVE  /\ PairContracts[n].denom1 \in RepayableDenoms
               /\ PairContracts[n].denom2 = USDC
    BY <1>2 DEF PairsFor
  <1>3. PairContracts # << >>
    OBVIOUS
  <1> QED  BY <1>1, <1>2, <1>3 DEF RepayableDenoms

\* Two denoms are joined by one first pair, from whichever side one looks.
LEMMA FirstPairUnique ==
    ASSUME NEW from, NEW to, NEW m \in FirstPair(from, to), NEW n \in FirstPair(to, from)
    PROVE  m = n
  <1>1. PairContracts \in {PairsFor("ujuno"), PairsFor("ujunox"),
                           PairsFor("testtokens"), << >>}
    BY PricingAssumption DEF PairContracts, Networks
  <1>2. DOMAIN PairContracts \subseteq {1, 2, 3}
    BY <1>1 DEF PairsFor
  <1>3. m \in {1, 2, 3} /\ n \in {1, 2, 3} /\ m \in DOMAIN PairContracts
        /\ n \in DOMAIN PairContracts
    BY <1>2 DEF FirstPair
  <1>4. Joins(PairContracts[m], to, from) /\ Joins(PairContracts[n], from, to)
    BY DEF FirstPair, Joins
  <1>5. ~(m \in 1 .. n - 1) /\ ~(n \in 1 .. m - 1)
    BY <1>4 DEF FirstPair
  <1> QED  BY <1>3, <1>5

\* What repays a debt is what the first pair asks for it, and what it is worth
\* is what the same pair offers for it.
LEMMA RepaymentAsked ==
    ASSUME NEW m \in Markets, NEW debt \in Uint128, NEW denom \in RepayableDenoms,
           denom # USDC, NEW coin \in DebtInAsset(m, debt, denom)
    PROVE  \E n \in DOMAIN PairContracts :
              LET p == PairContracts[n]
              IN  /\ p.format = "JunoType"
                  /\ Asked(m, p, debt).shape = "token1_amount"
                  /\ coin = [denom |-> denom, amount |-> Asked(m, p, debt).amount]
                  /\ \A amount : ToUsdc(m, [denom |-> denom, amount |-> amount]) =
                        LET offer == Offered(m, p, amount)
                        IN  IF offer.shape = "token2_amount"
                            THEN {[denom |-> USDC, amount |-> offer.amount]} ELSE {}
  <1>1. coin \in Simulate(m, USDC, denom, debt, TRUE)
    BY DEF DebtInAsset
  <1> DEFINE reverse(p) == ~(p.denom1 = USDC /\ p.denom2 = denom)
  <1>2. PICK n \in FirstPair(USDC, denom) :
            coin \in QueryContract(m, PairContracts[n], debt,
                                   FlipAssets(reverse(PairContracts[n]), TRUE, TRUE))
    BY <1>1 DEF Simulate
  <1>3. n \in DOMAIN PairContracts /\ Joins(PairContracts[n], USDC, denom)
    BY DEF FirstPair
  <1>4. PICK p : p = PairContracts[n]
    OBVIOUS
  <1>5. FlipAssets(reverse(p), TRUE, TRUE) = reverse(p) /\ reverse(p) \in BOOLEAN
    BY DEF FlipAssets
  <1>6. p.format = "JunoType"
    BY <1>2, <1>3, <1>4, <1>5, PairFormat, UnderstoodAnswer
  <1>7. p.denom1 = denom /\ p.denom2 = USDC
    BY <1>3, <1>4, <1>6, JunoPair DEF Joins
  <1>8. reverse(p) = TRUE
    BY <1>7
  <1>9. coin \in QueryContract(m, p, debt, TRUE)
    BY <1>2, <1>4, <1>5, <1>8
  <1>10. /\ Asked(m, p, debt).shape = "token1_amount"
         /\ coin = [denom |-> denom, amount |-> Asked(m, p, debt).amount]
    BY <1>6, <1>7, <1>9 DEF QueryContract, Asked, ExpectedShape, ResponseAsset
  <1>11. ASSUME NEW amount
         PROVE  ToUsdc(m, [denom |-> denom, amount |-> amount]) =
                   QueryContract(m, p, amount, FALSE)
    <2>1. ToUsdc(m, [denom |-> denom, amount |-> amount])
            = Simulate(m, denom, USDC, amount, FALSE)
      BY DEF ToUsdc
    <2>2. n \in FirstPair(denom, USDC)
      BY DEF FirstPair, Joins
    <2>3. FirstPair(denom, USDC) = {n}
      BY <2>2, FirstPairUnique
    <2>4. FlipAssets(~(p.denom1 = denom /\ p.denom2 = USDC), FALSE, FALSE) = FALSE
      BY <1>7 DEF FlipAssets
    <2>5. Simulate(m, denom, USDC, amount, FALSE) = QueryContract(m, p, amount, FALSE)
      BY <1>4, <2>3, <2>4 DEF Simulate
    <2> QED  BY <2>1, <2>5
  <1>12. ASSUME NEW amount
         PROVE  QueryContract(m, p, amount, FALSE) =
                   LET offer == Offered(m, p, amount)
                   IN  IF offer.shape = "token2_amount"
                       THEN {[denom |-> USDC, amount |-> offer.amount]} ELSE {}
    BY <1>7 DEF QueryContract, Offered, ExpectedShape, ResponseAsset
  <1> QED  BY <1>3, <1>4, <1>6, <1>10, <1>11, <1>12

\* It is not worth more than the debt.
LEMMA RepaymentWorth ==
    ASSUME NoRoundTripGain, NEW m \in Markets, NEW debt \in Uint128, NEW denom,
           NEW coin \in DebtInAsset(m, debt, denom)
    PROVE  \A price \in ToUsdc(m, coin) : price.amount <= debt
  <1>1. debt \in Nat
    BY PricingAssumption DEF Uint128
  <1>2. CASE denom = USDC
    <2>1. coin = [denom |-> USDC, amount |-> debt]
      BY <1>2 DEF DebtInAsset
    <2>2. ToUsdc(m, coin) = {coin}
      BY <2>1 DEF ToUsdc
    <2> QED  BY <1>1, <2>1, <2>2
  <1>3. CASE denom # USDC
    <2>1. denom \in RepayableDenoms
      BY <1>3 DEF DebtInAsset
    <2>2. PICK n \in DOMAIN PairContracts :
              LET p == PairContracts[n]
              IN  /\ p.format = "JunoType"
                  /\ Asked(m, p, debt).shape = "token1_amount"
                  /\ coin = [denom |-> denom, amount |-> Asked(m, p, debt).amount]
                  /\ \A amount : ToUsdc(m, [denom |-> denom, amount |-> amount]) =
                        LET offer == Offered(m, p, amount)
                        IN  IF offer.shape = "token2_amount"
                            THEN {[denom |-> USDC, amount |-> offer.amount]} ELSE {}
      BY <1>3, <2>1, RepaymentAsked
    <2>3. PICK p, a : p = PairContracts[n] /\ a = Asked(m, p, debt).amount
      OBVIOUS
    <2>4. ToUsdc(m, coin) =
             IF Offered(m, p, a).shape = "token2_amount"
             THEN {[denom |-> USDC, amount |-> Offered(m, p, a).amount]} ELSE {}
      BY <2>2, <2>3
    <2>5. Offered(m, p, a).shape = "token2_amount" => Offered(m, p, a).amount <= debt
      BY <2>2, <2>3 DEF NoRoundTripGain
    <2> QED  BY <2>4, <2>5
  <1> QED  BY <1>2, <1>3

\* Where nothing is gained by a round trip at an exchange, the coin that repays
\* the debt is worth no more than the debt when it is attached, on every network
\* and for every debt: the three booleans turn the conversion the right way.
\* (convert_debt_to_asset_spent, get_converted_to_usdc and query_contract.)
THEOREM NothingIsOverpaid ==
    ASSUME NoRoundTripGain PROVE Spec => NotOverpaid
  <1> DEFINE last == call'.out[Len(call'.out)]
  <1> DEFINE Fair == \A price \in ToUsdc(market, last.msg.funds[1]) : price.amount <= last.usd
  <1>1. ASSUME TypeOK, RepayDebt, ~call.sim PROVE Fair
    <2>1. PICK coin \in RepayCoins(MsgFunds(Head(call.msgs))) :
              call' = [call EXCEPT !.out =
                          Append(@, Out(RepayMsg(coin), "repay", cfg.uusd_fee_debt))]
      BY <1>1 DEF RepayDebt
    <2> DEFINE o == Out(RepayMsg(coin), "repay", cfg.uusd_fee_debt)
    <2>2. call.out \in Seq(Outgoing) /\ o \in Outgoing
      BY <1>1, RepayOutType DEF TypeOK, Running, RepayDebt
    <2>3. call'.out = Append(call.out, o)
      BY <1>1, <2>1 DEF TypeOK, Running
    <2>4. o.usd = cfg.uusd_fee_debt /\ o.msg.funds[1] = coin
      BY DEF Out, RepayMsg
    <2> HIDE DEF o
    <2>5. last = o
      BY <2>2, <2>3, AppendProperties
    <2>6. PICK denom : coin \in DebtInAsset(market, cfg.uusd_fee_debt, denom)
      BY DEF RepayCoins
    <2>7. cfg.uusd_fee_debt \in Uint128 /\ market \in Markets
      BY <1>1 DEF TypeOK, State
    <2> HIDE DEF last
    <2>8. ASSUME NEW price \in ToUsdc(market, coin) PROVE price.amount <= cfg.uusd_fee_debt
      BY <2>6, <2>7, RepaymentWorth
    <2> QED  BY <2>4, <2>5, <2>8
  <1>2. TypeOK /\ [Next]_vars => [RepayDebt /\ ~call.sim => Fair]_vars
    BY <1>1
  <1> QED  BY <1>2, TypeCorrect, PTL DEF Spec, NotOverpaid, Fair, last

-----------------------------------------------------------------------------
(***************************************************************************)
(* Nothing leaves in debt, where the cw20 calls that are passed in debt    *)
(* carry nothing.                                                          *)
(***************************************************************************)
\* A message with coins in it, other than a repayment.
Laden(o) == o.msg.funds # << >> /\ o.origin # "repay"
NoneLaden(q) == \A n \in DOMAIN q : ~Laden(q[n])
EmptyInv ==
    /\ DebtInv /\ KnownInv
    /\ cfg.uusd_fee_debt # 0 => NoneLaden(queue) /\ NoneLaden(call.out)

\* Two sequences that carry nothing make one.
LEMMA NoneLadenConcat ==
    ASSUME NEW p \in Seq(Outgoing), NEW q \in Seq(Outgoing), NoneLaden(p), NoneLaden(q)
    PROVE  NoneLaden(p \o q)
  BY ConcatElement DEF NoneLaden

\* A message without coins adds nothing to what is carried.
LEMMA NoneLadenAppend ==
    ASSUME NEW q \in Seq(Outgoing), NEW o \in Outgoing, NoneLaden(q), ~Laden(o)
    PROVE  NoneLaden(Append(q, o))
  BY AppendProperties DEF NoneLaden

\* Nor does a message that is done.
LEMMA NoneLadenTail ==
    ASSUME NEW q \in Seq(Outgoing), q # << >>, NoneLaden(q)
    PROVE  NoneLaden(Tail(q))
  BY HeadTailProperties DEF NoneLaden

\* In debt a handler returns messages without coins only.
LEMMA HandleEmpty ==
    ASSUME EmptyInv, DebtInv', KnownInv', NEW s, NEW c \in Calls, NEW rest,
           rest \in Seq(Outgoing), NoneLaden(queue) => NoneLaden(rest),
           Handle(s, c, rest)
    PROVE  EmptyInv'
  <1>1. cfg \in State /\ hist \in History
    BY DEF EmptyInv, DebtInv, TypeOK
  <1>2. PICK out : Returned(out) /\ queue' = out \o rest
    BY <1>1, HandleOut
  <1>3. cfg'.uusd_fee_debt = cfg.uusd_fee_debt /\ call'.out = << >>
    BY <1>1, HandleOut
  <1>4. ASSUME cfg'.uusd_fee_debt # 0
        PROVE  NoneLaden(queue') /\ NoneLaden(call'.out)
    <2>1. NoneLaden(rest) /\ NoneLaden(out) /\ out \in Seq(Outgoing)
      BY <1>2, <1>3, <1>4 DEF EmptyInv, Returned, NoneLaden, Laden
    <2> QED  BY <1>2, <1>3, <2>1, NoneLadenConcat DEF NoneLaden
  <1> QED  BY <1>4 DEF EmptyInv

\* The owner in debt passes nothing but cw20 calls, and those are empty; of a
\* simulation nothing is kept.
LEMMA PassOwnerEmpty ==
    ASSUME OtherCallsCarryNothing, EmptyInv, DebtInv', KnownInv', PassOwner
    PROVE  EmptyInv'
  <1>1. /\ TypeOK /\ call \in Running /\ call.out \in Seq(Outgoing)
        /\ call.msgs \in Seq(Message) /\ call.msgs # << >>
    BY DEF EmptyInv, DebtInv, TypeOK, Running, PassOwner
  <1>2. 1 \in DOMAIN call.msgs /\ Head(call.msgs) = call.msgs[1] /\ Head(call.msgs) \in Message
    BY <1>1, HeadTailProperties
  <1> DEFINE o == Out(Head(call.msgs), "debtor", 0)
  <1>3. call'.out = IF call.sim THEN call.out ELSE Append(call.out, o)
    BY <1>1 DEF PassOwner, NextMsg, Running
  <1>4. o \in Outgoing
    BY <1>2, OutType, ZeroType DEF Origins
  <1>5. ASSUME cfg.uusd_fee_debt # 0, ~call.sim PROVE ~Laden(o)
    <2>1. MsgType(Head(call.msgs)) \in OtherCalls
      BY <1>5 DEF PassOwner
    <2>2. Head(call.msgs) \in MessagesOf("execute")
      BY <1>2, <1>5 DEF EmptyInv, KnownInv, KnownCall
    <2> QED  BY <2>1, <2>2 DEF OtherCallsCarryNothing, Laden, Out
  <1> HIDE DEF o
  <1>6. cfg.uusd_fee_debt # 0 => NoneLaden(call'.out)
    BY <1>1, <1>3, <1>4, <1>5, NoneLadenAppend DEF EmptyInv
  <1>7. UNCHANGED <<cfg, queue>>
    BY DEF PassOwner
  <1> QED  BY <1>6, <1>7 DEF EmptyInv

\* Sending a coin of a message leaves the same messages with fewer coins.
LEMMA SendCoinEmpty ==
    ASSUME EmptyInv, DebtInv', KnownInv', SendCoin PROVE EmptyInv'
  <1>1. TypeOK
    BY DEF EmptyInv, DebtInv
  <1>2. /\ 1 \in DOMAIN queue /\ queue[1] \in Outgoing /\ NextOut = queue[1].msg
        /\ NextOut.funds # << >>
    BY <1>1, NextOutType DEF SendCoin, NextOut
  <1>3. /\ queue' = [queue EXCEPT ![1].msg.funds = Tail(NextOut.funds)]
        /\ UNCHANGED <<cfg, call>>
    BY <1>2 DEF SendCoin
  <1>4. DOMAIN queue' = DOMAIN queue /\ \A n \in DOMAIN queue \ {1} : queue'[n] = queue[n]
    BY <1>1, <1>3 DEF TypeOK
  <1>5. Laden(queue'[1]) => Laden(queue[1])
    <2>1. queue'[1].origin = queue[1].origin
      BY <1>1, <1>2, <1>3 DEF TypeOK, Outgoing
    <2> QED  BY <1>2, <2>1 DEF Laden
  <1>6. NoneLaden(queue) => NoneLaden(queue')
    BY <1>2, <1>4, <1>5 DEF NoneLaden
  <1> QED  BY <1>3, <1>6 DEF EmptyInv

\* In debt, nothing but a repayment joins the queue with coins in it.
LEMMA NextEmpty ==
    ASSUME OtherCallsCarryNothing PROVE EmptyInv /\ [Next]_vars => EmptyInv'
  <1> SUFFICES ASSUME EmptyInv, [Next]_vars PROVE EmptyInv'
    OBVIOUS
  <1>1. /\ DebtInv' /\ KnownInv' /\ TypeOK /\ TypeOK' /\ queue \in Seq(Outgoing)
        /\ call \in Running /\ call.out \in Seq(Outgoing) /\ cfg \in State
    BY NextDebt, NextKnown DEF EmptyInv, DebtInv, TypeOK, Running
  <1>2. ASSUME NEW s, NEW c \in Calls, Submit(s, c) PROVE EmptyInv'
    <2>1. << >> \in Seq(Outgoing) /\ NoneLaden(<< >>)
      BY DEF NoneLaden
    <2> QED  BY <1>1, <1>2, <2>1, HandleEmpty DEF Submit
  <1>3. ASSUME NEW s, NEW c \in Calls, CallBack(s, c) PROVE EmptyInv'
    BY <1>1, <1>3, HandleEmpty DEF CallBack
  <1>4. CASE CallSelf
    <2>1. /\ NextOut.inner \in Calls /\ Tail(queue) \in Seq(Outgoing) /\ queue # << >>
      BY <1>1, <1>4, NextOutType DEF CallSelf, Sent, Message, Dispatching
    <2> QED  BY <1>1, <1>4, <2>1, NoneLadenTail, HandleEmpty DEF CallSelf
  <1>5. CASE RepayDebt \/ AdmitWallet
    <2>1. cfg'.uusd_fee_debt = 0
      BY <1>1, <1>5 DEF RepayDebt, AdmitWallet, State
    <2> QED  BY <1>1, <2>1 DEF EmptyInv
  <1>6. CASE ChargeCoin \/ PassWallet
    <2>1. cfg'.uusd_fee_debt = cfg.uusd_fee_debt /\ phase = "charge"
      BY <1>1, <1>6 DEF ChargeCoin, PassWallet, State
    <2>2. cfg'.uusd_fee_debt = 0
      BY <2>1 DEF EmptyInv, DebtInv
    <2> QED  BY <1>1, <2>2 DEF EmptyInv
  <1>7. CASE EndExecute
    <2>1. queue' = call.out \o queue /\ call'.out = << >> /\ cfg' = cfg
      BY <1>7 DEF EndExecute, Return, NotRunning
    <2>2. NoneLaden(call.out) /\ NoneLaden(queue) => NoneLaden(queue')
      BY <1>1, <2>1, NoneLadenConcat
    <2> QED  BY <1>1, <2>1, <2>2 DEF EmptyInv, NoneLaden
  <1>8. CASE FinishMsg
    <2>1. queue # << >>
      BY <1>8 DEF FinishMsg, Sent, Dispatching
    <2> QED  BY <1>1, <1>8, <2>1, NoneLadenTail DEF FinishMsg, EmptyInv
  <1>9. CASE Abort
    BY <1>1, <1>9 DEF Abort, EmptyInv, NoneLaden, NotRunning
  <1>10. CASE Commit \/ Trade \/ Tick \/ UNCHANGED vars
    BY <1>1, <1>10 DEF Commit, Trade, Tick, vars, EmptyInv
  <1> QED
    BY <1>1, <1>2, <1>3, <1>4, <1>5, <1>6, <1>7, <1>8, <1>9, <1>10, PassOwnerEmpty,
       SendCoinEmpty DEF Next

\* "Please repay your fee debt before sending funds" (src/error.rs) holds of all
\* coins of the bank, as long as the cw20 calls that need no funds carry none: beside the
\* repayment nothing leaves in debt, for the owner, through an authorized
\* contract, nested or simulated.
THEOREM NothingElseLeavesInDebt ==
    ASSUME OtherCallsCarryNothing PROVE Spec => NothingLeavesInDebt
  <1>1. Init => EmptyInv
    BY InitDebt, InitKnown DEF Init, EmptyInv, NoneLaden, NotRunning
  <1> DEFINE Leaves == CoinsLeave /\ Head(queue).origin # "repay"
  <1>2. EmptyInv /\ [Next]_vars => [Leaves => cfg.uusd_fee_debt = 0]_vars
    <2> SUFFICES ASSUME EmptyInv, [Next]_vars, Leaves PROVE cfg.uusd_fee_debt = 0
      OBVIOUS
    <2>1. SendCoin
      BY OnlySendCoin DEF EmptyInv
    <2>2. 1 \in DOMAIN queue /\ Head(queue) = queue[1] /\ queue[1].msg.funds # << >>
      BY <2>1, NextOutType DEF SendCoin, EmptyInv, DebtInv, NextOut
    <2> QED  BY <2>2 DEF EmptyInv, NoneLaden, Laden
  <1> QED  BY <1>1, <1>2, NextEmpty, PTL DEF Spec, NothingLeavesInDebt, Leaves

-----------------------------------------------------------------------------
(***************************************************************************)
(* No fee is waived, where nothing is simulated.                           *)
(***************************************************************************)
WaivedInv == KnownInv /\ hist.fees.waived = 0 /\ saved.hist.fees.waived = 0

\* Only RepayDebt waives a fee, and only in a simulation.
LEMMA NextWaived ==
    ASSUME NothingSimulated PROVE WaivedInv /\ [Next]_vars => WaivedInv'
  <1> SUFFICES ASSUME WaivedInv, [Next]_vars PROVE WaivedInv'
    OBVIOUS
  <1>1. /\ KnownInv' /\ TypeOK /\ ~call.sim
        /\ cfg \in State /\ hist \in History /\ queue \in Seq(Outgoing)
    BY NextKnown DEF WaivedInv, KnownInv, KnownCall, TypeOK
  <1>2. ASSUME hist'.fees.waived = hist.fees.waived, saved' = saved PROVE WaivedInv'
    BY <1>1, <1>2 DEF WaivedInv
  <1>3. ASSUME NEW s, NEW c \in Calls, NEW rest \in Seq(Outgoing), Handle(s, c, rest)
        PROVE  WaivedInv'
    <2>1. hist'.fees = hist.fees /\ saved' = saved
      BY <1>1, <1>3, HandleOut DEF Handle
    <2> QED  BY <1>2, <2>1
  <1>4. << >> \in Seq(Outgoing)
    OBVIOUS
  <1>5. CASE CallSelf
    <2>1. NextOut.inner \in Calls /\ Tail(queue) \in Seq(Outgoing)
      BY <1>1, <1>5, NextOutType DEF CallSelf, Sent, Message
    <2> QED  BY <1>3, <1>5, <2>1 DEF CallSelf
  <1>6. CASE RepayDebt
    BY <1>1, <1>2, <1>6 DEF RepayDebt
  <1>7. CASE AdmitWallet \/ ChargeCoin
    <2>1. hist'.fees = hist.fees /\ saved' = saved
      BY <1>1, <1>7 DEF AdmitWallet, ChargeCoin, History
    <2> QED  BY <1>2, <2>1
  <1>8. CASE FinishMsg
    <2>1. hist'.fees.waived = hist.fees.waived /\ saved' = saved
      BY <1>1, <1>8 DEF FinishMsg, History
    <2> QED  BY <1>2, <2>1
  <1>9. CASE Commit \/ Abort
    BY <1>1, <1>9 DEF Commit, Abort, WaivedInv
  <1>10. CASE PassOwner \/ PassWallet \/ EndExecute \/ SendCoin \/ Trade \/ Tick
              \/ UNCHANGED vars
    BY <1>2, <1>10 DEF PassOwner, PassWallet, EndExecute, SendCoin, Trade, Tick, vars
  <1> QED
    BY <1>1, <1>3, <1>4, <1>5, <1>6, <1>7, <1>8, <1>9, <1>10 DEF Next, Submit, CallBack

\* The fee is never waived where nobody simulates: with FeesConserved, it is
\* owed or was paid, once and in full, whatever fails in between.
THEOREM FeeIsPaidOrOwed ==
    ASSUME NothingSimulated
    PROVE  Spec => [](NoFeeWaived /\ (phase = "idle" =>
                          hist.fees.paid + cfg.uusd_fee_debt = hist.fees.owed))
  <1>1. Init => WaivedInv
    BY InitKnown DEF Init, WaivedInv, NewHistory
  <1>2. WaivedInv /\ FeesConserved =>
            NoFeeWaived /\ (phase = "idle" =>
                hist.fees.paid + cfg.uusd_fee_debt = hist.fees.owed)
    <2> SUFFICES ASSUME WaivedInv, FeesConserved, phase = "idle"
                 PROVE  hist.fees.paid + cfg.uusd_fee_debt = hist.fees.owed
      BY DEF WaivedInv, NoFeeWaived
    <2>1. hist.fees.paid \in Nat
      BY DEF WaivedInv, KnownInv, TypeOK, History
    <2> QED  BY <2>1 DEF WaivedInv, FeesConserved
  <1> QED  BY <1>1, <1>2, NextWaived, FeeIsConserved, PTL DEF Spec
=============================================================================
