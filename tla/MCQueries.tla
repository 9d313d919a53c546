----------------------------- MODULE MCQueries -----------------------------
(***************************************************************************)
(* A small instance of Queries for TLC: see MCObiProxy for the addresses,  *)
(* the coins and the messages.                                             *)
(***************************************************************************)
EXTENDS Queries, MCObiProxy

\* What is asked about: no message, one of every kind, one with several coins
\* that fit one by one but not together, one without a price, two messages.
QueryCalls ==
    {Execute(<< >>),
     Execute(<<Bank(<<Usdc(1)>>)>>),
     Execute(<<Bank(<<Usdc(1), Tokens(1)>>)>>),
     Execute(<<Bank(<<[denom |-> "uloop", amount |-> 1]>>)>>),
     Execute(<<Bank(<<Usdc(1)>>), Bank(<<Tokens(1)>>)>>),
     Execute(<<Delegate(Tokens(1))>>),
     Execute(<<Wasm("drink", "send", << >>)>>),
     Execute(<<Wasm("heir", "transfer", << >>)>>),
     SimExecute(<<Bank(<<Tokens(1)>>)>>)}

\* A daily wallet, and one that is due in December and then has no month to be
\* reset to.
QueryWallets ==
    <<LimitedWallet("bot", 22, "DAYS", 1, 2, 1),
      LimitedWallet("drink", 21, "MONTHS", 24, 2, 1)>>
QueryInstantiations == {Instantiation(QueryWallets, debt) : debt \in {0, 2}}
=============================================================================
