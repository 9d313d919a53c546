------------------------------ MODULE Pricing ------------------------------
(***************************************************************************)
(* How the proxy turns a coin into USDC and a debt in USDC into a coin:    *)
(* the pair contracts of the home network, the query built for a pair and  *)
(* what is made of the answer (pair_contract.rs, sourced_coin.rs,          *)
(* simulation.rs, pair_contract_defaults.rs and                            *)
(* convert_debt_to_asset_spent of contract.rs).                            *)
(*                                                                         *)
(* The exchanges are other contracts.  Dex(market, pair, query) is what a  *)
(* pair contract answers while the market is in state `market`: the shape  *)
(* of the JSON it returns and the amount in it.                            *)
(*                                                                         *)
(* A conversion that may fail is the set of its results: empty when it     *)
(* fails, a singleton when it does not.                                    *)
(***************************************************************************)
EXTENDS Naturals, Sequences

CONSTANTS
    Markets,        \* the states the exchanges can be in
    Dex(_, _, _),   \* their answers, see above
    Denom,          \* every string that occurs as a denom
    MaxUint128,     \* the largest Uint128
    HomeNetwork     \* the home_network the proxy was instantiated with

Uint128 == 0 .. MaxUint128
Coin == [denom : Denom, amount : Uint128]

USDC == "axlusdc"        \* MAINNET_AXLUSDC_IBC
DexDenom == "uloop"      \* MAINNET_DEX_DENOM

\* get_mainnet_pair_contracts and its siblings: the same three pairs on every
\* network, for that network's native denom.
PairsFor(native) ==
    << [denom1 |-> USDC,   denom2 |-> DexDenom, format |-> "LoopType"],
       [denom1 |-> native, denom2 |-> DexDenom, format |-> "LoopType"],
       [denom1 |-> native, denom2 |-> USDC,     format |-> "JunoType"] >>

\* set_pair_contracts: instantiate fails on any other network.
Networks == {"juno-1", "uni-3", "local", "EMPTY"}
PairContracts ==
    CASE HomeNetwork = "juno-1" -> PairsFor("ujuno")
      [] HomeNetwork = "uni-3"  -> PairsFor("ujunox")
      [] HomeNetwork = "local"  -> PairsFor("testtokens")
      [] HomeNetwork = "EMPTY"  -> << >>

Joins(p, from, to) ==
    \/ p.denom1 = from /\ p.denom2 = to
    \/ p.denom2 = from /\ p.denom1 = to

\* get_pair_contract: the index of the first pair that joins two denoms.
FirstPair(from, to) ==
    {n \in DOMAIN PairContracts :
        /\ Joins(PairContracts[n], from, to)
        /\ \A k \in 1 .. n - 1 : ~Joins(PairContracts[k], from, to)}

\* Slip: the type of the message does not count.
FlipForTarget(reverse, amount_is_target, reverse_message_type) ==
    amount_is_target # reverse

\* query_contract: three booleans that only count through their parity.
FlipAssets(reverse, amount_is_target, reverse_message_type) ==
    (amount_is_target # reverse_message_type) # reverse

QueryType(format, flip) ==
    CASE format = "LoopType" /\ ~flip -> "simulation"
      [] format = "LoopType" /\ flip  -> "reverse_simulation"
      [] format = "JunoType" /\ ~flip -> "token1_for_token2_price"
      [] format = "JunoType" /\ flip  -> "token2_for_token1_price"

\* create_query_msg and format_query_msg: the query names the pair's first
\* denom, whichever way the assets are flipped.
DexQuery(p, amount, flip) ==
    [type |-> QueryType(p.format, flip), denom |-> p.denom1, amount |-> amount]

\* create_query_msg: the denom the answer is labelled with.
ResponseAsset(p, flip) ==
    IF p.format = "JunoType" /\ flip THEN p.denom1 ELSE p.denom2

\* process_query: the answer is deserialized as a price response of the Juno
\* exchange, also when a pair of LoopType was queried; anything else fails.
ExpectedShape(flip) == IF flip THEN "token1_amount" ELSE "token2_amount"

\* Slip: the answers of both kinds of exchange are understood.
QueryEither(market, p, amount, flip) ==
    LET answer == Dex(market, p, DexQuery(p, amount, flip))
    IN  IF answer.shape # "error"
        THEN {[denom |-> ResponseAsset(p, flip), amount |-> answer.amount]}
        ELSE {}

QueryContract(market, p, amount, flip) ==
    LET answer == Dex(market, p, DexQuery(p, amount, flip))
    IN  IF answer.shape = ExpectedShape(flip)
        THEN {[denom |-> ResponseAsset(p, flip), amount |-> answer.amount]}
        ELSE {}

\* get_price_from_simulation, called by simulate_swap with target = FALSE and
\* by simulate_reverse_swap with target = TRUE (both booleans are equal).
Simulate(market, from, to, amount, target) ==
    UNION {LET p == PairContracts[n]
               reverse == ~(p.denom1 = from /\ p.denom2 = to)
           IN  QueryContract(market, p, amount, FlipAssets(reverse, target, target)) :
               n \in FirstPair(from, to)}

\* get_converted_to_usdc, for a spend limit (reverse = FALSE in the code).
ToUsdc(market, coin) ==
    IF coin.denom = USDC THEN {coin}
    ELSE Simulate(market, coin.denom, USDC, coin.amount, FALSE)

\* convert_debt_to_asset_spent: the coin of `denom` that repays `debt`.
RepayableDenoms == {"ujuno", "ujunox", "testtokens"}
DebtInAsset(market, debt, denom) ==
    IF denom = USDC THEN {[denom |-> USDC, amount |-> debt]}
    ELSE IF denom \in RepayableDenoms
         THEN Simulate(market, USDC, denom, debt, TRUE)
         ELSE {}

(***************************************************************************)
(* What is assumed of the constants: the denoms the code names are denoms, *)
(* and an exchange answers an amount that is a Uint128 or does not parse.  *)
(***************************************************************************)
Shapes == {"token1_amount", "token2_amount", "simulation",
           "reverse_simulation", "error"}

ASSUME PricingAssumption ==
    /\ MaxUint128 \in Nat \ {0}
    /\ HomeNetwork \in Networks
    /\ {USDC, DexDenom} \cup RepayableDenoms \subseteq Denom
    /\ \A market \in Markets, n \in DOMAIN PairContracts,
          amount \in Uint128, flip \in BOOLEAN :
          Dex(market, PairContracts[n], DexQuery(PairContracts[n], amount, flip))
             \in [shape : Shapes, amount : Uint128]

\* An exchange answers the query that it was asked, or fails.
AnswerShape(type) ==
    CASE type = "token1_for_token2_price" -> "token2_amount"
      [] type = "token2_for_token1_price" -> "token1_amount"
      [] type \in {"simulation", "reverse_simulation"} -> type

ASSUME ExchangeAssumption ==
    \A market \in Markets, n \in DOMAIN PairContracts,
       amount \in Uint128, flip \in BOOLEAN :
       LET query == DexQuery(PairContracts[n], amount, flip)
       IN  Dex(market, PairContracts[n], query).shape \in {"error", AnswerShape(query.type)}

\* An exchange at which nothing is gained by a round trip: what it asks for an
\* amount of the second token is worth no more than that amount to it, whatever
\* it charges and however it rounds down.
Asked(market, p, amount) == Dex(market, p, DexQuery(p, amount, TRUE))
Offered(market, p, amount) == Dex(market, p, DexQuery(p, amount, FALSE))
NoRoundTripGain ==
    \A market \in Markets, n \in DOMAIN PairContracts, amount \in Uint128 :
        LET p == PairContracts[n]
            asked == Asked(market, p, amount)
            offer == Offered(market, p, asked.amount)
        IN  /\ p.format = "JunoType"
            /\ asked.shape = "token1_amount" /\ offer.shape = "token2_amount"
            => offer.amount <= amount
=============================================================================
