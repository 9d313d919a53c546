------------------------------ MODULE Submsgs ------------------------------
(***************************************************************************)
(* The classification of an outgoing message (submsgs.rs).  A message is a *)
(* record with the fields                                                  *)
(*   kind    which CosmosMsg it is;                                        *)
(*   to      the recipient of a bank message, the contract of a wasm one;  *)
(*   call    of a "wasm_execute": the Cw20ExecuteMsg variant its payload   *)
(*           deserializes to, or "opaque" when it is none;                 *)
(*   amount  the amount that variant carries (0 when it carries none);     *)
(*   funds   the coins of a bank message, the funds of a wasm message, the *)
(*           delegated coin of a staking message;                          *)
(*   inner   of a "wasm_execute" on the proxy itself: its ExecuteMsg.      *)
(* Recipients, expirations, hook payloads and metadata are left out.       *)
(***************************************************************************)
EXTENDS Naturals, Sequences

BankKinds == {"bank_send", "bank_burn"}

MsgKinds == BankKinds \cup
    {"wasm_execute", "staking_delegate", "distribution", "custom", "other"}

\* The cw20 variants whose amount the classification adds to the funds.
SpendCalls == {"transfer", "burn", "send", "increase_allowance"}

\* The cw20 variants it recognizes and adds nothing for.
OtherCalls == {"decrease_allowance", "transfer_from", "send_from", "burn_from",
               "mint", "update_marketing", "upload_logo"}

\* The SubmsgTypes check_and_spend_total_coins sends to check_coins.
SpendTypes == BankKinds \cup SpendCalls

\* process_and_get_msg_type: a message's SubmsgType.
MsgType(m) ==
    IF m.kind \in BankKinds THEN m.kind
    ELSE IF m.kind = "wasm_execute" /\ m.call \in SpendCalls \cup OtherCalls
         THEN m.call
         ELSE "unknown"

\* Slip: only a message's first coin is looked at.
FirstCoinOnly(m) == [n \in DOMAIN m.funds \cap {1} |-> m.funds[n]]

\* process_and_get_msg_type: the coins the message is charged for.  The funds
\* add_funds copied from the parent call are overwritten here; a cw20 amount
\* is a coin whose denom is the address of its contract.
MsgFunds(m) ==
    IF m.kind = "wasm_execute" /\ m.call \in SpendCalls
    THEN Append(m.funds, [denom |-> m.to, amount |-> m.amount])
    ELSE m.funds
=============================================================================
