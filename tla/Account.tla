------------------------------ MODULE Account ------------------------------
(***************************************************************************)
(* What the proxy contract promises, whatever messages, coins and prices   *)
(* it deals with: an account with an owner, who changes only by consent of *)
(* the next one, with allowances that are used up and renewed one by one,  *)
(* and with a debt that is settled at once.  A transaction is a number of  *)
(* these steps that are kept together, or undone together.                 *)
(***************************************************************************)
EXTENDS Naturals

CONSTANT Names    \* every string that occurs as an address

VARIABLES
    owner,       \* who owns the account
    candidate,   \* who may take it over; the owner when nobody may
    allowance,   \* what its holders may spend: a function on the holders
    debt,        \* what the account owes
    kept         \* all of this as the last transaction left it

book == <<owner, candidate, allowance, debt>>
vars == <<book, kept>>

Holders == DOMAIN allowance

Init == kept = book

Nominate ==
    /\ candidate' \in Names
    /\ UNCHANGED <<owner, allowance, debt, kept>>

TakeOver ==
    /\ owner' = candidate
    /\ UNCHANGED <<candidate, allowance, debt, kept>>

\* The allowance of nobody but a changes.
OnlyOf(a) ==
    /\ \A x \in Holders \ {a} : x \in DOMAIN allowance' /\ allowance'[x] = allowance[x]
    /\ DOMAIN allowance' \subseteq Holders \cup {a}
    /\ UNCHANGED <<owner, candidate, debt, kept>>

Admit(a) == a \notin Holders /\ a \in DOMAIN allowance' /\ OnlyOf(a)

Dismiss(a) == a \in Holders /\ a \notin DOMAIN allowance' /\ OnlyOf(a)

\* The limit stays, and the whole of it may be spent again.
Renew(a) ==
    /\ a \in Holders /\ a \in DOMAIN allowance'
    /\ allowance'[a] = [allowance[a] EXCEPT !.left = allowance[a].limit]
    /\ OnlyOf(a)

Use(a) ==
    /\ a \in Holders /\ a \in DOMAIN allowance'
    /\ allowance'[a].left \in 0 .. allowance[a].left - 1
    /\ allowance'[a].limit = allowance[a].limit
    /\ OnlyOf(a)

Settle ==
    /\ debt > 0
    /\ debt' = 0
    /\ UNCHANGED <<owner, candidate, allowance, kept>>

Keep == kept' = book /\ UNCHANGED book

Undo == book' = kept /\ UNCHANGED kept

Next ==
    \/ Nominate \/ TakeOver
    \/ \E a \in Names : Admit(a) \/ Dismiss(a) \/ Renew(a) \/ Use(a)
    \/ Settle
    \/ Keep \/ Undo

Spec == Init /\ [][Next]_vars
=============================================================================
