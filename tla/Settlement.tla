----------------------------- MODULE Settlement -----------------------------
(***************************************************************************)
(* What the pool promises to the market maker and to its users, with none  *)
(* of the mechanism: tokens change hands in whole exchanges, never while   *)
(* the desk is halted; a signed quote is honoured at most once, at its own *)
(* price, for its own user and size, not after its expiry; inventory goes  *)
(* out to the operator only.  Markers, freshness, signing keys and         *)
(* instructions do not appear.  Pool implements it.                        *)
(***************************************************************************)
EXTENDS Curve

CONSTANTS Keys, Vault, Quotes

VARIABLES
    base, quote,   \* balances of every holder
    honoured,      \* times each signed quote has been honoured
    halted,        \* the kill switch
    operator,      \* the key that runs the desk
    slot           \* the clock, free to move either way

vars == <<base, quote, honoured, halted, operator, slot>>

Init ==
    /\ base[Vault] = 0 /\ quote[Vault] = 0
    /\ honoured = [q \in Quotes |-> 0]
    /\ ~halted
    /\ operator \in Keys

(* Some amount goes from one holder to another, and nothing else moves. *)
Shift(bal, newBal, from, to) ==
    LET amount == bal[from] - newBal[from] IN
    /\ 0 <= amount
    /\ newBal = [bal EXCEPT ![from] = @ - amount, ![to] = @ + amount]

(* Both legs of a trade between the user and the vault. *)
Exchange(user, side) ==
    \/ side = "Buy" /\ Shift(quote, quote', user, Vault) /\ Shift(base, base', Vault, user)
    \/ side = "Sell" /\ Shift(base, base', user, Vault) /\ Shift(quote, quote', Vault, user)

(* The user gives something up. *)
Pays(user, side) == IF side = "Buy" THEN quote[user] - quote'[user]
                                    ELSE base[user] - base'[user]

Receives(user, side) == IF side = "Buy" THEN base'[user] - base[user]
                                        ELSE quote'[user] - quote[user]

Trade(user, side) ==
    /\ ~halted
    /\ Exchange(user, side)
    /\ Pays(user, side) > 0
    /\ UNCHANGED <<honoured, halted, operator, slot>>

Honour(q) ==
    /\ ~halted
    /\ honoured[q] = 0
    /\ slot <= q.expiry_slot
    /\ honoured' = [honoured EXCEPT ![q] = 1]
    /\ Exchange(q.user, q.direction)
    /\ Pays(q.user, q.direction) = q.input_amount
    /\ Receives(q.user, q.direction) = OutputAmount(q.direction, q.input_amount, q.price)
    /\ UNCHANGED <<halted, operator, slot>>

(* Inventory in, from anyone, and out, to the operator. *)
Carry(from, to) ==
    /\ Shift(base, base', from, to)
    /\ Shift(quote, quote', from, to)
    /\ UNCHANGED <<honoured, halted, operator, slot>>

Next ==
    \/ \E k \in Keys : Carry(k, Vault) \/ \E side \in Sides : Trade(k, side)
    \/ Carry(Vault, operator)
    \/ \E q \in Quotes : Honour(q)
    \/ /\ halted' \in BOOLEAN /\ operator' \in Keys
       /\ UNCHANGED <<base, quote, honoured, slot>>
    \/ slot' \in Nat /\ UNCHANGED <<base, quote, honoured, halted, operator>>

Spec == Init /\ [][Next]_vars
=============================================================================
