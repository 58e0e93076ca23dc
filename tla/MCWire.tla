------------------------------- MODULE MCWire -------------------------------
(* An instance of Wire: two wallets, numbers that no other field can hold, *)
(* parameters that are each valid or invalid in one place.                 *)
EXTENDS Wire

CONSTANTS k1, k2

Price(fair, ttl) ==
    [fair_value |-> fair, spread_bps |-> 10, depth_coef_bps |-> 800, size_unit |-> 700,
     max_depth_bps |-> 20, target_base_bps |-> 90, skew_coef_bps |-> 600,
     max_skew_offset_bps |-> 15, current_mode_ttl |-> ttl]

OfferedPrices == {Price(900, 1), Price(910, 0), [Price(900, 1) EXCEPT !.spread_bps = 11],
                  [Price(900, 1) EXCEPT !.max_skew_offset_bps = 16]}

Quote(user, side, nonce, signer) ==
    [user |-> user, direction |-> side, input_amount |-> 40, price |-> 50,
     expiry_slot |-> 300, nonce |-> nonce, signer |-> signer]
SignedQuotes == {Quote(k1, "Sell", 71, k1), Quote(k2, "Buy", 72, k2)}

MintsInOrder == [m \in {BaseMint, QuoteMint} |-> IF m = BaseMint THEN 0 ELSE 1]

(* What was called and answered matters to the step that did it, not to    *)
(* the state after: TLC need not tell states apart by it.                  *)
Effect == <<accounts, slot, calls>>
=============================================================================
