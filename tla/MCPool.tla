------------------------------- MODULE MCPool -------------------------------
(* Instances of Pool for TLC; each .cfg picks the part of the program it   *)
(* stresses by the keys, quotes and arguments it offers.                   *)
EXTENDS Pool

CONSTANTS a, b, c, u, zero   \* model values for addresses

P(fair, spread, maxSkew) ==
    [fair_value |-> fair, spread_bps |-> spread,
     depth_coef_bps |-> 1, size_unit |-> 2, max_depth_bps |-> 1,
     target_base_bps |-> 5, skew_coef_bps |-> 10, max_skew_offset_bps |-> maxSkew]

Q(user, side, input, price, expiry, nonce, signer) ==
    [pool |-> ThisPool, user |-> user, direction |-> side, input_amount |-> input,
     price |-> price, expiry_slot |-> expiry, nonce |-> nonce, signer |-> signer]

(* Rotation: three keys exchanging the admin role; no trading.             *)
RotationKeys == {a, b, c, zero}
RotationParams == {P(2, 0, 0)}
RotationEndowment == [k \in Keys |-> 0]

(* Trading: admin a, trader u; curve and RFQ on one pool, with a skew and  *)
(* a spread out of range; two quotes that share a nonce, one of which      *)
(* expires soon and one never, and a quote for another pool.               *)
TradingKeys == {a, u, zero}
TradingQuotes ==
    {Q(u, "Sell", 1, 2, 1, 1, a), Q(u, "Buy", 2, 4, MaxU64, 1, a),
     [Q(u, "Buy", 2, 4, 5, 2, a) EXCEPT !.pool = NoPool]}
TradingParams == {P(2, 2, 1), P(3, 11, 0)}
TradingEndowment == [k \in Keys |-> IF k = u THEN 2 ELSE 0]
=============================================================================
