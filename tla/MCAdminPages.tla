------------------------------ MODULE MCAdminPages ------------------------------
(* AdminPages for TLC: two keys that hand the admin role to and fro, one   *)
(* price, one token of each kind.                                          *)
EXTENDS AdminPages

CONSTANTS a, b, zero   \* model values for addresses

OnePrice ==
    {[fair_value |-> 2, spread_bps |-> 0, depth_coef_bps |-> 1, size_unit |-> 2,
      max_depth_bps |-> 1, target_base_bps |-> 5, skew_coef_bps |-> 10,
      max_skew_offset_bps |-> 0]}
AdminHasOne == [k \in Keys |-> IF k = a THEN 1 ELSE 0]
=============================================================================
