--------------------------- MODULE MCCurveTrades ---------------------------
(* Instance of CurveTrades with the program's basis-point constants and    *)
(* PRICE_SCALE = 100, so that fair_value 99 is a price of 0.99.            *)
EXTENDS CurveTrades

Params(fair, spread, coef, unit, maxDepth, target, skewCoef, maxSkew) ==
    [fair_value |-> fair, spread_bps |-> spread,
     depth_coef_bps |-> coef, size_unit |-> unit, max_depth_bps |-> maxDepth,
     target_base_bps |-> target, skew_coef_bps |-> skewCoef,
     max_skew_offset_bps |-> maxSkew]

MCParamChoices ==
    { Params(99,  20,   0,    1,  0,   5000, 0,     0),    \* flat
      Params(150, 1000, 300,  7,  500, 5000, 10000, 500),  \* spread covers skew
      Params(101, 21,   0,    1,  0,   3000, 10000, 500),  \* skew beyond the spread
      Params(33,  0,    150,  5,  400, 10000, 2500, 300),
      Params(1,   1000, 500,  1,  500, 5000, 10000, 500) } \* smallest fair value

MCVaultChoices == {<<0, 0>>, <<40, 60>>, <<90, 5>>, <<3, 120>>}

MCInputs == {1, 7, 30}
=============================================================================
