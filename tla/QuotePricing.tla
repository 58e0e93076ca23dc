---------------------------- MODULE QuotePricing ----------------------------
(***************************************************************************)
(* The arithmetic of the RFQ service: quote_pricing.ts, the drift of       *)
(* swap_service.ts, and freshness.ts next to the program's own test.       *)
(***************************************************************************)
EXTENDS Curve

(* fair_value plus or minus half the spread, rounded against the taker.    *)
QuotePrice_Floors(fair, spread, side) ==
    LET half == spread \div 2
    IN  IF side = "Buy"
        THEN MulDivFloor(fair, BPS_DENOMINATOR + half, BPS_DENOMINATOR)
        ELSE MulDivFloor(fair, BPS_DENOMINATOR - half, BPS_DENOMINATOR)

QuotePrice(fair, spread, side) ==
    LET half == spread \div 2
    IN  IF side = "Buy"
        THEN MulDivCeil(fair, BPS_DENOMINATOR + half, BPS_DENOMINATOR)
        ELSE MulDivFloor(fair, BPS_DENOMINATOR - half, BPS_DENOMINATOR)

QuoteOut(side, input, price) ==
    IF side = "Buy"
    THEN (input * PRICE_SCALE) \div price
    ELSE (input * price) \div PRICE_SCALE

(* Rounded up, so that a drift just past the threshold is past it. *)
DriftBps_Floor(fairNow, fairAtQuote) ==
    LET drift == IF fairNow > fairAtQuote THEN fairNow - fairAtQuote
                                          ELSE fairAtQuote - fairNow
    IN  MulDivFloor(drift, BPS_DENOMINATOR, fairAtQuote)

DriftBps(fairNow, fairAtQuote) ==
    LET drift == IF fairNow > fairAtQuote THEN fairNow - fairAtQuote
                                          ELSE fairAtQuote - fairNow
    IN  MulDivCeil(drift, BPS_DENOMINATOR, fairAtQuote)

(* computeFreshness: a slot behind the last update counts as age 0. *)
ComputeFreshness(updated, ttl, current) ==
    LET age == IF current > updated THEN current - updated ELSE 0
    IN  ttl > 0 /\ age <= ttl

(* curve_fresh of execute_swap: such a slot makes the curve stale. *)
CurveFresh(updated, ttl, now) ==
    ttl > 0 /\ now >= updated /\ now - updated <= ttl

(* The curve with neither depth nor skew. *)
FlatParams(fair, spread) ==
    [fair_value |-> fair, spread_bps |-> spread,
     depth_coef_bps |-> 0, size_unit |-> 1, max_depth_bps |-> 0,
     target_base_bps |-> 0, skew_coef_bps |-> 0, max_skew_offset_bps |-> 0]
=============================================================================
