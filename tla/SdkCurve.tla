------------------------------ MODULE SdkCurve ------------------------------
(***************************************************************************)
(* sdk/src/math/curve.ts: the same curve a second time, in bigint, for the *)
(* web app to show what a trade would pay.  Its terms are those of Curve,  *)
(* term by term; it differs in flooring the price on both sides.           *)
(***************************************************************************)
EXTENDS Curve

EvaluateCurve_AlwaysCeil(p, side, input, base, quote) ==
    MulDivCeil(p.fair_value, BpsFactor(p, side, input, base, quote), BPS_DENOMINATOR)

EvaluateCurve(p, side, input, base, quote) ==
    MulDivFloor(p.fair_value, BpsFactor(p, side, input, base, quote), BPS_DENOMINATOR)

SimulateSwap(p, side, input, base, quote) ==
    OutputAmount(side, input, EvaluateCurve(p, side, input, base, quote))

(* It throws on a factor that is not positive, and on a division by zero.  *)
SimulateOk(p, side, input, base, quote) ==
    /\ p.fair_value # 0
    /\ BpsFactor(p, side, input, base, quote) > 0
    /\ side = "Buy" => EvaluateCurve(p, side, input, base, quote) > 0
=============================================================================
