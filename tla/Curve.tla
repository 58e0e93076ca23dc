------------------------------- MODULE Curve -------------------------------
(***************************************************************************)
(* The linear-bps quote curve of math/curve.rs: the price at which the     *)
(* pool trades out of its own inventory.  A price is quote per base, in    *)
(* units of 1/PRICE_SCALE.  Intermediates of the code are u128 or i128 and *)
(* cannot overflow (a product of two u64 fits); what can fail is the       *)
(* narrowing of a result to u64.  Each computation is therefore a value    *)
(* (Evaluate, OutputAmount) beside the condition under which the code      *)
(* returns it instead of an error (EvaluateOk, OutputOk).                  *)
(***************************************************************************)
EXTENDS Integers

CONSTANTS
    MaxU64,               \* largest u64
    PRICE_SCALE,          \* 1_000_000 in constants.rs
    BPS_DENOMINATOR,      \* 10_000
    MAX_SPREAD_BPS,       \* 1_000
    MAX_DEPTH_BPS,        \* 500
    MAX_SKEW_OFFSET_BPS   \* 500

(* The compile-time assertion of constants.rs, with the types it relies on. *)
ASSUME CurveConstants ==
    /\ MaxU64 \in Nat /\ PRICE_SCALE \in Nat \ {0} /\ BPS_DENOMINATOR \in Nat \ {0}
    /\ MAX_SPREAD_BPS \in Nat /\ MAX_DEPTH_BPS \in Nat /\ MAX_SKEW_OFFSET_BPS \in Nat
    /\ (MAX_SPREAD_BPS \div 2) + MAX_DEPTH_BPS + MAX_SKEW_OFFSET_BPS < BPS_DENOMINATOR

Sides == {"Buy", "Sell"}

(* Everything update_oracle writes that the curve reads. *)
PriceParams ==
    [fair_value : Nat, spread_bps : Nat,
     depth_coef_bps : Nat, size_unit : Nat, max_depth_bps : Nat,
     target_base_bps : Nat, skew_coef_bps : Nat, max_skew_offset_bps : Nat]

(* The argument checks init_pool and update_oracle share. *)
ParamsOK(p) ==
    /\ p.fair_value # 0
    /\ p.spread_bps <= MAX_SPREAD_BPS
    /\ p.max_depth_bps <= MAX_DEPTH_BPS
    /\ p.size_unit # 0
    /\ p.max_skew_offset_bps <= MAX_SKEW_OFFSET_BPS
    /\ p.target_base_bps <= BPS_DENOMINATOR

----------------------------------------------------------------------------
(* Integer helpers. *)

FitsU64(n) == n <= MaxU64

MulDivFloor(a, b, denom) == (a * b) \div denom

MulDivCeil(a, b, denom) == (a * b + denom - 1) \div denom

(* Rust and BigInt division of signed integers rounds toward zero. *)
TruncDiv(a, denom) == IF a >= 0 THEN a \div denom ELSE -((-a) \div denom)

SignedDiffBps(a, b, denom) == TruncDiv((a - b) * BPS_DENOMINATOR, denom)

(* Beside some definitions stands a slip a mutant run has to catch, named  *)
(* after it: Clamp_Dropped is Clamp gone wrong.                            *)
Clamp_Dropped(x, bound) == x

Clamp(x, bound) == IF x > bound THEN bound ELSE IF x < -bound THEN -bound ELSE x

----------------------------------------------------------------------------
(* The terms of the price, in the order evaluate computes them. *)

SizeBaseEquiv(p, side, input) ==
    IF side = "Buy" THEN MulDivFloor(input, PRICE_SCALE, p.fair_value) ELSE input

BaseValue(p, base) == MulDivFloor(base, p.fair_value, PRICE_SCALE)

TotalValue(p, base, quote) == BaseValue(p, base) + quote

ImbalanceBps_Flipped(p, base, quote) ==
    LET total == TotalValue(p, base, quote)
    IN  IF total = 0
        THEN 0
        ELSE SignedDiffBps(BaseValue(p, base),
                           MulDivFloor(total, p.target_base_bps, BPS_DENOMINATOR), total)

(* Positive when the vaults are short of base, negative when they are long. *)
ImbalanceBps(p, base, quote) ==
    LET total == TotalValue(p, base, quote)
    IN  IF total = 0
        THEN 0
        ELSE SignedDiffBps(MulDivFloor(total, p.target_base_bps, BPS_DENOMINATOR),
                           BaseValue(p, base), total)

SkewOffsetBps(p, base, quote) ==
    Clamp(TruncDiv(ImbalanceBps(p, base, quote) * p.skew_coef_bps, BPS_DENOMINATOR),
          p.max_skew_offset_bps)

DepthRaw(p, side, input) ==
    MulDivFloor(SizeBaseEquiv(p, side, input), p.depth_coef_bps, p.size_unit)

DepthBps_ResetAtCap(p, side, input) ==
    IF DepthRaw(p, side, input) <= p.max_depth_bps THEN DepthRaw(p, side, input) ELSE 0

DepthBps(p, side, input) ==
    IF DepthRaw(p, side, input) <= p.max_depth_bps
    THEN DepthRaw(p, side, input)
    ELSE p.max_depth_bps

TotalBps_SkewPerSide(p, side, input, base, quote) ==
    LET take == (p.spread_bps \div 2) + DepthBps(p, side, input)
    IN  IF side = "Buy"
        THEN SkewOffsetBps(p, base, quote) + take
        ELSE -SkewOffsetBps(p, base, quote) - take

TotalBps(p, side, input, base, quote) ==
    LET take == (p.spread_bps \div 2) + DepthBps(p, side, input)
    IN  IF side = "Buy"
        THEN SkewOffsetBps(p, base, quote) + take
        ELSE SkewOffsetBps(p, base, quote) - take

BpsFactor(p, side, input, base, quote) ==
    BPS_DENOMINATOR + TotalBps(p, side, input, base, quote)

(* Against the user both ways: Buy rounds the price up, Sell rounds it down. *)
Evaluate(p, side, input, base, quote) ==
    LET factor == BpsFactor(p, side, input, base, quote)
    IN  IF side = "Buy"
        THEN MulDivCeil(p.fair_value, factor, BPS_DENOMINATOR)
        ELSE MulDivFloor(p.fair_value, factor, BPS_DENOMINATOR)

(* evaluate returns a price, and none of its MathOverflow / MathUnderflow errors. *)
EvaluateOk(p, side, input, base, quote) ==
    /\ FitsU64(SizeBaseEquiv(p, side, input))
    /\ FitsU64(TotalValue(p, base, quote))
    /\ FitsU64(DepthRaw(p, side, input))
    /\ BpsFactor(p, side, input, base, quote) > 0
    /\ FitsU64(Evaluate(p, side, input, base, quote))

----------------------------------------------------------------------------
OutputAmount_Ceil(side, input, price) ==
    IF side = "Buy"
    THEN MulDivCeil(input, PRICE_SCALE, price)
    ELSE MulDivCeil(input, price, PRICE_SCALE)

(* ExactIn output of execute_swap, floored; a Buy at price 0 is MathError. *)

OutputAmount(side, input, price) ==
    IF side = "Buy"
    THEN MulDivFloor(input, PRICE_SCALE, price)
    ELSE MulDivFloor(input, price, PRICE_SCALE)

OutputOk(side, input, price) ==
    /\ side = "Buy" => price # 0
    /\ FitsU64(OutputAmount(side, input, price))
=============================================================================
