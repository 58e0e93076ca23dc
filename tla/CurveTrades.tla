---------------------------- MODULE CurveTrades ----------------------------
(***************************************************************************)
(* A taker trading again and again against one oracle update: the curve    *)
(* path of execute_swap, several times within the TTL, each trade priced   *)
(* on the vault balances the one before it left (SPECIFICATION.md 2.2,     *)
(* "In-slot consistency").  Oracle, admin and RFQ stand still, so that the *)
(* arithmetic can be checked on realistic scales; Pool.tla has the rest.   *)
(*                                                                         *)
(* The web app shows the expected output by a second implementation of the *)
(* curve (SdkCurve), which is compared with the program's here.            *)
(***************************************************************************)
EXTENDS SdkCurve

CONSTANTS
    ParamChoices,   \* the oracle updates considered
    VaultChoices,   \* initial vault balances, <<base, quote>>
    Wallet,         \* tokens of each kind the taker starts with
    InputAmounts    \* ExactIn amounts

ASSUME TradesConstants ==
    /\ ParamChoices \subseteq {p \in PriceParams : ParamsOK(p)}
    /\ VaultChoices \subseteq Nat \X Nat
    /\ Wallet \in Nat
    /\ InputAmounts \subseteq Nat \ {0}

VARIABLES
    params,                    \* the pool's price parameters
    base_vault, quote_vault,   \* vault balances
    user_base, user_quote      \* the taker's balances

tradeVars == <<params, base_vault, quote_vault, user_base, user_quote>>

TradesInit ==
    /\ params \in ParamChoices
    /\ \E v \in VaultChoices : base_vault = v[1] /\ quote_vault = v[2]
    /\ user_base = Wallet
    /\ user_quote = Wallet

Price(side, input) == Evaluate(params, side, input, base_vault, quote_vault)

Quoted(side, input) ==
    /\ EvaluateOk(params, side, input, base_vault, quote_vault)
    /\ OutputOk(side, input, Price(side, input))

Output(side, input) == OutputAmount(side, input, Price(side, input))

Buy(input) ==
    LET out == Output("Buy", input) IN
    /\ Quoted("Buy", input)
    /\ input <= user_quote
    /\ out <= base_vault
    /\ user_quote' = user_quote - input
    /\ quote_vault' = quote_vault + input
    /\ base_vault' = base_vault - out
    /\ user_base' = user_base + out
    /\ UNCHANGED params

Sell(input) ==
    LET out == Output("Sell", input) IN
    /\ Quoted("Sell", input)
    /\ input <= user_base
    /\ out <= quote_vault
    /\ user_base' = user_base - input
    /\ base_vault' = base_vault + input
    /\ quote_vault' = quote_vault - out
    /\ user_quote' = user_quote + out
    /\ UNCHANGED params

TradesNext == \E input \in InputAmounts : Buy(input) \/ Sell(input)

TradesSpec == TradesInit /\ [][TradesNext]_tradeVars

----------------------------------------------------------------------------
(* What the web app would show for the same trade. *)

SdkEvaluate(side, input) == EvaluateCurve(params, side, input, base_vault, quote_vault)

SdkSimulate(side, input) == SimulateSwap(params, side, input, base_vault, quote_vault)

----------------------------------------------------------------------------
(* Properties. *)

(* The vaults' worth at the pool's own fair value, times PRICE_SCALE. *)
VaultValue == base_vault * params.fair_value + quote_vault * PRICE_SCALE

(* Types of the state. *)
TradesTypeOK ==
    /\ params \in PriceParams /\ ParamsOK(params)
    /\ base_vault \in Nat /\ quote_vault \in Nat
    /\ user_base \in Nat /\ user_quote \in Nat

(* While half the spread covers the largest skew offset, no trade - and so *)
(* no sequence of trades - takes value out of the vaults at fair value:    *)
(* "every operation biased in the protocol's favour" (SPECIFICATION 2.2).  *)
NoValueLeak ==
    [][params.spread_bps \div 2 >= params.max_skew_offset_bps
          => VaultValue' >= VaultValue]_tradeVars

(* Whatever the skew, a trade costs the vaults at most the skew cap: what  *)
(* the taker pays is worth at least (1 - max_skew) of what is handed out.  *)
LossBounded ==
    [][\/ /\ quote_vault' >= quote_vault /\ base_vault' <= base_vault
          /\ (quote_vault' - quote_vault) * PRICE_SCALE * BPS_DENOMINATOR
               >= (base_vault - base_vault') * params.fair_value
                    * (BPS_DENOMINATOR - params.max_skew_offset_bps)
       \/ /\ base_vault' >= base_vault /\ quote_vault' <= quote_vault
          /\ (base_vault' - base_vault) * params.fair_value
                    * (BPS_DENOMINATOR + params.max_skew_offset_bps)
               >= (quote_vault - quote_vault') * PRICE_SCALE * BPS_DENOMINATOR]_tradeVars

(* In one state no size is bought for less than another is sold for: the   *)
(* common skew moves both sides together.                                  *)
SpreadOrdered ==
    \A x, y \in InputAmounts :
        Quoted("Buy", x) /\ Quoted("Sell", y) => Price("Sell", y) <= Price("Buy", x)

(* A larger trade never gets a better price.                               *)
DepthMonotone ==
    \A x, y \in InputAmounts :
        x <= y =>
            /\ Quoted("Buy", x) /\ Quoted("Buy", y) => Price("Buy", x) <= Price("Buy", y)
            /\ Quoted("Sell", x) /\ Quoted("Sell", y) => Price("Sell", y) <= Price("Sell", x)

(* Trading pushes the mid against the direction traded: a Buy does not     *)
(* lower the skew offset the next trade sees, a Sell does not raise it, up *)
(* to what rounding does to the offset at an inventory worth `total`:      *)
(* target_base_value is short of its exact value by up to a quote unit,    *)
(* imbalance_bps by up to one bps, and the offset by up to one more.       *)
SkewGrain(total) ==
    IF total = 0
    THEN 0
    ELSE 1 + MulDivFloor(params.skew_coef_bps, 1 + BPS_DENOMINATOR \div total, BPS_DENOMINATOR)

InventoryPushesBack ==
    [][LET Worth(b, q) == TotalValue(params, b, q)
           Skew(b, q) == SkewOffsetBps(params, b, q)
       IN  IF base_vault' <= base_vault /\ quote_vault' >= quote_vault
           THEN Skew(base_vault', quote_vault') + SkewGrain(Worth(base_vault', quote_vault'))
                    >= Skew(base_vault, quote_vault)
           ELSE Skew(base_vault', quote_vault')
                    <= Skew(base_vault, quote_vault) + SkewGrain(Worth(base_vault, quote_vault))
      ]_tradeVars

(* The factor applied to fair_value stays positive, as constants.rs argues *)
(* at compile time: the curve never refuses a trade with MathUnderflow.    *)
FactorPositive ==
    \A side \in Sides, x \in InputAmounts :
        BpsFactor(params, side, x, base_vault, quote_vault) > 0

(* curve.ts next to the program: the same price on a Sell; on a Buy at     *)
(* most one price unit lower, so the app never shows less than the program *)
(* pays.                                                                   *)
SdkWithinOneUnit ==
    \A x \in InputAmounts :
        /\ Quoted("Sell", x) => SdkEvaluate("Sell", x) = Price("Sell", x)
        /\ Quoted("Buy", x) =>
             /\ SdkEvaluate("Buy", x) \in {Price("Buy", x), Price("Buy", x) - 1}
             /\ SdkEvaluate("Buy", x) > 0 => SdkSimulate("Buy", x) >= Output("Buy", x)
=============================================================================
