---------------------------- MODULE CurveProofs ----------------------------
(***************************************************************************)
(* Facts about the quote curve that the proofs of Pool, Rfq and CurveTrades*)
(* cite, and the properties of CurveTrades for every oracle update, every  *)
(* inventory and every sequence of trades; the run checks them on five     *)
(* updates.                                                                *)
(***************************************************************************)
EXTENDS CurveTrades, TLAPS

----------------------------------------------------------------------------
(* Integer facts the provers need named. *)

(* Floor division, from the two inequalities that define it. *)
LEMMA DivFacts ==
    ASSUME NEW n \in Nat, NEW d \in Nat \ {0}
    PROVE  /\ n \div d \in Nat
           /\ d * (n \div d) <= n
           /\ n < d * (n \div d) + d
  BY SMT

(* Products keep an order when the common factor is a natural number. *)
LEMMA MulMono ==
    ASSUME NEW m \in Int, NEW n \in Int, NEW k \in Nat, m <= n
    PROVE  m * k <= n * k
  BY SMT

(* A product of natural numbers is one. *)
LEMMA MulNat ==
    ASSUME NEW m \in Nat, NEW n \in Nat
    PROVE  m * n \in Nat
  BY SMT

(* A common positive factor can be cancelled. *)
LEMMA MulCancel ==
    ASSUME NEW m \in Int, NEW n \in Int, NEW k \in Nat \ {0}, m * k <= n * k
    PROVE  m <= n
  BY SMT

(* A quotient grows with its dividend. *)
LEMMA DivMono ==
    ASSUME NEW m \in Nat, NEW n \in Nat, NEW d \in Nat \ {0}, m <= n
    PROVE  m \div d <= n \div d
  <1> DEFINE x == m \div d
             y == n \div d
  <1>1. x \in Nat /\ d * x <= m  BY DivFacts
  <1>2. y \in Nat /\ n < d * y + d  BY DivFacts
  <1> HIDE DEF x, y
  <1>3. CASE x >= y + 1
    <2>1. (y + 1) * d <= x * d  BY <1>1, <1>2, <1>3, MulMono
    <2>2. d * y + d <= d * x  BY <1>1, <1>2, <2>1
    <2> QED  BY <1>1, <1>2, <2>2
  <1> QED  BY <1>1, <1>2, <1>3 DEF x, y

(* A quotient does not shrink when its divisor does. *)
LEMMA DivAntitone ==
    ASSUME NEW n \in Nat, NEW d \in Nat \ {0}, NEW e \in Nat \ {0}, d <= e
    PROVE  n \div e <= n \div d
  <1> DEFINE x == n \div d
             y == n \div e
  <1>1. x \in Nat /\ n < d * x + d  BY DivFacts
  <1>2. y \in Nat /\ e * y <= n  BY DivFacts
  <1> HIDE DEF x, y
  <1>3. d * y <= e * y  BY <1>2, MulMono
  <1>4. CASE y >= x + 1
    <2>1. (x + 1) * d <= y * d  BY <1>1, <1>2, <1>4, MulMono
    <2>2. d * x + d <= d * y  BY <1>1, <1>2, <2>1
    <2> QED  BY <1>1, <1>2, <1>3, <2>2
  <1> QED  BY <1>1, <1>2, <1>4 DEF x, y

----------------------------------------------------------------------------
(* The helpers of curve.rs. *)

(* mul_div_floor: a natural number, at or below the exact quotient. *)
LEMMA MulDivFloorNat ==
    ASSUME NEW a \in Nat, NEW b \in Nat, NEW d \in Nat \ {0}
    PROVE  /\ MulDivFloor(a, b, d) \in Nat
           /\ d * MulDivFloor(a, b, d) <= a * b
  BY MulNat, DivFacts DEF MulDivFloor

(* mul_div_ceil: a natural number, at or above the exact quotient. *)
LEMMA MulDivCeilNat ==
    ASSUME NEW a \in Nat, NEW b \in Nat, NEW d \in Nat \ {0}
    PROVE  /\ MulDivCeil(a, b, d) \in Nat
           /\ a * b <= d * MulDivCeil(a, b, d)
  <1> DEFINE n == a * b + d - 1
  <1>1. a * b \in Nat  BY MulNat
  <1>2. n \in Nat  BY <1>1
  <1>3. n < d * (n \div d) + d /\ n \div d \in Nat  BY <1>2, DivFacts
  <1> QED  BY <1>1, <1>3 DEF MulDivCeil

(* Ceiling and floor of one quotient are the same or neighbours. *)
LEMMA CeilFloor ==
    ASSUME NEW a \in Nat, NEW b \in Nat, NEW d \in Nat \ {0}
    PROVE  MulDivFloor(a, b, d) \in {MulDivCeil(a, b, d), MulDivCeil(a, b, d) - 1}
  <1> DEFINE n == a * b
             f == n \div d
             c == (n + d - 1) \div d
  <1>1. n \in Nat /\ n + d - 1 \in Nat  BY MulNat
  <1>2. f \in Nat /\ d * f <= n /\ n < d * f + d  BY <1>1, DivFacts
  <1>3. c \in Nat /\ d * c <= n + d - 1 /\ n + d - 1 < d * c + d  BY <1>1, DivFacts
  <1> HIDE DEF n, f, c
  <1>4. f <= c
    <2>1. CASE f >= c + 1
      <3>1. (c + 1) * d <= f * d  BY <1>2, <1>3, <2>1, MulMono
      <3>2. d * c + d <= d * f  BY <1>2, <1>3, <3>1
      <3> QED  BY <1>1, <1>2, <1>3, <3>2
    <2> QED  BY <1>2, <1>3, <2>1
  <1>5. c <= f + 1
    <2>1. CASE c >= f + 2
      <3>1. (f + 2) * d <= c * d  BY <1>2, <1>3, <2>1, MulMono
      <3>2. d * f + d + d <= d * c  BY <1>2, <1>3, <3>1
      <3> QED  BY <1>1, <1>2, <1>3, <3>2
    <2> QED  BY <1>2, <1>3, <2>1
  <1> QED  BY <1>2, <1>3, <1>4, <1>5 DEF MulDivFloor, MulDivCeil, n, f, c

(* Division toward zero is an integer. *)
LEMMA TruncDivInt ==
    ASSUME NEW a \in Int, NEW d \in Nat \ {0}
    PROVE  TruncDiv(a, d) \in Int
  <1>1. CASE a >= 0  BY <1>1, DivFacts DEF TruncDiv
  <1>2. CASE a < 0
    <2>1. -a \in Nat  BY <1>2
    <2> QED  BY <1>2, <2>1, DivFacts DEF TruncDiv
  <1> QED  BY <1>1, <1>2

(* clamp(-bound, bound). *)
LEMMA ClampBounds ==
    ASSUME NEW x \in Int, NEW bound \in Nat
    PROVE  Clamp(x, bound) \in Int /\ -bound <= Clamp(x, bound) /\ Clamp(x, bound) <= bound
  BY DEF Clamp

----------------------------------------------------------------------------
(* The terms of the price. *)

(* The fields of an admissible parameter set, with their ranges. *)
LEMMA ParamsFacts ==
    ASSUME NEW p \in PriceParams, ParamsOK(p)
    PROVE  /\ p.fair_value \in Nat \ {0} /\ p.size_unit \in Nat \ {0}
           /\ p.spread_bps \in 0 .. MAX_SPREAD_BPS
           /\ p.depth_coef_bps \in Nat /\ p.max_depth_bps \in 0 .. MAX_DEPTH_BPS
           /\ p.target_base_bps \in Nat /\ p.skew_coef_bps \in Nat
           /\ p.max_skew_offset_bps \in 0 .. MAX_SKEW_OFFSET_BPS
  BY CurveConstants DEF PriceParams, ParamsOK

(* The skew offset stays within its cap on either side. *)
LEMMA SkewBounds ==
    ASSUME NEW p \in PriceParams, ParamsOK(p), NEW b \in Nat, NEW q \in Nat
    PROVE  /\ SkewOffsetBps(p, b, q) \in Int
           /\ -p.max_skew_offset_bps <= SkewOffsetBps(p, b, q)
           /\ SkewOffsetBps(p, b, q) <= p.max_skew_offset_bps
  <1> USE ParamsFacts, CurveConstants
  <1> DEFINE value == BaseValue(p, b)
             total == TotalValue(p, b, q)
             target == MulDivFloor(total, p.target_base_bps, BPS_DENOMINATOR)
  <1>1. value \in Nat  BY MulDivFloorNat DEF BaseValue
  <1>2. total \in Nat  BY <1>1 DEF TotalValue
  <1>3. ImbalanceBps(p, b, q) \in Int
    <2>1. CASE total = 0  BY <2>1 DEF ImbalanceBps
    <2>2. CASE total # 0
      <3>1. target \in Nat  BY <1>2, MulDivFloorNat
      <3> HIDE DEF target, value, total
      <3>2. (target - value) * BPS_DENOMINATOR \in Int  BY <3>1, <1>1
      <3>3. TruncDiv((target - value) * BPS_DENOMINATOR, total) \in Int
        BY <3>2, <2>2, <1>2, TruncDivInt
      <3> QED  BY <2>2, <3>3 DEF ImbalanceBps, SignedDiffBps, target, value, total
    <2> QED  BY <2>1, <2>2
  <1>4. ImbalanceBps(p, b, q) * p.skew_coef_bps \in Int  BY <1>3
  <1>5. TruncDiv(ImbalanceBps(p, b, q) * p.skew_coef_bps, BPS_DENOMINATOR) \in Int
    BY <1>4, TruncDivInt
  <1> QED  BY <1>5, ClampBounds DEF SkewOffsetBps

(* The depth term stays within its cap and is never negative. *)
LEMMA DepthBounds ==
    ASSUME NEW p \in PriceParams, ParamsOK(p), NEW side \in Sides, NEW x \in Nat
    PROVE  DepthBps(p, side, x) \in 0 .. p.max_depth_bps
  <1> USE ParamsFacts, CurveConstants
  <1>1. SizeBaseEquiv(p, side, x) \in Nat  BY MulDivFloorNat DEF SizeBaseEquiv
  <1>2. DepthRaw(p, side, x) \in Nat  BY <1>1, MulDivFloorNat DEF DepthRaw
  <1> QED  BY <1>2 DEF DepthBps

(* Where the factor of a side lies: the spread and the depth move it away  *)
(* from the skew, up for a Buy and down for a Sell, and never to zero.     *)
LEMMA FactorBounds ==
    ASSUME NEW p \in PriceParams, ParamsOK(p), NEW side \in Sides, NEW x \in Nat,
           NEW b \in Nat, NEW q \in Nat
    PROVE  /\ BpsFactor(p, side, x, b, q) \in Nat \ {0}
           /\ side = "Buy" => BpsFactor(p, side, x, b, q) >=
                  BPS_DENOMINATOR + (p.spread_bps \div 2) - p.max_skew_offset_bps
           /\ side = "Sell" => BpsFactor(p, side, x, b, q) <=
                  BPS_DENOMINATOR - (p.spread_bps \div 2) + p.max_skew_offset_bps
           /\ side = "Buy" => BpsFactor(p, side, x, b, q) >=
                  BPS_DENOMINATOR + SkewOffsetBps(p, b, q)
           /\ side = "Sell" => BpsFactor(p, side, x, b, q) <=
                  BPS_DENOMINATOR + SkewOffsetBps(p, b, q)
  <1> USE ParamsFacts, CurveConstants
  <1> DEFINE skew == SkewOffsetBps(p, b, q)
             depth == DepthBps(p, side, x)
             half == p.spread_bps \div 2
  <1>1. half \in 0 .. (MAX_SPREAD_BPS \div 2)  OBVIOUS
  <1>2. skew \in Int /\ -p.max_skew_offset_bps <= skew /\ skew <= p.max_skew_offset_bps
    BY SkewBounds
  <1>3. depth \in 0 .. p.max_depth_bps  BY DepthBounds
  <1>4. BpsFactor(p, side, x, b, q) =
            BPS_DENOMINATOR + (IF side = "Buy" THEN skew + (half + depth)
                                               ELSE skew - (half + depth))
    BY DEF BpsFactor, TotalBps
  <1> HIDE DEF skew, depth, half
  <1>5. BpsFactor(p, side, x, b, q) \in Nat \ {0}  BY <1>1, <1>2, <1>3, <1>4
  <1> QED  BY <1>1, <1>2, <1>3, <1>4, <1>5 DEF Sides, skew, half

(* The depth term grows with the size of the trade. *)
LEMMA DepthGrows ==
    ASSUME NEW p \in PriceParams, ParamsOK(p), NEW side \in Sides,
           NEW x \in Nat, NEW y \in Nat, x <= y
    PROVE  DepthBps(p, side, x) <= DepthBps(p, side, y)
  <1> USE ParamsFacts, CurveConstants
  <1> DEFINE sx == SizeBaseEquiv(p, side, x)
             sy == SizeBaseEquiv(p, side, y)
  <1>1. sx \in Nat /\ sy \in Nat /\ sx <= sy
    <2>1. x * PRICE_SCALE \in Nat /\ y * PRICE_SCALE \in Nat
          /\ x * PRICE_SCALE <= y * PRICE_SCALE
      BY MulNat, MulMono
    <2> QED  BY <2>1, DivMono, DivFacts DEF SizeBaseEquiv, MulDivFloor
  <1> HIDE DEF sx, sy
  <1>2. /\ sx * p.depth_coef_bps \in Nat /\ sy * p.depth_coef_bps \in Nat
        /\ sx * p.depth_coef_bps <= sy * p.depth_coef_bps
    BY <1>1, MulNat, MulMono
  <1>3. /\ DepthRaw(p, side, x) \in Nat /\ DepthRaw(p, side, y) \in Nat
        /\ DepthRaw(p, side, x) <= DepthRaw(p, side, y)
    BY <1>2, DivMono, DivFacts DEF DepthRaw, MulDivFloor, sx, sy
  <1> QED  BY <1>3 DEF DepthBps

(* The price, between the exact one and the rounding against the user. *)
LEMMA PriceBounds ==
    ASSUME NEW p \in PriceParams, ParamsOK(p), NEW side \in Sides, NEW x \in Nat,
           NEW b \in Nat, NEW q \in Nat
    PROVE  LET price == Evaluate(p, side, x, b, q)
               exact == p.fair_value * BpsFactor(p, side, x, b, q)
           IN  /\ price \in Nat
               /\ exact \in Nat
               /\ side = "Buy" => price # 0 /\ exact <= BPS_DENOMINATOR * price
               /\ side = "Sell" => BPS_DENOMINATOR * price <= exact
  <1> USE ParamsFacts, CurveConstants
  <1> DEFINE factor == BpsFactor(p, side, x, b, q)
  <1>1. factor \in Nat \ {0}  BY FactorBounds
  <1> HIDE DEF factor
  <1>2. p.fair_value * factor \in Nat /\ p.fair_value * factor >= 1
    <2>1. 1 * factor <= p.fair_value * factor  BY <1>1, MulMono
    <2> QED  BY <2>1, <1>1, MulNat
  <1>3. CASE side = "Buy"
    <2> DEFINE price == MulDivCeil(p.fair_value, factor, BPS_DENOMINATOR)
    <2>1. price \in Nat /\ p.fair_value * factor <= BPS_DENOMINATOR * price
      BY <1>1, MulDivCeilNat
    <2>2. price # 0  BY <2>1, <1>2
    <2> QED  BY <1>2, <1>3, <2>1, <2>2 DEF Evaluate, factor
  <1>4. CASE side = "Sell"
    <2>1. MulDivFloor(p.fair_value, factor, BPS_DENOMINATOR) \in Nat
      BY <1>1, MulDivFloorNat
    <2>2. BPS_DENOMINATOR * MulDivFloor(p.fair_value, factor, BPS_DENOMINATOR)
             <= p.fair_value * factor
      BY <1>1, MulDivFloorNat
    <2> QED  BY <1>2, <1>4, <2>1, <2>2 DEF Evaluate, factor
  <1> QED  BY <1>3, <1>4 DEF Sides

(* The output is worth no more than the input at the execution price. *)
LEMMA OutputBounds ==
    ASSUME NEW x \in Nat, NEW price \in Nat
    PROVE  /\ price # 0 => /\ OutputAmount("Buy", x, price) \in Nat
                           /\ price * OutputAmount("Buy", x, price) <= x * PRICE_SCALE
           /\ OutputAmount("Sell", x, price) \in Nat
           /\ PRICE_SCALE * OutputAmount("Sell", x, price) <= x * price
  BY MulDivFloorNat, CurveConstants DEF OutputAmount

(* What is paid for a Buy is worth at least k/den of what is handed out.   *)
LEMMA BuyWorth ==
    ASSUME NEW fair \in Nat, NEW factor \in Nat, NEW price \in Nat, NEW out \in Nat,
           NEW paid \in Nat, NEW den \in Nat, NEW k \in Nat,
           k <= factor, fair * factor <= den * price, price * out <= paid
    PROVE  (out * fair) * k <= paid * den
  <1>1. k * fair <= factor * fair  BY MulMono
  <1>2. k * fair <= price * den  BY <1>1
  <1>3. (k * fair) * out <= (price * den) * out
    <2>1. k * fair \in Nat /\ price * den \in Nat  BY MulNat
    <2> QED  BY <1>2, <2>1, MulMono
  <1>4. (price * out) * den <= paid * den
    <2>1. price * out \in Nat  BY MulNat
    <2> QED  BY <2>1, MulMono
  <1>5. (price * den) * out = (price * out) * den  OBVIOUS
  <1>6. (k * fair) * out = (out * fair) * k  OBVIOUS
  <1> QED  BY <1>3, <1>4, <1>5, <1>6

(* What is handed out for a Sell is worth at most k/den of what is paid.   *)
LEMMA SellWorth ==
    ASSUME NEW fair \in Nat, NEW factor \in Nat, NEW price \in Nat, NEW paid \in Nat,
           NEW out \in Nat, NEW den \in Nat, NEW k \in Nat,
           factor <= k, den * price <= fair * factor, out <= paid * price
    PROVE  out * den <= (paid * fair) * k
  <1>1. factor * fair <= k * fair  BY MulMono
  <1>2. price * den <= k * fair  BY <1>1
  <1>3. (price * den) * paid <= (k * fair) * paid
    <2>1. k * fair \in Nat /\ price * den \in Nat  BY MulNat
    <2> QED  BY <1>2, <2>1, MulMono
  <1>4. out * den <= (paid * price) * den
    <2>1. paid * price \in Nat  BY MulNat
    <2> QED  BY <2>1, MulMono
  <1>5. (price * den) * paid = (paid * price) * den  OBVIOUS
  <1>6. (k * fair) * paid = (paid * fair) * k  OBVIOUS
  <1> QED  BY <1>3, <1>4, <1>5, <1>6

----------------------------------------------------------------------------
(* CurveTrades. *)

(* The state of CurveTrades stays well typed: balances never go below zero. *)
THEOREM TradesTypeCorrect == TradesSpec => []TradesTypeOK
  <1>1. TradesInit => TradesTypeOK  BY TradesConstants DEF TradesInit, TradesTypeOK
  <1>2. TradesTypeOK /\ [TradesNext]_tradeVars => TradesTypeOK'
    <2> SUFFICES ASSUME TradesTypeOK, [TradesNext]_tradeVars PROVE TradesTypeOK'  OBVIOUS
    <2>1. ASSUME NEW x \in InputAmounts, Buy(x) PROVE TradesTypeOK'
      <3>1. x \in Nat  BY TradesConstants
      <3>2. Price("Buy", x) \in Nat \ {0}  BY <3>1, PriceBounds DEF TradesTypeOK, Price, Sides
      <3>3. Output("Buy", x) \in Nat  BY <3>1, <3>2, OutputBounds DEF Output
      <3> QED  BY <2>1, <3>1, <3>3 DEF TradesTypeOK, Buy
    <2>2. ASSUME NEW x \in InputAmounts, Sell(x) PROVE TradesTypeOK'
      <3>1. x \in Nat  BY TradesConstants
      <3>2. Price("Sell", x) \in Nat  BY <3>1, PriceBounds DEF TradesTypeOK, Price, Sides
      <3>3. Output("Sell", x) \in Nat  BY <3>1, <3>2, OutputBounds DEF Output
      <3> QED  BY <2>2, <3>1, <3>3 DEF TradesTypeOK, Sell
    <2>3. CASE UNCHANGED tradeVars  BY <2>3 DEF TradesTypeOK, tradeVars
    <2> QED  BY <2>1, <2>2, <2>3 DEF TradesNext
  <1> QED  BY <1>1, <1>2, PTL DEF TradesSpec

(* The compile-time argument of constants.rs: the bps factor is positive   *)
(* whatever the vaults hold, so a trade is never refused with MathUnderflow.*)
THEOREM FactorAlwaysPositive == TradesSpec => []FactorPositive
  <1>1. TradesTypeOK => FactorPositive
    BY FactorBounds, TradesConstants DEF TradesTypeOK, FactorPositive
  <1> QED  BY <1>1, TradesTypeCorrect, PTL

(* No size is bought for less than another is sold for in the same state.  *)
THEOREM SidesNeverCross == TradesSpec => []SpreadOrdered
  <1>1. TradesTypeOK => SpreadOrdered
    <2> SUFFICES ASSUME TradesTypeOK, NEW x \in InputAmounts, NEW y \in InputAmounts
                 PROVE  Price("Sell", y) <= Price("Buy", x)
      BY DEF SpreadOrdered
    <2> DEFINE fair == params.fair_value
               mid == BPS_DENOMINATOR + SkewOffsetBps(params, base_vault, quote_vault)
               up == BpsFactor(params, "Buy", x, base_vault, quote_vault)
               down == BpsFactor(params, "Sell", y, base_vault, quote_vault)
    <2>1. x \in Nat /\ y \in Nat /\ fair \in Nat /\ BPS_DENOMINATOR \in Nat \ {0}
      BY TradesConstants, CurveConstants, ParamsFacts DEF TradesTypeOK
    <2>2. mid \in Int  BY SkewBounds, CurveConstants DEF TradesTypeOK
    <2>3. up \in Nat /\ mid <= up  BY <2>1, FactorBounds DEF TradesTypeOK, Sides
    <2>4. down \in Nat /\ down <= mid  BY <2>1, FactorBounds DEF TradesTypeOK, Sides
    <2>5. /\ Price("Buy", x) \in Nat
          /\ fair * up <= BPS_DENOMINATOR * Price("Buy", x)
      BY <2>1, PriceBounds DEF TradesTypeOK, Sides, Price
    <2>6. /\ Price("Sell", y) \in Nat
          /\ BPS_DENOMINATOR * Price("Sell", y) <= fair * down
      BY <2>1, PriceBounds DEF TradesTypeOK, Sides, Price
    <2> HIDE DEF fair, mid, up, down
    <2>7. down * fair <= up * fair  BY <2>1, <2>2, <2>3, <2>4, MulMono
    <2>8. Price("Sell", y) * BPS_DENOMINATOR <= Price("Buy", x) * BPS_DENOMINATOR
      BY <2>1, <2>3, <2>4, <2>5, <2>6, <2>7
    <2> QED  BY <2>1, <2>5, <2>6, <2>8, MulCancel
  <1> QED  BY <1>1, TradesTypeCorrect, PTL

----------------------------------------------------------------------------
(* What one trade is worth.  Both theorems on value rest on these two: the *)
(* amounts that change hands, against the exact price before rounding.     *)

(* A Buy: the vault receives the input and pays out at most its worth.     *)
LEMMA BuyExchange ==
    ASSUME TradesTypeOK, NEW x \in InputAmounts, Buy(x)
    PROVE  \E out \in Nat, price \in Nat \ {0}, factor \in Nat :
              /\ base_vault' = base_vault - out /\ quote_vault' = quote_vault + x
              /\ params' = params
              /\ factor >= BPS_DENOMINATOR + (params.spread_bps \div 2)
                              - params.max_skew_offset_bps
              /\ params.fair_value * factor <= BPS_DENOMINATOR * price
              /\ price * out <= x * PRICE_SCALE
  <1>1. x \in Nat  BY TradesConstants
  <1>2. /\ Price("Buy", x) \in Nat \ {0}
        /\ params.fair_value * BpsFactor(params, "Buy", x, base_vault, quote_vault)
              <= BPS_DENOMINATOR * Price("Buy", x)
    BY <1>1, PriceBounds DEF TradesTypeOK, Sides, Price
  <1>3. /\ Output("Buy", x) \in Nat
        /\ Price("Buy", x) * Output("Buy", x) <= x * PRICE_SCALE
    BY <1>1, <1>2, OutputBounds DEF Output
  <1>4. /\ BpsFactor(params, "Buy", x, base_vault, quote_vault) \in Nat
        /\ BpsFactor(params, "Buy", x, base_vault, quote_vault) >=
              BPS_DENOMINATOR + (params.spread_bps \div 2) - params.max_skew_offset_bps
    BY <1>1, FactorBounds DEF TradesTypeOK, Sides
  <1>5. /\ base_vault' = base_vault - Output("Buy", x)
        /\ quote_vault' = quote_vault + x /\ params' = params
    BY DEF Buy
  <1> QED  BY <1>2, <1>3, <1>4, <1>5

(* A Sell: the vault receives the input and pays out at most its worth.    *)
LEMMA SellExchange ==
    ASSUME TradesTypeOK, NEW x \in InputAmounts, Sell(x)
    PROVE  \E out \in Nat, price \in Nat, factor \in Nat :
              /\ base_vault' = base_vault + x /\ quote_vault' = quote_vault - out
              /\ params' = params
              /\ factor <= BPS_DENOMINATOR - (params.spread_bps \div 2)
                              + params.max_skew_offset_bps
              /\ BPS_DENOMINATOR * price <= params.fair_value * factor
              /\ PRICE_SCALE * out <= x * price
  <1>1. x \in Nat  BY TradesConstants
  <1>2. /\ Price("Sell", x) \in Nat
        /\ BPS_DENOMINATOR * Price("Sell", x)
              <= params.fair_value * BpsFactor(params, "Sell", x, base_vault, quote_vault)
    BY <1>1, PriceBounds DEF TradesTypeOK, Sides, Price
  <1>3. /\ Output("Sell", x) \in Nat
        /\ PRICE_SCALE * Output("Sell", x) <= x * Price("Sell", x)
    BY <1>1, <1>2, OutputBounds DEF Output
  <1>4. /\ BpsFactor(params, "Sell", x, base_vault, quote_vault) \in Nat
        /\ BpsFactor(params, "Sell", x, base_vault, quote_vault) <=
              BPS_DENOMINATOR - (params.spread_bps \div 2) + params.max_skew_offset_bps
    BY <1>1, FactorBounds DEF TradesTypeOK, Sides
  <1>5. /\ base_vault' = base_vault + x
        /\ quote_vault' = quote_vault - Output("Sell", x) /\ params' = params
    BY DEF Sell
  <1> QED  BY <1>2, <1>3, <1>4, <1>5

(* "Every operation biased in the protocol's favour": no trade lowers the  *)
(* vaults' worth at fair value, while half the spread covers the skew cap. *)
THEOREM NoValueLeaks == TradesSpec => NoValueLeak
  <1>1. TradesTypeOK /\ [TradesNext]_tradeVars
          => [params.spread_bps \div 2 >= params.max_skew_offset_bps
                => VaultValue' >= VaultValue]_tradeVars
    <2> SUFFICES ASSUME TradesTypeOK, TradesNext,
                        params.spread_bps \div 2 >= params.max_skew_offset_bps
                 PROVE  VaultValue' >= VaultValue
      BY DEF tradeVars, VaultValue
    <2> DEFINE fair == params.fair_value
    <2>0. /\ fair \in Nat /\ base_vault \in Nat /\ quote_vault \in Nat
          /\ PRICE_SCALE \in Nat /\ BPS_DENOMINATOR \in Nat \ {0}
          /\ params.spread_bps \div 2 \in Nat /\ params.max_skew_offset_bps \in Nat
      BY ParamsFacts, CurveConstants DEF TradesTypeOK
    <2>1. ASSUME NEW x \in InputAmounts, Buy(x) PROVE VaultValue' >= VaultValue
      <3>1. x \in Nat /\ x * PRICE_SCALE \in Nat  BY <2>0, TradesConstants, MulNat
      <3>2. PICK out \in Nat, price \in Nat \ {0}, factor \in Nat :
              /\ base_vault' = base_vault - out /\ quote_vault' = quote_vault + x
              /\ params' = params
              /\ factor >= BPS_DENOMINATOR + (params.spread_bps \div 2)
                              - params.max_skew_offset_bps
              /\ fair * factor <= BPS_DENOMINATOR * price
              /\ price * out <= x * PRICE_SCALE
        BY <2>1, BuyExchange
      <3>3. BPS_DENOMINATOR <= factor  BY <2>0, <3>2
      <3> HIDE DEF fair
      <3>4. (out * fair) * BPS_DENOMINATOR <= (x * PRICE_SCALE) * BPS_DENOMINATOR
        BY <2>0, <3>1, <3>2, <3>3, BuyWorth
      <3>5. out * fair <= x * PRICE_SCALE
        <4>1. out * fair \in Nat  BY <2>0, <3>2, MulNat
        <4> QED  BY <2>0, <3>1, <3>4, <4>1, MulCancel
      <3>6. VaultValue' = VaultValue + x * PRICE_SCALE - out * fair
        BY <2>0, <3>1, <3>2 DEF VaultValue, fair
      <3>7. VaultValue \in Nat /\ out * fair \in Nat
        BY <2>0, <3>2, MulNat DEF VaultValue, fair
      <3> QED  BY <3>1, <3>5, <3>6, <3>7
    <2>2. ASSUME NEW x \in InputAmounts, Sell(x) PROVE VaultValue' >= VaultValue
      <3>1. x \in Nat  BY TradesConstants
      <3>2. PICK out \in Nat, price \in Nat, factor \in Nat :
              /\ base_vault' = base_vault + x /\ quote_vault' = quote_vault - out
              /\ params' = params
              /\ factor <= BPS_DENOMINATOR - (params.spread_bps \div 2)
                              + params.max_skew_offset_bps
              /\ BPS_DENOMINATOR * price <= fair * factor
              /\ PRICE_SCALE * out <= x * price
        BY <2>2, SellExchange
      <3>3. factor <= BPS_DENOMINATOR  BY <2>0, <3>2
      <3> HIDE DEF fair
      <3>4. PRICE_SCALE * out \in Nat /\ x * fair \in Nat  BY <2>0, <3>1, <3>2, MulNat
      <3>5. (PRICE_SCALE * out) * BPS_DENOMINATOR <= (x * fair) * BPS_DENOMINATOR
        BY <2>0, <3>1, <3>2, <3>3, <3>4, SellWorth
      <3>6. PRICE_SCALE * out <= x * fair  BY <2>0, <3>4, <3>5, MulCancel
      <3>7. VaultValue' = VaultValue + x * fair - PRICE_SCALE * out
        BY <2>0, <3>1, <3>2 DEF VaultValue, fair
      <3>8. VaultValue \in Nat  BY <2>0, MulNat DEF VaultValue, fair
      <3> QED  BY <3>4, <3>6, <3>7, <3>8
    <2> QED  BY <2>1, <2>2 DEF TradesNext
  <1> QED  BY <1>1, TradesTypeCorrect, PTL DEF TradesSpec, NoValueLeak

(* Whatever the skew offset does, a trade costs the vaults at most the     *)
(* skew cap of what it hands out.                                          *)
THEOREM LossIsBounded == TradesSpec => LossBounded
  <1> DEFINE fair == params.fair_value
             cap == params.max_skew_offset_bps
             paidForBase == /\ quote_vault' >= quote_vault /\ base_vault' <= base_vault
                            /\ (quote_vault' - quote_vault) * PRICE_SCALE * BPS_DENOMINATOR
                                 >= (base_vault - base_vault') * fair * (BPS_DENOMINATOR - cap)
             paidForQuote == /\ base_vault' >= base_vault /\ quote_vault' <= quote_vault
                             /\ (base_vault' - base_vault) * fair * (BPS_DENOMINATOR + cap)
                                  >= (quote_vault - quote_vault') * PRICE_SCALE * BPS_DENOMINATOR
  <1>1. ASSUME TradesTypeOK, [TradesNext]_tradeVars
        PROVE  [paidForBase \/ paidForQuote]_tradeVars
    <2> SUFFICES ASSUME TradesNext PROVE paidForBase \/ paidForQuote
      BY <1>1
    <2>0. /\ fair \in Nat /\ base_vault \in Nat /\ quote_vault \in Nat
          /\ PRICE_SCALE \in Nat /\ BPS_DENOMINATOR \in Nat \ {0}
          /\ params.spread_bps \div 2 \in Nat /\ cap \in Nat
          /\ BPS_DENOMINATOR - cap \in Nat
      BY <1>1, ParamsFacts, CurveConstants DEF TradesTypeOK
    <2>1. ASSUME NEW x \in InputAmounts, Buy(x) PROVE paidForBase
      <3>1. x \in Nat /\ x * PRICE_SCALE \in Nat  BY <2>0, TradesConstants, MulNat
      <3>2. PICK out \in Nat, price \in Nat \ {0}, factor \in Nat :
              /\ base_vault' = base_vault - out /\ quote_vault' = quote_vault + x
              /\ params' = params
              /\ factor >= BPS_DENOMINATOR + (params.spread_bps \div 2) - cap
              /\ fair * factor <= BPS_DENOMINATOR * price
              /\ price * out <= x * PRICE_SCALE
        BY <1>1, <2>1, BuyExchange
      <3> HIDE DEF fair, cap
      <3>3. BPS_DENOMINATOR - cap <= factor  BY <2>0, <3>2
      <3>4. (out * fair) * (BPS_DENOMINATOR - cap) <= (x * PRICE_SCALE) * BPS_DENOMINATOR
        BY <2>0, <3>1, <3>2, <3>3, BuyWorth
      <3>5. /\ base_vault - base_vault' = out /\ quote_vault' - quote_vault = x
            /\ quote_vault' >= quote_vault /\ base_vault' <= base_vault
        BY <2>0, <3>1, <3>2
      <3> QED  BY <3>4, <3>5
    <2>2. ASSUME NEW x \in InputAmounts, Sell(x) PROVE paidForQuote
      <3>1. x \in Nat  BY TradesConstants
      <3>2. PICK out \in Nat, price \in Nat, factor \in Nat :
              /\ base_vault' = base_vault + x /\ quote_vault' = quote_vault - out
              /\ params' = params
              /\ factor <= BPS_DENOMINATOR - (params.spread_bps \div 2) + cap
              /\ BPS_DENOMINATOR * price <= fair * factor
              /\ PRICE_SCALE * out <= x * price
        BY <1>1, <2>2, SellExchange
      <3> HIDE DEF fair, cap
      <3>3. factor <= BPS_DENOMINATOR + cap /\ BPS_DENOMINATOR + cap \in Nat
        BY <2>0, <3>2
      <3>4. PRICE_SCALE * out \in Nat  BY <2>0, <3>2, MulNat
      <3>5. (PRICE_SCALE * out) * BPS_DENOMINATOR <= (x * fair) * (BPS_DENOMINATOR + cap)
        BY <2>0, <3>1, <3>2, <3>3, <3>4, SellWorth
      <3>6. /\ quote_vault - quote_vault' = out /\ base_vault' - base_vault = x
            /\ base_vault' >= base_vault /\ quote_vault' <= quote_vault
        BY <2>0, <3>1, <3>2
      <3>7. PRICE_SCALE * out = out * PRICE_SCALE  BY <2>0, <3>2
      <3> QED  BY <3>5, <3>6, <3>7
    <2> QED  BY <2>1, <2>2 DEF TradesNext
  <1>2. TradesTypeOK /\ [TradesNext]_tradeVars => [paidForBase \/ paidForQuote]_tradeVars  BY <1>1
  <1> QED  BY <1>2, TradesTypeCorrect, PTL DEF TradesSpec, LossBounded

----------------------------------------------------------------------------
(* The app's price equals the program's on a Sell and is at most one unit  *)
(* below it on a Buy; so the app never shows less than the program pays.   *)
THEOREM SdkErrsByOneUnit == TradesSpec => []SdkWithinOneUnit
  <1>1. TradesTypeOK => SdkWithinOneUnit
    <2> SUFFICES ASSUME TradesTypeOK, NEW x \in InputAmounts
                 PROVE  /\ SdkEvaluate("Sell", x) = Price("Sell", x)
                        /\ SdkEvaluate("Buy", x) \in {Price("Buy", x), Price("Buy", x) - 1}
                        /\ SdkEvaluate("Buy", x) > 0
                              => SdkSimulate("Buy", x) >= Output("Buy", x)
      BY DEF SdkWithinOneUnit
    <2>1. x \in Nat /\ params.fair_value \in Nat /\ BPS_DENOMINATOR \in Nat \ {0}
      BY TradesConstants, CurveConstants, ParamsFacts DEF TradesTypeOK
    <2>2. SdkEvaluate("Sell", x) = Price("Sell", x)
      BY DEF SdkEvaluate, EvaluateCurve, Price, Evaluate
    <2>3. BpsFactor(params, "Buy", x, base_vault, quote_vault) \in Nat
      BY <2>1, FactorBounds DEF TradesTypeOK, Sides
    <2>4. SdkEvaluate("Buy", x) \in {Price("Buy", x), Price("Buy", x) - 1}
      BY <2>1, <2>3, CeilFloor DEF SdkEvaluate, EvaluateCurve, Price, Evaluate
    <2>5. Price("Buy", x) \in Nat \ {0}  BY <2>1, PriceBounds DEF TradesTypeOK, Sides, Price
    <2>6. ASSUME SdkEvaluate("Buy", x) > 0
          PROVE  SdkSimulate("Buy", x) >= Output("Buy", x)
      <3>1. /\ SdkEvaluate("Buy", x) \in Nat \ {0}
            /\ SdkEvaluate("Buy", x) <= Price("Buy", x)
        BY <2>4, <2>5, <2>6
      <3>2. x * PRICE_SCALE \in Nat  BY <2>1, CurveConstants, MulNat
      <3>3. (x * PRICE_SCALE) \div Price("Buy", x)
               <= (x * PRICE_SCALE) \div SdkEvaluate("Buy", x)
        BY <2>5, <3>1, <3>2, DivAntitone
      <3>4. /\ SdkSimulate("Buy", x) = (x * PRICE_SCALE) \div SdkEvaluate("Buy", x)
            /\ Output("Buy", x) = (x * PRICE_SCALE) \div Price("Buy", x)
        BY DEF SdkSimulate, SimulateSwap, SdkEvaluate, Output, OutputAmount, MulDivFloor
      <3>5. /\ (x * PRICE_SCALE) \div SdkEvaluate("Buy", x) \in Nat
            /\ (x * PRICE_SCALE) \div Price("Buy", x) \in Nat
        BY <2>5, <3>1, <3>2, DivFacts
      <3> QED  BY <3>3, <3>4, <3>5
    <2> QED  BY <2>2, <2>4, <2>6
  <1> QED  BY <1>1, TradesTypeCorrect, PTL

----------------------------------------------------------------------------
(* A larger trade never gets a better price, on either side.               *)
THEOREM LargerIsNotCheaper == TradesSpec => []DepthMonotone
  <1>1. TradesTypeOK => DepthMonotone
    <2> SUFFICES ASSUME TradesTypeOK, NEW x \in InputAmounts, NEW y \in InputAmounts, x <= y
                 PROVE  /\ Price("Buy", x) <= Price("Buy", y)
                        /\ Price("Sell", y) <= Price("Sell", x)
      BY DEF DepthMonotone
    <2> DEFINE fair == params.fair_value
               bx == BpsFactor(params, "Buy", x, base_vault, quote_vault)
               by == BpsFactor(params, "Buy", y, base_vault, quote_vault)
               lx == BpsFactor(params, "Sell", x, base_vault, quote_vault)
               ly == BpsFactor(params, "Sell", y, base_vault, quote_vault)
    <2>1. x \in Nat /\ y \in Nat /\ fair \in Nat /\ BPS_DENOMINATOR \in Nat \ {0}
          /\ params.spread_bps \div 2 \in Nat
      BY TradesConstants, CurveConstants, ParamsFacts DEF TradesTypeOK
    <2>2. SkewOffsetBps(params, base_vault, quote_vault) \in Int  BY SkewBounds DEF TradesTypeOK
    <2>3. \A side \in Sides :
            /\ DepthBps(params, side, x) \in Nat /\ DepthBps(params, side, y) \in Nat
            /\ DepthBps(params, side, x) <= DepthBps(params, side, y)
      BY <2>1, DepthBounds, DepthGrows, ParamsFacts DEF TradesTypeOK
    <2>4. bx \in Nat /\ by \in Nat /\ lx \in Nat /\ ly \in Nat
      BY <2>1, FactorBounds DEF TradesTypeOK, Sides
    <2>5. bx <= by /\ ly <= lx
      BY <2>1, <2>2, <2>3 DEF BpsFactor, TotalBps, Sides
    <2> HIDE DEF fair, bx, by, lx, ly
    <2>6. /\ fair * bx \in Nat /\ fair * by \in Nat /\ fair * lx \in Nat /\ fair * ly \in Nat
          /\ fair * bx <= fair * by /\ fair * ly <= fair * lx
      <3>1. bx * fair <= by * fair /\ ly * fair <= lx * fair  BY <2>1, <2>4, <2>5, MulMono
      <3> QED  BY <2>1, <2>4, <3>1, MulNat
    <2>7. (fair * bx + BPS_DENOMINATOR - 1) \div BPS_DENOMINATOR
            <= (fair * by + BPS_DENOMINATOR - 1) \div BPS_DENOMINATOR
      <3>1. /\ fair * bx + BPS_DENOMINATOR - 1 \in Nat
            /\ fair * by + BPS_DENOMINATOR - 1 \in Nat
            /\ fair * bx + BPS_DENOMINATOR - 1 <= fair * by + BPS_DENOMINATOR - 1
        BY <2>1, <2>6
      <3> QED  BY <2>1, <3>1, DivMono
    <2>8. (fair * ly) \div BPS_DENOMINATOR <= (fair * lx) \div BPS_DENOMINATOR
      BY <2>1, <2>6, DivMono
    <2> QED
      BY <2>7, <2>8 DEF Price, Evaluate, MulDivCeil, MulDivFloor, fair, bx, by, lx, ly
  <1> QED  BY <1>1, TradesTypeCorrect, PTL
----------------------------------------------------------------------------
(* How the skew offset follows the inventory. *)

(* Division toward zero keeps an order. *)
LEMMA TruncMono ==
    ASSUME NEW m \in Int, NEW n \in Int, NEW d \in Nat \ {0}, m <= n
    PROVE  TruncDiv(m, d) <= TruncDiv(n, d)
  <1>1. CASE m >= 0
    <2>1. m \in Nat /\ n \in Nat /\ n >= 0  BY <1>1
    <2> QED  BY <1>1, <2>1, DivMono DEF TruncDiv
  <1>2. CASE m < 0 /\ n >= 0
    <2>1. -m \in Nat /\ n \in Nat /\ ~ (m >= 0)  BY <1>2
    <2>2. (-m) \div d \in Nat /\ n \div d \in Nat  BY <2>1, DivFacts
    <2>3. -((-m) \div d) <= n \div d  BY <2>2
    <2> QED  BY <1>2, <2>1, <2>3 DEF TruncDiv
  <1>3. CASE n < 0
    <2>1. -m \in Nat /\ -n \in Nat /\ -n <= -m /\ ~ (m >= 0) /\ ~ (n >= 0)  BY <1>3
    <2>2. (-n) \div d <= (-m) \div d  BY <2>1, DivMono
    <2>3. (-n) \div d \in Nat /\ (-m) \div d \in Nat  BY <2>1, DivFacts
    <2>4. -((-m) \div d) <= -((-n) \div d)  BY <2>2, <2>3
    <2> QED  BY <2>1, <2>4 DEF TruncDiv
  <1> QED  BY <1>1, <1>2, <1>3

(* Where the quotient lies: less than one from the exact one, on the side  *)
(* of zero.                                                                *)
LEMMA TruncFacts ==
    ASSUME NEW n \in Int, NEW d \in Nat \ {0}, NEW i, i = TruncDiv(n, d)
    PROVE  /\ i \in Int
           /\ n >= 0 => i >= 0 /\ i * d <= n /\ n < (i + 1) * d
           /\ n < 0 => i <= 0 /\ n <= i * d /\ (i - 1) * d < n
  <1>1. CASE n >= 0
    <2>1. n \in Nat /\ i = n \div d  BY <1>1 DEF TruncDiv
    <2>2. i \in Nat /\ d * i <= n /\ n < d * i + d  BY <2>1, DivFacts
    <2>3. d * i = i * d /\ d * i + d = (i + 1) * d  BY <2>2
    <2> QED  BY <1>1, <2>2, <2>3
  <1>2. CASE n < 0
    <2>1. -n \in Nat /\ ~ (n >= 0)  BY <1>2
    <2> DEFINE k == (-n) \div d
    <2>2. k \in Nat /\ d * k <= -n /\ -n < d * k + d  BY <2>1, DivFacts
    <2>3. i = -k  BY <2>1 DEF TruncDiv
    <2> HIDE DEF k
    <2>4. d * k \in Nat /\ i * d = -(d * k) /\ (i - 1) * d = -(d * k) - d  BY <2>2, <2>3
    <2>5. n <= -(d * k) /\ -(d * k) - d < n  BY <2>2, <2>4
    <2> QED  BY <1>2, <2>2, <2>3, <2>4, <2>5
  <1> QED  BY <1>1, <1>2

(* Taking e away from a dividend takes at most 1 + e \div d off.           *)
LEMMA TruncShift ==
    ASSUME NEW n \in Int, NEW e \in Nat, NEW d \in Nat \ {0},
           NEW i, i = TruncDiv(n, d), NEW m, m = n - e, NEW j, j = TruncDiv(m, d),
           NEW g, g = e \div d
    PROVE  i <= j + 1 + g
  <1>1. g \in Nat /\ e < d * g + d  BY DivFacts
  <1>2. m \in Int  OBVIOUS
  <1>3. /\ i \in Int
        /\ n >= 0 => i >= 0 /\ i * d <= n
        /\ n < 0 => i <= 0 /\ (i - 1) * d < n
    BY TruncFacts
  <1>4. /\ j \in Int
        /\ m >= 0 => j >= 0 /\ m < (j + 1) * d
        /\ m < 0 => j <= 0 /\ m <= j * d
    BY <1>2, TruncFacts
  <1>5. e < (1 + g) * d  BY <1>1
  <1>6. SUFFICES ASSUME i >= j + 2 + g PROVE FALSE  BY <1>1, <1>3, <1>4
  <1>7. CASE m >= 0
    <2>1. n >= 0 /\ i * d <= n /\ m < (j + 1) * d  BY <1>3, <1>4, <1>7
    <2>2. (j + 2 + g) * d <= i * d  BY <1>1, <1>3, <1>4, <1>6, MulMono
    <2>3. (j + 2 + g) * d = (j + 1) * d + (1 + g) * d  BY <1>1, <1>4
    <2>4. (j + 1) * d \in Int /\ (1 + g) * d \in Int /\ i * d \in Int  BY <1>1, <1>3, <1>4
    <2> QED  BY <1>2, <1>5, <2>1, <2>2, <2>3, <2>4
  <1>8. CASE m < 0
    <2>1. m <= j * d /\ j <= 0  BY <1>4, <1>8
    <2>2. CASE n >= 0
      <3>1. i * d <= n  BY <1>3, <2>2
      <3>2. (j + 2 + g) * d <= i * d  BY <1>1, <1>3, <1>4, <1>6, MulMono
      <3>3. (j + 2 + g) * d = (j + 1) * d + (1 + g) * d  BY <1>1, <1>4
      <3>4. (j + 1) * d = j * d + d  BY <1>4
      <3>5. j * d \in Int /\ (1 + g) * d \in Int /\ i * d \in Int  BY <1>1, <1>3, <1>4
      <3> QED  BY <1>2, <1>5, <2>1, <3>1, <3>2, <3>3, <3>4, <3>5
    <2>3. CASE n < 0
      <3>1. (i - 1) * d < n  BY <1>3, <2>3
      <3>2. (j + 1 + g) * d <= (i - 1) * d  BY <1>1, <1>3, <1>4, <1>6, MulMono
      <3>3. (j + 1 + g) * d = j * d + (1 + g) * d  BY <1>1, <1>4
      <3>4. j * d \in Int /\ (1 + g) * d \in Int /\ (i - 1) * d \in Int  BY <1>1, <1>3, <1>4
      <3> QED  BY <1>2, <1>5, <2>1, <3>1, <3>2, <3>3, <3>4
    <2> QED  BY <2>2, <2>3
  <1> QED  BY <1>2, <1>7, <1>8

(* The arithmetic of the next lemma: two inventories worth s and t, with   *)
(* base worth v and w, targets f and g, imbalances i and j; B is           *)
(* BPS_DENOMINATOR and r the target in bps.                                *)
LEMMA ImbalanceArithmetic ==
    ASSUME NEW s \in Nat \ {0}, NEW t \in Nat \ {0}, NEW v \in Nat, NEW w \in Nat,
           NEW B \in Nat \ {0}, NEW r \in Nat,
           NEW f \in Nat, B * f <= s * r,
           NEW g \in Nat, t * r < B * g + B,
           w * s <= v * t,
           NEW i, i = TruncDiv((f - v) * B, s), NEW j, j = TruncDiv((g - w) * B, t)
    PROVE  i <= j + 1 + (B \div t)
  <1> DEFINE n == (f - v) * B
             m == (g - w) * B
             k == 1 + (B \div t)
  <1>1. k \in Nat \ {0} /\ B < k * t
    <2>1. B \div t \in Nat /\ B < t * (B \div t) + t  BY DivFacts
    <2> HIDE DEF k
    <2> DEFINE q == B \div t
    <2>2. k = 1 + q  BY DEF k
    <2> HIDE DEF q
    <2>3. q \in Nat /\ B < t * q + t  BY <2>1 DEF q
    <2>4. k * t = t * q + t  BY <2>2, <2>3
    <2> QED  BY <2>2, <2>3, <2>4
  <1>2. n \in Int /\ m \in Int  OBVIOUS
  <1>3. i = TruncDiv(n, s) /\ j = TruncDiv(m, t)  OBVIOUS
  <1> HIDE DEF n, m
  <1>4. /\ i \in Int
        /\ n >= 0 => i >= 0 /\ i * s <= n
        /\ n < 0 => i <= 0 /\ (i - 1) * s < n
    BY <1>2, <1>3, TruncFacts
  <1>5. /\ j \in Int
        /\ m >= 0 => j >= 0 /\ m < (j + 1) * t
        /\ m < 0 => j <= 0 /\ m <= j * t
    BY <1>2, <1>3, TruncFacts
  (* The exact quotients: n / s is below m / t but for one unit of target. *)
  <1>6. n * t < m * s + B * s
    <2>1. (B * f) * t <= (s * r) * t  BY MulMono, MulNat
    <2>2. (t * r + 1) * s <= (B * g + B) * s  BY MulMono, MulNat
    <2>3. (w * s) * B <= (v * t) * B  BY MulMono, MulNat
    <2>4. n * t = (B * f) * t - (v * t) * B  BY DEF n
    <2>5. m * s = (B * g + B) * s - B * s - (w * s) * B  BY DEF m
    <2>6. (s * r) * t = (t * r + 1) * s - s  OBVIOUS
    <2> DEFINE a1 == (B * f) * t
               a2 == (s * r) * t
               a3 == (t * r + 1) * s
               a4 == (B * g + B) * s
               a5 == (w * s) * B
               a6 == (v * t) * B
               a7 == B * s
               nt == n * t
               ms == m * s
    <2>7. /\ a1 \in Int /\ a2 \in Int /\ a3 \in Int /\ a4 \in Int /\ a5 \in Int
          /\ a6 \in Int /\ a7 \in Int /\ nt \in Int /\ ms \in Int
      BY <1>2
    <2>8. /\ a1 <= a2 /\ a3 <= a4 /\ a5 <= a6 /\ nt = a1 - a6
          /\ ms = a4 - a7 - a5 /\ a2 = a3 - s
      BY <2>1, <2>2, <2>3, <2>4, <2>5, <2>6
    <2> HIDE DEF a1, a2, a3, a4, a5, a6, a7, nt, ms
    <2>9. nt < ms + a7  BY <2>7, <2>8
    <2> QED  BY <2>9 DEF nt, ms, a7
  <1> HIDE DEF k
  <1>7. SUFFICES ASSUME i >= j + k + 1 PROVE FALSE
    <2>1. i <= j + k  BY <1>1, <1>4, <1>5, <1>7
    <2>2. B \div t \in Nat  BY DivFacts
    <2>3. PICK q \in Nat : q = B \div t  BY <2>2
    <2>4. k = 1 + q  BY <2>3 DEF k
    <2>5. i <= j + 1 + q  BY <1>4, <1>5, <2>1, <2>3, <2>4
    <2> QED  BY <2>3, <2>5
  <1> DEFINE st == s * t
  <1>8. st \in Nat \ {0}  OBVIOUS
  <1>9. B * s < k * st
    <2>1. (B + 1) * s <= (k * t) * s  BY <1>1, MulMono, MulNat
    <2>2. (B + 1) * s = B * s + s /\ (k * t) * s = k * st  BY <1>1
    <2>3. B * s \in Nat /\ k * st \in Nat  BY <1>1, <1>8, MulNat
    <2> QED  BY <2>1, <2>2, <2>3
  <1>10. CASE n >= 0
    <2>1. i * s <= n /\ i >= 0  BY <1>4, <1>10
    <2>2. m <= (j + 1) * t  BY <1>2, <1>5
    <2>3. (i * s) * t <= n * t  BY <1>2, <1>4, <2>1, MulMono
    <2>4. m * s <= ((j + 1) * t) * s  BY <1>2, <1>5, <2>2, MulMono
    <2>5. (i * s) * t = i * st /\ ((j + 1) * t) * s = (j + 1) * st  BY <1>4, <1>5
    <2>6. (j + k + 1) * st <= i * st  BY <1>1, <1>4, <1>5, <1>7, <1>8, MulMono
    <2>7. (j + k + 1) * st = (j + 1) * st + k * st  BY <1>1, <1>5, <1>8
    <2>8. /\ n * t \in Int /\ m * s \in Int /\ B * s \in Int /\ i * st \in Int
          /\ (j + 1) * st \in Int /\ k * st \in Int
      BY <1>1, <1>2, <1>4, <1>5, <1>8
    <2> HIDE DEF st
    <2> QED  BY <1>6, <1>9, <2>3, <2>4, <2>5, <2>6, <2>7, <2>8
  <1>11. CASE n < 0
    <2>1. (i - 1) * s < n /\ i <= 0  BY <1>4, <1>11
    <2>2. m <= j * t  BY <1>1, <1>2, <1>4, <1>5, <1>7, <2>1
    <2>3. ((i - 1) * s) * t <= n * t  BY <1>2, <1>4, <2>1, MulMono
    <2>4. m * s <= (j * t) * s  BY <1>2, <1>5, <2>2, MulMono
    <2>5. ((i - 1) * s) * t = (i - 1) * st /\ (j * t) * s = j * st  BY <1>4, <1>5
    <2>6. (j + k) * st <= (i - 1) * st  BY <1>1, <1>4, <1>5, <1>7, <1>8, MulMono
    <2>7. (j + k) * st = j * st + k * st  BY <1>1, <1>5, <1>8
    <2>8. /\ n * t \in Int /\ m * s \in Int /\ B * s \in Int /\ (i - 1) * st \in Int
          /\ j * st \in Int /\ k * st \in Int
      BY <1>1, <1>2, <1>4, <1>5, <1>8
    <2> HIDE DEF st
    <2> QED  BY <1>6, <1>9, <2>3, <2>4, <2>5, <2>6, <2>7, <2>8
  <1> QED  BY <1>2, <1>10, <1>11

(* With less base and more quote in the vaults, imbalance_bps is as high   *)
(* as before, up to rounding.                                              *)
LEMMA ImbalancePushed ==
    ASSUME NEW p \in PriceParams, ParamsOK(p),
           NEW b \in Nat, NEW q \in Nat, NEW c \in Nat, NEW r \in Nat, c <= b, q <= r,
           TotalValue(p, c, r) # 0
    PROVE  /\ ImbalanceBps(p, b, q) \in Int /\ ImbalanceBps(p, c, r) \in Int
           /\ ImbalanceBps(p, b, q)
                <= ImbalanceBps(p, c, r) + 1 + (BPS_DENOMINATOR \div TotalValue(p, c, r))
  <1> DEFINE B == BPS_DENOMINATOR
             target == p.target_base_bps
             v == BaseValue(p, b)
             w == BaseValue(p, c)
             s == TotalValue(p, b, q)
             t == TotalValue(p, c, r)
             f == MulDivFloor(s, target, B)
             g == MulDivFloor(t, target, B)
             i == ImbalanceBps(p, b, q)
             j == ImbalanceBps(p, c, r)
  <1>1. B \in Nat \ {0} /\ target \in Nat  BY CurveConstants, ParamsFacts
  <1>2. v \in Nat /\ w \in Nat /\ w <= v
    <2>1. p.fair_value \in Nat /\ PRICE_SCALE \in Nat \ {0}  BY CurveConstants, ParamsFacts
    <2>2. c * p.fair_value <= b * p.fair_value  BY <2>1, MulMono
    <2>3. c * p.fair_value \in Nat /\ b * p.fair_value \in Nat  BY <2>1, MulNat
    <2> QED  BY <2>1, <2>2, <2>3, DivMono, DivFacts DEF BaseValue, MulDivFloor
  <1>3. s = v + q /\ t = w + r  BY DEF TotalValue
  <1>4. s \in Nat /\ t \in Nat \ {0}  BY <1>2, <1>3
  <1>5. /\ i = IF s = 0 THEN 0 ELSE TruncDiv((f - v) * B, s)
        /\ j = TruncDiv((g - w) * B, t)
    BY DEF ImbalanceBps, SignedDiffBps
  <1>6. f \in Nat /\ B * f <= s * target  BY <1>1, <1>4, MulDivFloorNat
  <1>7. g \in Nat /\ t * target < B * g + B
    <2>1. t * target \in Nat  BY <1>1, <1>4, MulNat
    <2> HIDE DEF t
    <2> QED  BY <1>1, <2>1, DivFacts DEF MulDivFloor
  <1> HIDE DEF B, target, v, w, s, t, f, g, i, j
  <1>8. j \in Int
    <2>1. (g - w) * B \in Int  BY <1>1, <1>2, <1>7
    <2> QED  BY <1>4, <1>5, <2>1, TruncDivInt
  <1>9. CASE s = 0
    <2>1. i = 0 /\ w = 0 /\ (g - w) * B >= 0  BY <1>1, <1>2, <1>3, <1>5, <1>7, <1>9
    <2>2. (g - w) * B \in Int  BY <1>1, <1>2, <1>7
    <2>3. j >= 0  BY <1>4, <1>5, <2>1, <2>2, TruncFacts
    <2>4. B \div t \in Nat  BY <1>1, <1>4, DivFacts
    <2>5. i \in Int /\ i <= j + 1 + (B \div t)  BY <1>8, <2>1, <2>3, <2>4
    <2> QED  BY <1>8, <2>5 DEF B, t, i, j
  <1>10. CASE s # 0
    <2>1. (f - v) * B \in Int  BY <1>1, <1>2, <1>6
    <2>2. i \in Int  BY <1>4, <1>5, <1>10, <2>1, TruncDivInt
    <2>3. w * s <= v * t
      <3>1. w * q <= v * r
        <4>1. w * q <= v * q  BY <1>2, MulMono
        <4>2. q * v <= r * v  BY <1>2, MulMono
        <4>3. w * q \in Int /\ v * q \in Int /\ v * r \in Int  BY <1>2
        <4> QED  BY <1>2, <4>1, <4>2, <4>3
      <3>2. w * s = w * v + w * q /\ v * t = w * v + v * r  BY <1>2, <1>3
      <3>3. w * q \in Int /\ w * v \in Int /\ v * r \in Int  BY <1>2
      <3> QED  BY <3>1, <3>2, <3>3
    <2>4. i <= j + 1 + (B \div t)
      BY <1>1, <1>2, <1>4, <1>5, <1>6, <1>7, <1>10, <2>3, ImbalanceArithmetic
    <2> QED  BY <1>8, <2>2, <2>4 DEF B, t, i, j
  <1> QED  BY <1>9, <1>10

(* And so is the skew offset.                                              *)
LEMMA SkewPushed ==
    ASSUME NEW p \in PriceParams, ParamsOK(p),
           NEW b \in Nat, NEW q \in Nat, NEW c \in Nat, NEW r \in Nat, c <= b, q <= r,
           TotalValue(p, c, r) # 0
    PROVE  SkewOffsetBps(p, b, q)
             <= SkewOffsetBps(p, c, r)
                  + (1 + MulDivFloor(p.skew_coef_bps,
                                     1 + BPS_DENOMINATOR \div TotalValue(p, c, r),
                                     BPS_DENOMINATOR))
  <1> DEFINE B == BPS_DENOMINATOR
             coef == p.skew_coef_bps
             cap == p.max_skew_offset_bps
             t == TotalValue(p, c, r)
             k == 1 + (B \div t)
             i == ImbalanceBps(p, b, q)
             j == ImbalanceBps(p, c, r)
             x == TruncDiv(i * coef, B)
             y == TruncDiv(j * coef, B)
             h == (coef * k) \div B
  <1>1. B \in Nat \ {0} /\ coef \in Nat /\ cap \in Nat  BY CurveConstants, ParamsFacts
  <1>2. t \in Nat \ {0}
    <2>1. BaseValue(p, c) \in Nat
      BY CurveConstants, ParamsFacts, MulDivFloorNat DEF BaseValue
    <2> QED  BY <2>1 DEF TotalValue
  <1>3. B \div t \in Nat /\ k \in Nat
    <2> HIDE DEF B, t
    <2> QED  BY <1>1, <1>2, DivFacts
  <1>4. i \in Int /\ j \in Int /\ i <= j + k
    <2>1. i \in Int /\ j \in Int /\ i <= j + 1 + (B \div t)  BY ImbalancePushed
    <2> HIDE DEF B, t, i, j
    <2>2. PICK d \in Nat : d = B \div t  BY <1>3
    <2>3. i <= j + 1 + d  BY <2>1, <2>2
    <2>4. i <= j + (1 + d)  BY <2>1, <2>2, <2>3
    <2> QED  BY <2>1, <2>2, <2>4
  <1>5. /\ SkewOffsetBps(p, b, q) = Clamp(x, cap) /\ SkewOffsetBps(p, c, r) = Clamp(y, cap)
        /\ MulDivFloor(p.skew_coef_bps, 1 + BPS_DENOMINATOR \div TotalValue(p, c, r),
                       BPS_DENOMINATOR) = h
    BY DEF SkewOffsetBps, MulDivFloor
  <1> HIDE DEF i, j, k, B, coef, cap, t
  <1>6. x \in Int /\ y \in Int /\ h \in Nat /\ x <= y + 1 + h
    <2> DEFINE e == coef * k
               m == j * coef
               n == m + e
               z == TruncDiv(n, B)
    <2>1. e \in Nat /\ m \in Int /\ n \in Int /\ i * coef \in Int
      BY <1>1, <1>3, <1>4, MulNat
    <2>2. i * coef <= n
      <3>1. i * coef <= (j + k) * coef  BY <1>1, <1>3, <1>4, MulMono
      <3>2. (j + k) * coef = j * coef + coef * k  BY <1>1, <1>3, <1>4
      <3> QED  BY <3>1, <3>2
    <2>3. m = n - e  BY <2>1
    <2> HIDE DEF e, m, n
    <2>4. x <= z  BY <1>1, <2>1, <2>2, TruncMono
    <2>5. h = e \div B /\ y = TruncDiv(m, B) /\ z = TruncDiv(n, B)  BY DEF e, m
    <2> HIDE DEF z, x, y, h
    <2>6. z <= y + 1 + h  BY <1>1, <2>1, <2>3, <2>5, TruncShift
    <2>7. x \in Int /\ y \in Int /\ z \in Int /\ h \in Nat
      BY <1>1, <2>1, <2>5, TruncDivInt, DivFacts DEF x
    <2> QED  BY <2>4, <2>6, <2>7
  <1> HIDE DEF x, y, h
  <1>7. Clamp(x, cap) <= Clamp(y, cap) + (1 + h)  BY <1>1, <1>6 DEF Clamp
  <1> QED  BY <1>5, <1>7

(* Vaults without quote are never short of base.                           *)
LEMMA NoQuoteNotShort ==
    ASSUME NEW p \in PriceParams, ParamsOK(p), NEW b \in Nat
    PROVE  SkewOffsetBps(p, b, 0) <= 0
  <1> DEFINE B == BPS_DENOMINATOR
             coef == p.skew_coef_bps
             cap == p.max_skew_offset_bps
             t == TotalValue(p, b, 0)
             f == MulDivFloor(t, p.target_base_bps, B)
             i == ImbalanceBps(p, b, 0)
             x == TruncDiv(i * coef, B)
  <1>1. /\ B \in Nat \ {0} /\ coef \in Nat /\ cap \in Nat
        /\ p.target_base_bps \in Nat /\ p.target_base_bps <= B
    BY CurveConstants, ParamsFacts DEF ParamsOK
  <1>2. t \in Nat /\ BaseValue(p, b) = t
    <2>1. BaseValue(p, b) \in Nat
      BY CurveConstants, ParamsFacts, MulDivFloorNat DEF BaseValue
    <2> QED  BY <2>1 DEF TotalValue
  <1>3. f \in Nat /\ f <= t
    <2>1. f \in Nat /\ B * f <= t * p.target_base_bps  BY <1>1, <1>2, MulDivFloorNat
    <2>2. p.target_base_bps * t <= B * t  BY <1>1, <1>2, MulMono
    <2> HIDE DEF f, t, B
    <2>3. f * B <= t * B
      <3>1. f * B = B * f /\ t * B = B * t  BY <1>1, <1>2, <2>1
      <3>2. t * p.target_base_bps = p.target_base_bps * t  BY <1>1, <1>2
      <3>3. B * f \in Int /\ B * t \in Int /\ t * p.target_base_bps \in Int
        BY <1>1, <1>2, <2>1
      <3> QED  BY <2>1, <2>2, <3>1, <3>2, <3>3
    <2> QED  BY <1>1, <1>2, <2>1, <2>3, MulCancel
  <1>4. i = IF t = 0 THEN 0 ELSE TruncDiv((f - t) * B, t)
    BY <1>2 DEF ImbalanceBps, SignedDiffBps
  <1>5. SkewOffsetBps(p, b, 0) = Clamp(x, cap)  BY DEF SkewOffsetBps
  <1> HIDE DEF B, coef, cap, t, f, i
  <1>6. i \in Int /\ i <= 0
    <2>1. CASE t = 0  BY <1>4, <2>1
    <2>2. CASE t # 0
      <3> DEFINE n == (f - t) * B
      <3>1. n \in Int /\ n <= 0 * B  BY <1>1, <1>2, <1>3, MulMono
      <3>2. i = TruncDiv(n, t)  BY <1>4, <2>2
      <3> HIDE DEF n
      <3>3. n <= 0  BY <1>1, <3>1
      <3>4. i \in Int /\ (n >= 0 => i * t <= n) /\ (n < 0 => i <= 0)
        BY <1>2, <2>2, <3>1, <3>2, TruncFacts
      <3>5. CASE n = 0
        <4>1. i = 0  BY <1>2, <2>2, <3>2, <3>5 DEF TruncDiv
        <4> QED  BY <4>1
      <3> QED  BY <3>1, <3>3, <3>4, <3>5
    <2> QED  BY <2>1, <2>2
  <1>7. x \in Int /\ x <= 0
    <2> DEFINE n == i * coef
    <2>1. n \in Int /\ n <= 0 * coef  BY <1>1, <1>6, MulMono
    <2>2. n <= 0  BY <1>1, <2>1
    <2>3. x = TruncDiv(n, B)  OBVIOUS
    <2> HIDE DEF n, x
    <2>4. CASE n = 0
      <3>1. x = 0  BY <1>1, <2>3, <2>4 DEF TruncDiv
      <3> QED  BY <3>1
    <2>5. CASE n < 0  BY <1>1, <2>1, <2>3, <2>5, TruncFacts
    <2> QED  BY <2>1, <2>2, <2>4, <2>5
  <1> HIDE DEF x
  <1> QED  BY <1>1, <1>5, <1>7 DEF Clamp

(* Nothing in the vaults is no imbalance.                                  *)
LEMMA EmptyNoSkew ==
    ASSUME NEW p \in PriceParams, ParamsOK(p), NEW b, NEW q, TotalValue(p, b, q) = 0
    PROVE  SkewOffsetBps(p, b, q) = 0
  <1>1. ImbalanceBps(p, b, q) = 0  BY DEF ImbalanceBps
  <1>2. 0 * p.skew_coef_bps = 0 /\ p.max_skew_offset_bps \in Nat
    BY CurveConstants, ParamsFacts
  <1>3. TruncDiv(0, BPS_DENOMINATOR) = 0  BY CurveConstants DEF TruncDiv
  <1> QED  BY <1>1, <1>2, <1>3 DEF SkewOffsetBps, Clamp

(* Trading pushes the mid against itself: the offset the next trade sees   *)
(* is no better for one that goes the same way, whatever the parameters.   *)
THEOREM TradesPushBack == TradesSpec => InventoryPushesBack
  <1> DEFINE B == BPS_DENOMINATOR
             Worth(b, q) == TotalValue(params, b, q)
             Skew(b, q) == SkewOffsetBps(params, b, q)
             P == IF base_vault' <= base_vault /\ quote_vault' >= quote_vault
                  THEN Skew(base_vault', quote_vault')
                         + SkewGrain(Worth(base_vault', quote_vault'))
                           >= Skew(base_vault, quote_vault)
                  ELSE Skew(base_vault', quote_vault')
                         <= Skew(base_vault, quote_vault)
                              + SkewGrain(Worth(base_vault, quote_vault))
  <1>1. ASSUME TradesTypeOK, TradesTypeOK', [TradesNext]_tradeVars PROVE [P]_tradeVars
    <2> SUFFICES ASSUME TradesNext PROVE P  BY <1>1
    <2>0. /\ params \in PriceParams /\ ParamsOK(params)
          /\ base_vault \in Nat /\ quote_vault \in Nat
          /\ base_vault' \in Nat /\ quote_vault' \in Nat
      BY <1>1 DEF TradesTypeOK
    <2>1. ASSUME NEW b \in Nat, NEW q \in Nat
          PROVE  /\ Worth(b, q) \in Nat /\ Worth(b, q) >= q /\ Skew(b, q) \in Int
                 /\ Worth(b, q) # 0 => SkewGrain(Worth(b, q)) =
                      1 + MulDivFloor(params.skew_coef_bps, 1 + B \div Worth(b, q), B)
                 /\ Worth(b, q) = 0 => SkewGrain(Worth(b, q)) = 0
      <3>1. BaseValue(params, b) \in Nat
        BY <2>0, CurveConstants, ParamsFacts, MulDivFloorNat DEF BaseValue
      <3>2. Skew(b, q) \in Int  BY <2>0, SkewBounds
      <3> QED  BY <3>1, <3>2 DEF TotalValue, SkewGrain
    <2>2. ASSUME NEW x \in InputAmounts, Buy(x) PROVE P
      <3>1. x \in Nat \ {0}  BY TradesConstants
      <3>2. base_vault' <= base_vault /\ quote_vault' = quote_vault + x
        BY <1>1, <2>0, <2>2, BuyExchange
      <3>3. quote_vault <= quote_vault' /\ quote_vault' # 0  BY <2>0, <3>1, <3>2
      <3>4. Worth(base_vault', quote_vault') # 0  BY <2>0, <2>1, <3>3
      <3>5. Skew(base_vault, quote_vault)
              <= Skew(base_vault', quote_vault') + SkewGrain(Worth(base_vault', quote_vault'))
        BY <2>0, <2>1, <3>2, <3>3, <3>4, SkewPushed
      <3> QED  BY <3>2, <3>3, <3>5
    <2>3. ASSUME NEW x \in InputAmounts, Sell(x) PROVE P
      <3>1. x \in Nat \ {0}  BY TradesConstants
      <3>2. base_vault' = base_vault + x /\ quote_vault' <= quote_vault
        BY <1>1, <2>0, <2>3, SellExchange
      <3>3. base_vault <= base_vault' /\ ~ (base_vault' <= base_vault)  BY <2>0, <3>1, <3>2
      <3>4. CASE Worth(base_vault, quote_vault) # 0
        <4>1. Skew(base_vault', quote_vault')
                <= Skew(base_vault, quote_vault) + SkewGrain(Worth(base_vault, quote_vault))
          BY <2>0, <2>1, <3>2, <3>3, <3>4, SkewPushed
        <4> QED  BY <3>3, <4>1
      <3>5. CASE Worth(base_vault, quote_vault) = 0
        <4>1. quote_vault' = 0  BY <2>0, <2>1, <3>2, <3>5
        <4>2. Skew(base_vault', quote_vault') <= 0  BY <2>0, <4>1, NoQuoteNotShort
        <4>3. Skew(base_vault, quote_vault) = 0  BY <2>0, <3>5, EmptyNoSkew
        <4>4. SkewGrain(Worth(base_vault, quote_vault)) = 0  BY <2>0, <2>1, <3>5
        <4>5. Skew(base_vault', quote_vault') \in Int  BY <2>0, <2>1
        <4>6. Skew(base_vault', quote_vault')
                <= Skew(base_vault, quote_vault) + SkewGrain(Worth(base_vault, quote_vault))
          BY <4>2, <4>3, <4>4, <4>5
        <4> QED  BY <3>3, <4>6
      <3> QED  BY <3>4, <3>5
    <2> QED  BY <2>2, <2>3 DEF TradesNext
  <1>2. TradesTypeOK /\ TradesTypeOK' /\ [TradesNext]_tradeVars => [P]_tradeVars  BY <1>1
  <1> QED  BY <1>2, TradesTypeCorrect, PTL DEF TradesSpec, InventoryPushesBack
=============================================================================
