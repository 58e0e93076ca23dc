----------------------------- MODULE MCSwapPage -----------------------------
(* Instance of SwapPage at PRICE_SCALE = 1000: an update for the curve and *)
(* one for the RFQ only, vaults short of base (the skew is at its cap) and *)
(* vaults too small to trade from.                                         *)
EXTENDS SwapPage

Update(fair, ttl) ==
    [ttl |-> ttl,
     p |-> [fair_value |-> fair, spread_bps |-> 100,
            depth_coef_bps |-> 50, size_unit |-> 1000, max_depth_bps |-> 60,
            target_base_bps |-> 5000, skew_coef_bps |-> 5000,
            max_skew_offset_bps |-> 100]]

MCInitial == Update(1000, 1)
MCUpdates == {MCInitial, Update(1030, 0)}

MCInitialVaults == [base |-> 60000, quote |-> 140000]
MCVaultChoices == {MCInitialVaults, [base |-> 100, quote |-> 900]}

MCVaultFaults == {{}, {"base"}}

MCForms == {[side |-> "Buy", input |-> 2000, slippage |-> 120],
            [side |-> "Sell", input |-> 1500, slippage |-> 120]}
=============================================================================
