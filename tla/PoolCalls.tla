----------------------------- MODULE PoolCalls -----------------------------
(***************************************************************************)
(* What the SDK's methods promise their caller, with no bytes in sight: a  *)
(* call names who signs and what is meant; the pool is a record; an        *)
(* answer says whether the call was done and which events a subscriber is  *)
(* handed.  Wire implements it through the encoders, the handlers and the  *)
(* decoders.                                                               *)
(***************************************************************************)
EXTENDS Curve, TLC

CONSTANTS
    Keys, ZeroKey,             \* wallets; Address::default(), which signs nothing
    BaseMint, QuoteMint,
    Prices,                    \* price parameters passed, some of them invalid
    Quotes,                    \* quotes the signers of the pool have signed
    Amounts,                   \* token amounts passed
    CurvePrice,                \* one price stands for the curve
    MAX_TTL_SLOTS,             \* 8
    SAFETY_BUFFER_SLOTS,       \* 150
    FirstSlot, LastSlot,       \* the clock's bounds
    MaxNonce,                  \* bound on the oracle nonces passed
    MaxCalls,                  \* bound on the calls made
    NoAccount

VARIABLES pool, proposal, markers, slot, call, answer, calls
vars == <<pool, proposal, markers, slot, call, answer, calls>>

PoolAddress == <<"pool", BaseMint, QuoteMint>>
VaultAddress(mint) == <<"vault", PoolAddress, mint>>

PriceOK(p) == ParamsOK(p) /\ p.current_mode_ttl <= MAX_TTL_SLOTS

Exists == pool # NoAccount
Fresh == /\ pool.current_mode_ttl > 0
         /\ slot - pool.last_oracle_update_slot \in 0 .. pool.current_mode_ttl

-----------------------------------------------------------------------------
Event(name, data) == [name |-> name, data |-> data @@ [pool |-> PoolAddress, slot |-> slot]]

(* A call is done, and heard of, exactly when `may` holds.                 *)
Answered(asked, may, events) ==
    /\ calls < MaxCalls
    /\ call' = asked
    /\ calls' = calls + 1
    /\ answer' = [done |-> may, events |-> IF may THEN events ELSE {}]
    /\ UNCHANGED slot

(* A pool is for two mints, the lower address first.                       *)
MintPairs == {<<BaseMint, QuoteMint>>, <<QuoteMint, BaseMint>>, <<BaseMint, ZeroKey>>}

InitPool(by, mints, oracle, quote, price) ==
    LET may == /\ ~Exists /\ mints = <<BaseMint, QuoteMint>>
               /\ ZeroKey \notin {oracle, quote} /\ PriceOK(price)
    IN /\ Answered(<<"init_pool", by, mints, oracle, quote, price>>, may,
            {Event("PoolInitialized",
                [admin |-> by, oracle_signer |-> oracle, quote_signer |-> quote,
                 base_mint |-> BaseMint, quote_mint |-> QuoteMint,
                 fair_value |-> price.fair_value, spread_bps |-> price.spread_bps,
                 current_mode_ttl |-> price.current_mode_ttl])})
       /\ pool' = IF may THEN price @@
            [admin |-> by, authorized_oracle_signer |-> oracle,
             authorized_quote_signer |-> quote, base_mint |-> BaseMint,
             quote_mint |-> QuoteMint, base_vault |-> VaultAddress(BaseMint),
             quote_vault |-> VaultAddress(QuoteMint), last_oracle_update_slot |-> slot,
             oracle_nonce |-> 0, paused |-> FALSE]
            ELSE pool
       /\ UNCHANGED <<proposal, markers>>

(* `right` tells whether the caller passed the pool's own address.         *)
UpdateOracle(by, right, price, nonce) ==
    LET may == /\ Exists /\ right /\ PriceOK(price)
               /\ by = pool.authorized_oracle_signer /\ ~pool.paused
               /\ nonce > pool.oracle_nonce
    IN /\ Answered(<<"update_oracle", by, right, price, nonce>>, may, {})
       /\ pool' = IF may
            THEN price @@ [oracle_nonce |-> nonce, last_oracle_update_slot |-> slot] @@ pool
            ELSE pool
       /\ UNCHANGED <<proposal, markers>>

(* ByAdmin: calls that only the admin of the pool may make.                *)
ByAdmin(asked, by, may, fields, events) ==
    LET allowed == Exists /\ by = pool.admin /\ may
    IN /\ Answered(asked, allowed, events)
       /\ pool' = IF allowed THEN fields @@ pool ELSE pool
       /\ UNCHANGED <<proposal, markers>>

SetPaused(by, p) ==
    ByAdmin(<<"set_paused", by, p>>, by, TRUE, [paused |-> p],
        {Event("PoolPausedChanged", [admin |-> by, paused |-> p])})

Rotation(by, old, new) == [admin |-> by, previous_signer |-> old, new_signer |-> new]
RotateOracleSigner(by, new) ==
    ByAdmin(<<"rotate_oracle_signer", by, new>>, by, new # ZeroKey,
        [authorized_oracle_signer |-> new],
        {Event("OracleSignerRotated", Rotation(by, pool.authorized_oracle_signer, new))})
RotateQuoteSigner(by, new) ==
    ByAdmin(<<"rotate_quote_signer", by, new>>, by, new # ZeroKey,
        [authorized_quote_signer |-> new],
        {Event("QuoteSignerRotated", Rotation(by, pool.authorized_quote_signer, new))})
RotateAdmin(by, new) ==
    ByAdmin(<<"rotate_admin", by, new>>, by, TRUE, [admin |-> new],
        {Event("AdminRotated", [previous_admin |-> by, new_admin |-> new])})
Withdraw(by, base, quote) ==
    ByAdmin(<<"admin_withdraw_inventory", by, base, quote>>, by, base + quote > 0, << >>,
        {Event("InventoryWithdrawn",
            [admin |-> by, base_amount |-> base, quote_amount |-> quote])})

ProposeAdmin(by, new) ==
    LET may == /\ Exists /\ by = pool.admin /\ proposal = NoAccount
               /\ new \notin {ZeroKey, pool.admin}
    IN /\ Answered(<<"propose_admin", by, new>>, may,
            {Event("AdminProposalCreated", [proposed_by |-> by, new_admin |-> new])})
       /\ proposal' = IF may
            THEN [pool |-> PoolAddress, proposed_by |-> by, new_admin |-> new,
                  created_slot |-> slot]
            ELSE proposal
       /\ UNCHANGED <<pool, markers>>

AcceptAdmin(by) ==
    LET may == /\ Exists /\ proposal # NoAccount
               /\ proposal.new_admin = by /\ proposal.proposed_by = pool.admin
    IN /\ Answered(<<"accept_admin", by>>, may,
            {Event("AdminRotated", [previous_admin |-> pool.admin, new_admin |-> by])})
       /\ pool' = IF may THEN [pool EXCEPT !.admin = by] ELSE pool
       /\ proposal' = IF may THEN NoAccount ELSE proposal
       /\ UNCHANGED markers

CancelAdminProposal(by) ==
    LET may == Exists /\ by = pool.admin /\ proposal # NoAccount
    IN /\ Answered(<<"cancel_admin_proposal", by>>, may,
            {Event("AdminProposalCancelled",
                [admin |-> by, cancelled_new_admin |-> proposal.new_admin])})
       /\ proposal' = IF may THEN NoAccount ELSE proposal
       /\ UNCHANGED <<pool, markers>>

(* A swap takes the curve while it is fresh and the quote otherwise.       *)
Honoured(by, side, input, q) ==
    /\ q # NoAccount
    /\ q.user = by /\ q.direction = side /\ q.input_amount = input
    /\ slot <= q.expiry_slot /\ q.signer = pool.authorized_quote_signer
    /\ \A m \in markers : m.nonce # q.nonce

ExecuteSwap(by, side, input, q) ==
    LET curve == Exists /\ Fresh
        may == /\ Exists /\ ~pool.paused /\ input > 0
               /\ curve \/ Honoured(by, side, input, q)
        price == IF curve THEN CurvePrice ELSE q.price
    IN /\ Answered(<<"execute_swap", by, side, input, q>>, may,
            {Event("SwapExecuted",
                [user |-> by, direction |-> IF side = "Buy" THEN 0 ELSE 1,
                 mode |-> IF curve THEN 0 ELSE 1, input_amount |-> input,
                 output_amount |-> OutputAmount(side, input, price), execution_price |-> price,
                 quote_nonce |-> IF curve THEN 0 ELSE q.nonce])})
       /\ markers' = IF may /\ ~curve
            THEN markers \cup {[pool |-> PoolAddress, nonce |-> q.nonce,
                                expiry_slot |-> q.expiry_slot]}
            ELSE markers
       /\ UNCHANGED <<pool, proposal>>

CloseExpiredNonce(by, nonce) ==
    LET closable == {m \in markers : m.nonce = nonce /\ m.expiry_slot + SAFETY_BUFFER_SLOTS < slot}
    IN /\ Answered(<<"close_expired_nonce", by, nonce>>, Exists /\ closable # {},
            {Event("QuoteMarkerClosed",
                [closer |-> by, nonce |-> m.nonce, expiry_slot |-> m.expiry_slot]) :
                m \in closable})
       /\ markers' = markers \ closable
       /\ UNCHANGED <<pool, proposal>>

Tick == /\ slot < LastSlot /\ slot' = slot + 1
        /\ UNCHANGED <<pool, proposal, markers, call, answer, calls>>

Init ==
    /\ pool = NoAccount /\ proposal = NoAccount /\ markers = {}
    /\ slot = FirstSlot /\ call = NoAccount /\ answer = NoAccount /\ calls = 0

Next ==
    \/ Tick
    \/ \E by \in Keys :
        \/ \E m \in MintPairs, o, q \in Keys \cup {ZeroKey}, p \in Prices :
            InitPool(by, m, o, q, p)
        \/ \E right \in BOOLEAN, p \in Prices, n \in 0 .. MaxNonce : UpdateOracle(by, right, p, n)
        \/ \E p \in BOOLEAN : SetPaused(by, p)
        \/ \E new \in Keys \cup {ZeroKey} :
            RotateOracleSigner(by, new) \/ RotateQuoteSigner(by, new)
            \/ RotateAdmin(by, new) \/ ProposeAdmin(by, new)
        \/ \E b, q \in Amounts : Withdraw(by, b, q)
        \/ AcceptAdmin(by) \/ CancelAdminProposal(by)
        \/ \E side \in Sides, input \in Amounts, q \in Quotes \cup {NoAccount} :
            ExecuteSwap(by, side, input, q)
        \/ \E n \in {q.nonce : q \in Quotes} : CloseExpiredNonce(by, n)

Spec == Init /\ [][Next]_vars
=============================================================================
