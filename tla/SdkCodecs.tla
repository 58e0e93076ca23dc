----------------------------- MODULE SdkCodecs -----------------------------
(***************************************************************************)
(* The SDK's own account of the wire (sdk/src/borsh.ts, events.ts,         *)
(* program.ts, quote.ts): what it writes as instruction arguments, the     *)
(* accounts it lists and with which flags, and what it reads out of        *)
(* account data and of event bodies.  Field names are the program's.       *)
(***************************************************************************)
EXTENDS Layouts

SdkDepth == << <<"depth_coef_bps", 4>>, <<"size_unit", 8>>, <<"max_depth_bps", 2>>,
               <<"depth_reserved", 6>> >>
SdkSkew == << <<"target_base_bps", 2>>, <<"skew_coef_bps", 2>>,
              <<"max_skew_offset_bps", 2>>, <<"skew_reserved", 10>> >>

SdkPoolState == Table(
    << <<"discriminator", 8>>, <<"admin", 32>>, <<"authorized_oracle_signer", 32>>,
       <<"authorized_quote_signer", 32>>, <<"base_mint", 32>>, <<"quote_mint", 32>>,
       <<"base_vault", 32>>, <<"quote_vault", 32>>, <<"fair_value", 8>>,
       <<"spread_bps", 2>> >> \o SdkDepth \o SdkSkew \o
    << <<"last_oracle_update_slot", 8>>, <<"oracle_nonce", 8>>, <<"current_mode_ttl", 1>>,
       <<"bump", 1>>, <<"base_vault_bump", 1>>, <<"quote_vault_bump", 1>>,
       <<"paused", 1>> >>)

SdkProposal == Table(
    << <<"discriminator", 8>>, <<"pool", 32>>, <<"proposed_by", 32>>, <<"new_admin", 32>>,
       <<"created_slot", 8>>, <<"bump", 1>> >>)

SdkMarker == Table(
    << <<"discriminator", 8>>, <<"pool", 32>>, <<"nonce", 8>>, <<"expiry_slot", 8>>,
       <<"bump", 1>> >>)

SdkDiscriminator == [pool_state |-> 1, quote_nonce_marker |-> 2, admin_rotation_proposal |-> 3]

(* The decoders refuse data that is too short or of another type.          *)
Decodes(bytes, minimum, discriminator) ==
    Extent(DOMAIN bytes) >= minimum /\ Read(bytes, <<0, 8>>) = discriminator

DecodesPool(bytes) == Decodes(bytes, 8 + 291, SdkDiscriminator.pool_state)
DecodesMarker(bytes) == Decodes(bytes, 8 + 56, SdkDiscriminator.quote_nonce_marker)
DecodesProposal(bytes) == Decodes(bytes, 8 + 112, SdkDiscriminator.admin_rotation_proposal)

InstructionTag ==
    [init_pool |-> 0, update_oracle |-> 1, execute_swap |-> 2, set_paused |-> 3,
     rotate_oracle_signer |-> 4, rotate_admin |-> 5, admin_withdraw_inventory |-> 6,
     close_expired_nonce |-> 7, propose_admin |-> 8, accept_admin |-> 9,
     cancel_admin_proposal |-> 10, rotate_quote_signer |-> 11]

(* What each encoder writes after the tag.                                 *)
EncodeInitPool == Table(
    << <<"authorized_oracle_signer", 32>>, <<"authorized_quote_signer", 32>>,
       <<"fair_value", 8>>, <<"spread_bps", 2>> >> \o SdkDepth \o SdkSkew \o
    << <<"current_mode_ttl", 1>> >>)
EncodeUpdateOracle == Table(
    << <<"fair_value", 8>>, <<"spread_bps", 2>> >> \o SdkDepth \o SdkSkew \o
    << <<"oracle_nonce", 8>>, <<"current_mode_ttl", 1>> >>)
(* A slip: two fields of one width in the other order.                     *)
SdkQuoteTerms_ExpiryFirst == << <<"pool", 32>>, <<"user", 32>>, <<"direction", 1>>,
    <<"input_amount", 8>>, <<"expiry_slot", 8>>, <<"price", 8>>, <<"nonce", 8>>,
    <<"signature", 64>> >>
SdkQuoteTerms == << <<"pool", 32>>, <<"user", 32>>, <<"direction", 1>>,
    <<"input_amount", 8>>, <<"price", 8>>, <<"expiry_slot", 8>>, <<"nonce", 8>>,
    <<"signature", 64>> >>
EncodeExecuteSwap(some) == Table(
    << <<"swap_input", 8>>, <<"side", 1>>, <<"min_output", 8>>, <<"some", 1>> >>
    \o IF some THEN SdkQuoteTerms ELSE << >>)
EncodeKey == Table(<< <<"key", 32>> >>)
EncodePaused == Table(<< <<"paused", 1>> >>)
EncodeWithdraw == Table(<< <<"withdraw_base_amount", 8>>, <<"withdraw_quote_amount", 8>> >>)

(* serializeSignedQuoteMessage writes at literal offsets.                  *)
QuoteMessage == [pool |-> <<0, 32>>, user |-> <<32, 32>>, direction |-> <<64, 1>>,
    input_amount |-> <<65, 8>>, price |-> <<73, 8>>, expiry_slot |-> <<81, 8>>,
    nonce |-> <<89, 8>>]

(* The account specs of program.ts: name and flags, in order.              *)
TradeSpecs ==
    [init_pool |-> << <<"admin", SW>>, <<"poolState", W>>, <<"baseMint", R>>,
        <<"quoteMint", R>>, <<"baseVault", W>>, <<"quoteVault", W>>,
        <<"tokenProgram", R>>, <<"systemProgram", R>>, <<"rent", R>> >>,
     update_oracle |-> << <<"oracleSigner", S>>, <<"poolState", W>> >>,
     execute_swap |-> << <<"user", SW>>, <<"poolState", W>>, <<"baseVault", W>>,
        <<"quoteVault", W>>, <<"userBaseAta", W>>, <<"userQuoteAta", W>>,
        <<"tokenProgram", R>>, <<"systemProgram", R>>, <<"instructionsSysvar", R>> >>]
AdminSpecs ==
    [set_paused |-> << <<"admin", S>>, <<"poolState", W>> >>,
     rotate_oracle_signer |-> << <<"admin", S>>, <<"poolState", W>> >>,
     rotate_quote_signer |-> << <<"admin", S>>, <<"poolState", W>> >>,
     rotate_admin |-> << <<"admin", S>>, <<"poolState", W>> >>,
     admin_withdraw_inventory |-> << <<"admin", S>>, <<"poolState", R>>, <<"baseVault", W>>,
        <<"quoteVault", W>>, <<"adminBaseAta", W>>, <<"adminQuoteAta", W>>,
        <<"tokenProgram", R>> >>,
     close_expired_nonce |->
        << <<"closer", SW>>, <<"poolState", R>>, <<"quoteNonceMarker", W>> >>,
     propose_admin |-> << <<"admin", SW>>, <<"poolState", R>>, <<"adminProposal", W>>,
        <<"systemProgram", R>> >>,
     accept_admin |-> << <<"newAdmin", SW>>, <<"poolState", W>>, <<"adminProposal", W>> >>,
     cancel_admin_proposal |->
        << <<"admin", SW>>, <<"poolState", R>>, <<"adminProposal", W>> >>]

(* decodeBody: the fields of an event in the order they are read.          *)
SdkEventTag == [PoolInitialized |-> 1, OracleUpdated |-> 2, SwapExecuted |-> 3,
    PoolPausedChanged |-> 4, OracleSignerRotated |-> 5, AdminRotated |-> 6,
    InventoryWithdrawn |-> 7, QuoteMarkerClosed |-> 8, AdminProposalCreated |-> 9,
    AdminProposalCancelled |-> 10, QuoteSignerRotated |-> 11]
Reader ==
    [PoolInitialized |-> Table(<< <<"pool", 32>>, <<"admin", 32>>, <<"oracle_signer", 32>>,
        <<"quote_signer", 32>>, <<"base_mint", 32>>, <<"quote_mint", 32>>,
        <<"fair_value", 8>>, <<"spread_bps", 2>>, <<"current_mode_ttl", 1>>, <<"slot", 8>> >>),
     SwapExecuted |-> Table(<< <<"pool", 32>>, <<"user", 32>>, <<"direction", 1>>,
        <<"mode", 1>>, <<"input_amount", 8>>, <<"output_amount", 8>>,
        <<"execution_price", 8>>, <<"quote_nonce", 8>>, <<"slot", 8>> >>),
     PoolPausedChanged |->
        Table(<< <<"pool", 32>>, <<"admin", 32>>, <<"paused", 1>>, <<"slot", 8>> >>),
     OracleSignerRotated |-> Table(<< <<"pool", 32>>, <<"admin", 32>>,
        <<"previous_signer", 32>>, <<"new_signer", 32>>, <<"slot", 8>> >>),
     AdminRotated |-> Table(<< <<"pool", 32>>, <<"previous_admin", 32>>,
        <<"new_admin", 32>>, <<"slot", 8>> >>),
     InventoryWithdrawn |-> Table(<< <<"pool", 32>>, <<"admin", 32>>, <<"base_amount", 8>>,
        <<"quote_amount", 8>>, <<"slot", 8>> >>),
     QuoteMarkerClosed |-> Table(<< <<"pool", 32>>, <<"closer", 32>>, <<"nonce", 8>>,
        <<"expiry_slot", 8>>, <<"slot", 8>> >>),
     AdminProposalCreated |-> Table(<< <<"pool", 32>>, <<"proposed_by", 32>>,
        <<"new_admin", 32>>, <<"slot", 8>> >>),
     AdminProposalCancelled |-> Table(<< <<"pool", 32>>, <<"admin", 32>>,
        <<"cancelled_new_admin", 32>>, <<"slot", 8>> >>),
     QuoteSignerRotated |-> Table(<< <<"pool", 32>>, <<"admin", 32>>,
        <<"previous_signer", 32>>, <<"new_signer", 32>>, <<"slot", 8>> >>)]

(* decodeEventLog: an unknown tag or a body that ends early is no event.   *)
DecodeEvent(log) ==
    LET known(n) == /\ SdkEventTag[n] = log.tag
                    /\ Extent(Range(Reader[n])) <= Extent(DOMAIN log.body)
        decoded(n) == [f \in DOMAIN Reader[n] |->
            LET v == Read(log.body, Reader[n][f]) IN IF f = "paused" THEN v # 0 ELSE v]
    IN {[name |-> n, data |-> decoded(n)] : n \in {n \in DOMAIN Reader : known(n)}}
=============================================================================
