------------------------------ MODULE Layouts ------------------------------
(***************************************************************************)
(* Every byte layout the program and the SDK agree on, written twice, as   *)
(* in the code: by the program (Borsh structs, the zero-copy offsets of    *)
(* update_oracle, the packers of events.rs) and by the hand-rolled codecs  *)
(* of sdk/src.  A byte string is a function from positions                 *)
(* <<offset, width>> to the values written there: a read finds a value     *)
(* only where one of that width begins, and Garbage anywhere else.         *)
(* Base64, log prefixes and endianness are left out; so is the tag byte    *)
(* in front of a message, which travels as a field of its own.             *)
(***************************************************************************)
EXTENDS Integers, Sequences, FiniteSetsExt, Functions

CONSTANT Garbage     \* what a misplaced read returns

(* The positions of a sequence of fields laid out one after the other.     *)
Table(fields) ==
    LET end[i \in 0 .. Len(fields)] ==
            IF i = 0 THEN 0 ELSE end[i - 1] + fields[i][2]
        at(f) == CHOOSE i \in DOMAIN fields : fields[i][1] = f
    IN [f \in {fields[i][1] : i \in DOMAIN fields} |-> <<end[at(f) - 1], fields[at(f)][2]>>]

Extent(positions) == Max({p[1] + p[2] : p \in positions} \cup {0})

Pack(table, values) ==
    [p \in Range(table) |-> values[CHOOSE f \in DOMAIN table : table[f] = p]]

Read(bytes, p) == IF p \in DOMAIN bytes THEN bytes[p] ELSE Garbage

Unpack(table, bytes) == [f \in DOMAIN table |-> Read(bytes, table[f])]

(* BorshDeserialize::try_from_slice accepts exactly the bytes of the type. *)
Fits(table, bytes) == Extent(DOMAIN bytes) = Extent(Range(table))

(* Writes over what the positions of `new` cover, keeping the rest.        *)
Overlay(bytes, new) ==
    LET covered(p) == \E q \in DOMAIN new : p[1] < q[1] + q[2] /\ q[1] < p[1] + p[2]
        kept == {p \in DOMAIN bytes : ~covered(p)}
    IN [p \in kept \cup DOMAIN new |-> IF p \in DOMAIN new THEN new[p] ELSE bytes[p]]

(* copy_from_slice of the first n bytes of src to offset `to`.             *)
Copied(src, n, to) ==
    LET moved == {p \in DOMAIN src : p[1] + p[2] <= n}
    IN [p \in {<<q[1] + to, q[2]>> : q \in moved} |-> src[<<p[1] - to, p[2]>>]]

(* f, and g for what f leaves out.                                         *)
Plus(f, g) == [x \in DOMAIN f \cup DOMAIN g |-> IF x \in DOMAIN f THEN f[x] ELSE g[x]]

(* What an account is flagged as in an instruction.                        *)
S == {"signer"}
W == {"writable"}
SW == {"signer", "writable"}
R == {}

Reserved == {"depth_reserved", "skew_reserved", "reserved"}
WithZeros(r) == [f \in DOMAIN r \cup Reserved |-> IF f \in Reserved THEN 0 ELSE r[f]]

-----------------------------------------------------------------------------
(* The program.                                                            *)

Depth == << <<"depth_coef_bps", 4>>, <<"size_unit", 8>>, <<"max_depth_bps", 2>>,
            <<"depth_reserved", 6>> >>
Skew == << <<"target_base_bps", 2>>, <<"skew_coef_bps", 2>>,
           <<"max_skew_offset_bps", 2>>, <<"skew_reserved", 10>> >>

PoolState == Table(
    << <<"discriminator", 8>>, <<"admin", 32>>, <<"authorized_oracle_signer", 32>>,
       <<"authorized_quote_signer", 32>>, <<"base_mint", 32>>, <<"quote_mint", 32>>,
       <<"base_vault", 32>>, <<"quote_vault", 32>>, <<"fair_value", 8>>,
       <<"spread_bps", 2>> >> \o Depth \o Skew \o
    << <<"last_oracle_update_slot", 8>>, <<"oracle_nonce", 8>>, <<"current_mode_ttl", 1>>,
       <<"bump", 1>>, <<"base_vault_bump", 1>>, <<"quote_vault_bump", 1>>,
       <<"paused", 1>>, <<"reserved", 32>> >>)

(* A slip: the slot one byte early, over the end of the skew parameters.   *)
ZeroCopy_SlotEarly ==
    [authorized_oracle_signer |-> <<8 + 32, 32>>, fair_value |-> <<8 + 224, 8>>,
     skew_params |-> <<8 + 254, 16>>, last_oracle_update_slot |-> <<8 + 269, 8>>,
     oracle_nonce |-> <<8 + 278, 8>>, current_mode_ttl |-> <<8 + 286, 1>>,
     paused |-> <<8 + 290, 1>>]

(* state::offset, what update_oracle reads and writes without decoding.    *)
ZeroCopy == [authorized_oracle_signer |-> <<8 + 32, 32>>, fair_value |-> <<8 + 224, 8>>,
             skew_params |-> <<8 + 254, 16>>, last_oracle_update_slot |-> <<8 + 270, 8>>,
             oracle_nonce |-> <<8 + 278, 8>>, current_mode_ttl |-> <<8 + 286, 1>>,
             paused |-> <<8 + 290, 1>>]

AdminRotationProposal == Table(
    << <<"discriminator", 8>>, <<"pool", 32>>, <<"proposed_by", 32>>, <<"new_admin", 32>>,
       <<"created_slot", 8>>, <<"bump", 1>>, <<"reserved", 7>> >>)

QuoteNonceMarker == Table(
    << <<"discriminator", 8>>, <<"pool", 32>>, <<"nonce", 8>>, <<"expiry_slot", 8>>,
       <<"bump", 1>>, <<"reserved", 7>> >>)

Discriminator == [pool_state |-> 1, quote_nonce_marker |-> 2, admin_rotation_proposal |-> 3]

QuoteTerms == << <<"pool", 32>>, <<"user", 32>>, <<"direction", 1>>, <<"input_amount", 8>>,
                 <<"price", 8>>, <<"expiry_slot", 8>>, <<"nonce", 8>> >>
SignedQuoteMessage == Table(QuoteTerms)

(* The arguments by handler; those of update_oracle are read in place.     *)
InitPoolArgs == Table(
    << <<"authorized_oracle_signer", 32>>, <<"authorized_quote_signer", 32>>,
       <<"fair_value", 8>>, <<"spread_bps", 2>> >> \o Depth \o Skew \o
    << <<"current_mode_ttl", 1>> >>)

UpdateOracleArgs ==
    [fair_value |-> <<0, 8>>, spread_bps |-> <<8, 2>>, size_unit |-> <<14, 8>>,
     max_depth_bps |-> <<22, 2>>, target_base_bps |-> <<30, 2>>,
     max_skew_offset_bps |-> <<34, 2>>, oracle_nonce |-> <<46, 8>>,
     current_mode_ttl |-> <<54, 1>>]

SwapTerms == << <<"swap_input", 8>>, <<"side", 1>>, <<"min_output", 8>>, <<"some", 1>> >>
ExecuteSwapArgs(some) ==
    Table(IF some THEN SwapTerms \o QuoteTerms \o << <<"signature", 64>> >> ELSE SwapTerms)

KeyArg == Table(<< <<"key", 32>> >>)
PausedArg == Table(<< <<"paused", 1>> >>)
WithdrawArgs == Table(<< <<"withdraw_base_amount", 8>>, <<"withdraw_quote_amount", 8>> >>)
NoArgs == << >>

Dispatch == << "init_pool", "update_oracle", "execute_swap", "set_paused",
               "rotate_oracle_signer", "rotate_admin", "admin_withdraw_inventory",
               "close_expired_nonce", "propose_admin", "accept_admin",
               "cancel_admin_proposal", "rotate_quote_signer" >>

(* events.rs: the tag of each event and where its packer puts the fields.  *)
EventTag == [PoolInitialized |-> 1, OracleUpdated |-> 2, SwapExecuted |-> 3,
             PoolPausedChanged |-> 4, OracleSignerRotated |-> 5, AdminRotated |-> 6,
             InventoryWithdrawn |-> 7, QuoteMarkerClosed |-> 8, AdminProposalCreated |-> 9,
             AdminProposalCancelled |-> 10, QuoteSignerRotated |-> 11]

Rotated == [pool |-> <<0, 32>>, admin |-> <<32, 32>>, previous_signer |-> <<64, 32>>,
            new_signer |-> <<96, 32>>, slot |-> <<128, 8>>]

Packer ==
    [PoolInitialized |->
        [pool |-> <<0, 32>>, admin |-> <<32, 32>>, oracle_signer |-> <<64, 32>>,
         quote_signer |-> <<96, 32>>, base_mint |-> <<128, 32>>, quote_mint |-> <<160, 32>>,
         fair_value |-> <<192, 8>>, spread_bps |-> <<200, 2>>,
         current_mode_ttl |-> <<202, 1>>, slot |-> <<203, 8>>],
     SwapExecuted |->
        [pool |-> <<0, 32>>, user |-> <<32, 32>>, direction |-> <<64, 1>>, mode |-> <<65, 1>>,
         input_amount |-> <<66, 8>>, output_amount |-> <<74, 8>>,
         execution_price |-> <<82, 8>>, quote_nonce |-> <<90, 8>>, slot |-> <<98, 8>>],
     PoolPausedChanged |->
        [pool |-> <<0, 32>>, admin |-> <<32, 32>>, paused |-> <<64, 1>>, slot |-> <<65, 8>>],
     OracleSignerRotated |-> Rotated,
     AdminRotated |->
        [pool |-> <<0, 32>>, previous_admin |-> <<32, 32>>, new_admin |-> <<64, 32>>,
         slot |-> <<96, 8>>],
     InventoryWithdrawn |->
        [pool |-> <<0, 32>>, admin |-> <<32, 32>>, base_amount |-> <<64, 8>>,
         quote_amount |-> <<72, 8>>, slot |-> <<80, 8>>],
     QuoteMarkerClosed |->
        [pool |-> <<0, 32>>, closer |-> <<32, 32>>, nonce |-> <<64, 8>>,
         expiry_slot |-> <<72, 8>>, slot |-> <<80, 8>>],
     AdminProposalCreated |->
        [pool |-> <<0, 32>>, proposed_by |-> <<32, 32>>, new_admin |-> <<64, 32>>,
         slot |-> <<96, 8>>],
     AdminProposalCancelled |->
        [pool |-> <<0, 32>>, admin |-> <<32, 32>>, cancelled_new_admin |-> <<64, 32>>,
         slot |-> <<96, 8>>],
     QuoteSignerRotated |-> Rotated]
=============================================================================
