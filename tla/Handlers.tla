------------------------------ MODULE Handlers ------------------------------
(***************************************************************************)
(* The program's instruction handlers over account data, byte by byte      *)
(* (src/programs/protocol): checks of the accounts passed, arguments       *)
(* decoded, account data edited in place or through Borsh, events packed.  *)
(* `accounts` holds the data of the accounts the program owns.             *)
(*                                                                         *)
(* A handler is the set of its outcomes, empty when it returns an error.   *)
(* Addresses derived from seeds are the tuple of the seeds.  Balances, the *)
(* curve and slippage belong to Pool: here one price stands for the curve. *)
(***************************************************************************)
EXTENDS Layouts, Curve

CONSTANTS
    ZeroKey,                   \* Address::default()
    MintOrder,                 \* the token program's mints, by place in address order
    CurvePrice,
    MAX_TTL_SLOTS, SAFETY_BUFFER_SLOTS

VARIABLES accounts, slot

TokenProgram == <<"token_program">>
InstructionsSysvar == <<"instructions">>
Ata(owner, mint) == <<"ata", owner, mint>>
Bump(address) == <<"bump", address>>

Key(ix, i) == ix.keys[i][1]

(* verify_signer, verify_writable and the destructuring of `accounts`.     *)
Has(ix, flags) ==
    /\ Len(ix.keys) >= Len(flags)
    /\ \A i \in DOMAIN flags : flags[i] \subseteq ix.keys[i][2]

(* verify_owner_program and load: discriminator, then exactly the type.    *)
Loads(table, discriminator, a) ==
    /\ a \in DOMAIN accounts
    /\ Read(accounts[a], <<0, 8>>) = discriminator
    /\ Fits(table, accounts[a])
LoadsPool(a) == Loads(PoolState, Discriminator.pool_state, a)
LoadsProposal(a) == Loads(AdminRotationProposal, Discriminator.admin_rotation_proposal, a)
LoadsMarker(a) == Loads(QuoteNonceMarker, Discriminator.quote_nonce_marker, a)

PoolAt(a) == Unpack(PoolState, accounts[a])
ProposalAt(a) == Unpack(AdminRotationProposal, accounts[a])
MarkerAt(a) == Unpack(QuoteNonceMarker, accounts[a])

PoolPda(base, quote) == <<"pool", base, quote>>
VaultPda(pool, mint) == <<"vault", pool, mint>>
ProposalPda(pool) == <<"admin_proposal", pool>>
MarkerPda(pool, nonce) == <<"quote_used", pool, nonce>>
AtPda(a, derived, bump) == a = derived /\ bump = Bump(derived)

(* Account data after a write; through Borsh; close_account drops it.      *)
Written(a, bytes, data) ==
    [b \in DOMAIN data \cup {a} |-> IF b = a THEN bytes ELSE data[b]]
Stored(a, table, r) == Written(a, Pack(table, WithZeros(r)), accounts)
Closed(a) == [b \in DOMAIN accounts \ {a} |-> accounts[b]]

Log(name, data) == [tag |-> EventTag[name], body |-> Pack(Packer[name], data)]
Outcome(ok, after, logs) == IF ok THEN {[accounts |-> after, logs |-> logs]} ELSE {}

(* The prelude of every handler that only the admin may call.              *)
FromAdmin(ix, flags) ==
    Has(ix, flags) /\ LoadsPool(Key(ix, 2)) /\ PoolAt(Key(ix, 2)).admin = Key(ix, 1)

SetPaused(ix) ==
    LET p == IF Read(ix.data, PausedArg.paused) = 0 THEN 0 ELSE 1
    IN Outcome(Fits(PausedArg, ix.data) /\ FromAdmin(ix, <<S, W>>),
        Stored(Key(ix, 2), PoolState, [PoolAt(Key(ix, 2)) EXCEPT !.paused = p]),
        {Log("PoolPausedChanged",
            [pool |-> Key(ix, 2), admin |-> Key(ix, 1), paused |-> p, slot |-> slot])})

(* rotate_oracle_signer and rotate_quote_signer.                           *)
RotateSigner(ix, field, event) ==
    LET new == Read(ix.data, KeyArg.key)
        pool == PoolAt(Key(ix, 2))
    IN Outcome(Fits(KeyArg, ix.data) /\ FromAdmin(ix, <<S, W>>) /\ new # ZeroKey,
        Stored(Key(ix, 2), PoolState, [pool EXCEPT ![field] = new]),
        {Log(event, [pool |-> Key(ix, 2), admin |-> Key(ix, 1),
                     previous_signer |-> pool[field], new_signer |-> new, slot |-> slot])})

RotateAdmin(ix) ==
    LET new == Read(ix.data, KeyArg.key)
        pool == PoolAt(Key(ix, 2))
    IN Outcome(Fits(KeyArg, ix.data) /\ FromAdmin(ix, <<S, W>>),
        Stored(Key(ix, 2), PoolState, [pool EXCEPT !.admin = new]),
        {Log("AdminRotated", [pool |-> Key(ix, 2), previous_admin |-> pool.admin,
                              new_admin |-> new, slot |-> slot])})

ProposeAdmin(ix) ==
    LET new == Read(ix.data, KeyArg.key)
        pda == ProposalPda(Key(ix, 2))
    IN Outcome(
        /\ Fits(KeyArg, ix.data) /\ FromAdmin(ix, <<SW, R, W, R>>)
        /\ new \notin {ZeroKey, Key(ix, 1)}
        /\ Key(ix, 3) = pda /\ pda \notin DOMAIN accounts,
        Stored(pda, AdminRotationProposal,
            [discriminator |-> Discriminator.admin_rotation_proposal, pool |-> Key(ix, 2),
             proposed_by |-> Key(ix, 1), new_admin |-> new, created_slot |-> slot,
             bump |-> Bump(pda)]),
        {Log("AdminProposalCreated", [pool |-> Key(ix, 2), proposed_by |-> Key(ix, 1),
                                      new_admin |-> new, slot |-> slot])})

(* The proposal account of accept_admin and cancel_admin_proposal.         *)
ProposalFor(ix) ==
    /\ LoadsProposal(Key(ix, 3)) /\ ProposalAt(Key(ix, 3)).pool = Key(ix, 2)
    /\ AtPda(Key(ix, 3), ProposalPda(Key(ix, 2)), ProposalAt(Key(ix, 3)).bump)

AcceptAdmin(ix) ==
    LET pool == PoolAt(Key(ix, 2))
        proposed == ProposalAt(Key(ix, 3))
    IN Outcome(
        /\ Has(ix, <<SW, W, W>>) /\ LoadsPool(Key(ix, 2)) /\ ProposalFor(ix)
        /\ proposed.new_admin = Key(ix, 1) /\ proposed.proposed_by = pool.admin,
        Written(Key(ix, 2), Pack(PoolState, WithZeros([pool EXCEPT !.admin = Key(ix, 1)])),
            Closed(Key(ix, 3))),
        {Log("AdminRotated", [pool |-> Key(ix, 2), previous_admin |-> pool.admin,
                              new_admin |-> Key(ix, 1), slot |-> slot])})

CancelAdminProposal(ix) ==
    Outcome(FromAdmin(ix, <<SW, R, W>>) /\ ProposalFor(ix),
        Closed(Key(ix, 3)),
        {Log("AdminProposalCancelled", [pool |-> Key(ix, 2), admin |-> Key(ix, 1),
            cancelled_new_admin |-> ProposalAt(Key(ix, 3)).new_admin, slot |-> slot])})

CloseExpiredNonce(ix) ==
    LET pool == PoolAt(Key(ix, 2))
        marker == MarkerAt(Key(ix, 3))
    IN Outcome(
        /\ Has(ix, <<SW, R, W>>) /\ LoadsPool(Key(ix, 2)) /\ LoadsMarker(Key(ix, 3))
        /\ AtPda(Key(ix, 2), PoolPda(pool.base_mint, pool.quote_mint), pool.bump)
        /\ marker.pool = Key(ix, 2) /\ marker.expiry_slot + SAFETY_BUFFER_SLOTS < slot,
        Closed(Key(ix, 3)),
        {Log("QuoteMarkerClosed", [pool |-> Key(ix, 2), closer |-> Key(ix, 1),
            nonce |-> marker.nonce, expiry_slot |-> marker.expiry_slot, slot |-> slot])})

(* The pool, its vaults and the token accounts of `owner` at 3..6, and the *)
(* token program at 7.                                                     *)
TokenAccounts(ix, owner) ==
    LET pool == PoolAt(Key(ix, 2))
    IN /\ LoadsPool(Key(ix, 2)) /\ Key(ix, 7) = TokenProgram
       /\ AtPda(Key(ix, 2), PoolPda(pool.base_mint, pool.quote_mint), pool.bump)
       /\ Key(ix, 3) = pool.base_vault /\ Key(ix, 4) = pool.quote_vault
       /\ Key(ix, 5) = Ata(owner, pool.base_mint) /\ Key(ix, 6) = Ata(owner, pool.quote_mint)

Withdraw(ix) ==
    LET args == Unpack(WithdrawArgs, ix.data)
    IN Outcome(
        /\ Fits(WithdrawArgs, ix.data) /\ FromAdmin(ix, <<S, R, W, W, W, W, R>>)
        /\ TokenAccounts(ix, Key(ix, 1))
        /\ args.withdraw_base_amount + args.withdraw_quote_amount > 0,
        accounts,
        {Log("InventoryWithdrawn", [pool |-> Key(ix, 2), admin |-> Key(ix, 1),
            base_amount |-> args.withdraw_base_amount,
            quote_amount |-> args.withdraw_quote_amount, slot |-> slot])})

InitPool(ix) ==
    LET args == Unpack(InitPoolArgs, ix.data)
        pda == PoolPda(Key(ix, 3), Key(ix, 4))
    IN Outcome(
        /\ Fits(InitPoolArgs, ix.data) /\ Has(ix, <<SW, W, R, R, W, W, R, R, R>>)
        /\ Key(ix, 7) = TokenProgram
        /\ {Key(ix, 3), Key(ix, 4)} \subseteq DOMAIN MintOrder
        /\ MintOrder[Key(ix, 3)] < MintOrder[Key(ix, 4)]
        /\ ZeroKey \notin {args.authorized_oracle_signer, args.authorized_quote_signer}
        /\ ParamsOK(args) /\ args.current_mode_ttl <= MAX_TTL_SLOTS
        /\ pda \notin DOMAIN accounts /\ Key(ix, 2) = pda
        /\ Key(ix, 5) = VaultPda(pda, Key(ix, 3)) /\ Key(ix, 6) = VaultPda(pda, Key(ix, 4)),
        Stored(pda, PoolState, Plus(args,
            [discriminator |-> Discriminator.pool_state, admin |-> Key(ix, 1),
             base_mint |-> Key(ix, 3), quote_mint |-> Key(ix, 4), base_vault |-> Key(ix, 5),
             quote_vault |-> Key(ix, 6), last_oracle_update_slot |-> slot, oracle_nonce |-> 0,
             bump |-> Bump(pda), base_vault_bump |-> Bump(Key(ix, 5)),
             quote_vault_bump |-> Bump(Key(ix, 6)), paused |-> 0])),
        {Log("PoolInitialized",
            [pool |-> pda, admin |-> Key(ix, 1), oracle_signer |-> args.authorized_oracle_signer,
             quote_signer |-> args.authorized_quote_signer, base_mint |-> Key(ix, 3),
             quote_mint |-> Key(ix, 4), fair_value |-> args.fair_value,
             spread_bps |-> args.spread_bps, current_mode_ttl |-> args.current_mode_ttl,
             slot |-> slot])})

(* What update_oracle leaves of a pool's data: 46 bytes of arguments       *)
(* copied over FAIR_VALUE .. SKEW_PARAMS + 16, then slot, nonce, lifetime. *)
Repriced(data, src, args) ==
    LET priced == Overlay(data, Copied(src, 46, ZeroCopy.fair_value[1]))
    IN Overlay(priced,
        Pack(Restrict(ZeroCopy,
                {"last_oracle_update_slot", "oracle_nonce", "current_mode_ttl"}),
            [last_oracle_update_slot |-> slot, oracle_nonce |-> args.oracle_nonce,
             current_mode_ttl |-> args.current_mode_ttl]))

(* The hot path: no Borsh, no discriminator, no event; account data is     *)
(* told apart by its length.                                               *)
UpdateOracle(ix) ==
    LET args == Unpack(UpdateOracleArgs, ix.data)
        data == accounts[Key(ix, 2)]
    IN Outcome(
        /\ Extent(DOMAIN ix.data) = 55 /\ Has(ix, <<S, W>>) /\ Key(ix, 2) \in DOMAIN accounts
        /\ ParamsOK(args) /\ args.current_mode_ttl <= MAX_TTL_SLOTS
        /\ Extent(DOMAIN data) >= 8 + 323
        /\ Read(data, ZeroCopy.authorized_oracle_signer) = Key(ix, 1)
        /\ Read(data, ZeroCopy.paused) = 0
        /\ args.oracle_nonce > Read(data, ZeroCopy.oracle_nonce),
        Written(Key(ix, 2), Repriced(data, ix.data, args), accounts),
        {})

(* verify_signed_quote_signature: the instruction before this one must be  *)
(* an ed25519 verification, in the canonical layout, of this very quote.   *)
CurrentIx == 65535
Verified(ix, quote, signer) ==
    LET at(o) == Read(ix.before[Len(ix.before)].data, <<o, 2>>)
        data == ix.before[Len(ix.before)].data
    IN /\ ix.before # << >> /\ ix.before[Len(ix.before)].program = "ed25519"
       /\ Read(data, <<0, 1>>) = 1
       /\ {at(4), at(8), at(14)} = {CurrentIx}
       /\ at(6) = 16 /\ at(2) = 48 /\ at(10) = 112 /\ Extent(DOMAIN data) = 112 + at(12)
       /\ Read(data, <<16, 32>>) = signer
       /\ Read(data, <<48, 64>>) = quote.signature
       /\ Read(data, <<112, at(12)>>) = Pack(SignedQuoteMessage, quote)

SideOf(byte) == IF byte = 0 THEN "Buy" ELSE "Sell"

ExecuteSwap(ix) ==
    LET some == Read(ix.data, <<17, 1>>) = 1
        args == Unpack(ExecuteSwapArgs(some), ix.data)
        user == Key(ix, 1)
        pool == PoolAt(Key(ix, 2))
        fresh == /\ pool.current_mode_ttl > 0 /\ slot >= pool.last_oracle_update_slot
                 /\ slot - pool.last_oracle_update_slot <= pool.current_mode_ttl
        marker == MarkerPda(Key(ix, 2), args.nonce)
        honoured == /\ some /\ args.pool = Key(ix, 2) /\ args.user = user
                    /\ args.direction = args.side /\ args.input_amount = args.swap_input
                    /\ slot <= args.expiry_slot
                    /\ Verified(ix, args, pool.authorized_quote_signer)
                    /\ Len(ix.keys) >= 10 /\ Key(ix, 10) = marker
                    /\ marker \notin DOMAIN accounts
        price == IF fresh THEN CurvePrice ELSE args.price
    IN Outcome(
        /\ Fits(ExecuteSwapArgs(some), ix.data) /\ Has(ix, <<SW, W, W, W, W, W, R, R, R>>)
        /\ TokenAccounts(ix, user) /\ Key(ix, 9) = InstructionsSysvar
        /\ pool.paused = 0 /\ args.swap_input # 0
        /\ fresh \/ honoured,
        IF fresh THEN accounts
        ELSE Stored(marker, QuoteNonceMarker,
            [discriminator |-> Discriminator.quote_nonce_marker, pool |-> Key(ix, 2),
             nonce |-> args.nonce, expiry_slot |-> args.expiry_slot, bump |-> Bump(marker)]),
        {Log("SwapExecuted",
            [pool |-> Key(ix, 2), user |-> user, direction |-> args.side,
             mode |-> IF fresh THEN 0 ELSE 1, input_amount |-> args.swap_input,
             output_amount |-> OutputAmount(SideOf(args.side), args.swap_input, price),
             execution_price |-> price, quote_nonce |-> IF fresh THEN 0 ELSE args.nonce,
             slot |-> slot])})

ProcessInstruction(ix) ==
    CASE Dispatch[ix.tag + 1] = "init_pool" -> InitPool(ix)
      [] Dispatch[ix.tag + 1] = "update_oracle" -> UpdateOracle(ix)
      [] Dispatch[ix.tag + 1] = "execute_swap" -> ExecuteSwap(ix)
      [] Dispatch[ix.tag + 1] = "set_paused" -> SetPaused(ix)
      [] Dispatch[ix.tag + 1] = "rotate_oracle_signer" ->
            RotateSigner(ix, "authorized_oracle_signer", "OracleSignerRotated")
      [] Dispatch[ix.tag + 1] = "rotate_quote_signer" ->
            RotateSigner(ix, "authorized_quote_signer", "QuoteSignerRotated")
      [] Dispatch[ix.tag + 1] = "rotate_admin" -> RotateAdmin(ix)
      [] Dispatch[ix.tag + 1] = "admin_withdraw_inventory" -> Withdraw(ix)
      [] Dispatch[ix.tag + 1] = "close_expired_nonce" -> CloseExpiredNonce(ix)
      [] Dispatch[ix.tag + 1] = "propose_admin" -> ProposeAdmin(ix)
      [] Dispatch[ix.tag + 1] = "accept_admin" -> AcceptAdmin(ix)
      [] Dispatch[ix.tag + 1] = "cancel_admin_proposal" -> CancelAdminProposal(ix)
=============================================================================
