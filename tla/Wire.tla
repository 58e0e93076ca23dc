-------------------------------- MODULE Wire --------------------------------
(***************************************************************************)
(* A call of an SDK method, down to the bytes and up again: sdk/src        *)
(* encodes the arguments, derives and lists the accounts, the program runs *)
(* (Handlers), and sdk/src decodes account data and events for the caller. *)
(***************************************************************************)
EXTENDS SdkCodecs, Handlers, TLC

CONSTANTS Keys, BaseMint, QuoteMint, Prices, Quotes, Amounts,
    FirstSlot, LastSlot, MaxNonce, MaxCalls, NoAccount

ASSUME WireConstants ==
    /\ ZeroKey \notin Keys /\ Amounts \subseteq Nat /\ CurvePrice \in Nat \ {0}
    /\ MAX_TTL_SLOTS \in Nat /\ SAFETY_BUFFER_SLOTS \in Nat
    /\ FirstSlot \in Nat /\ LastSlot \in Nat /\ MaxNonce \in Nat /\ MaxCalls \in Nat

VARIABLES
    call,       \* the last call, as its caller meant it
    answer,     \* what its caller learns: done or not, and the events decoded
    calls
vars == <<accounts, slot, call, answer, calls>>

-----------------------------------------------------------------------------
(* Addresses, as the SDK derives them.                                     *)
DerivePoolState(base, quote) == <<"pool", base, quote>>
DeriveVault(pool, mint) == <<"vault", pool, mint>>
DeriveAdminProposal(pool) == <<"admin_proposal", pool>>
DeriveQuoteNonceMarker(pool, nonce) == <<"quote_used", pool, nonce>>

ThePool == DerivePoolState(BaseMint, QuoteMint)

(* A quote offers what it says; Garbage is no value anyone writes.         *)
ASSUME WireValues ==
    /\ Prices \subseteq
        [fair_value : Nat, spread_bps : Nat, depth_coef_bps : Nat, size_unit : Nat,
         max_depth_bps : Nat, target_base_bps : Nat, skew_coef_bps : Nat,
         max_skew_offset_bps : Nat, current_mode_ttl : Nat]
    /\ Quotes \subseteq [user : Keys, direction : Sides, input_amount : Nat, price : Nat,
                         expiry_slot : Nat, nonce : Nat, signer : Keys]
    /\ NoAccount \notin Quotes
    /\ Garbage \notin Nat /\ Garbage \notin Keys \cup {ZeroKey, BaseMint, QuoteMint}
    /\ \A a \in {ThePool, DeriveVault(ThePool, BaseMint), DeriveVault(ThePool, QuoteMint),
                 DeriveAdminProposal(ThePool)}
                \cup {DeriveQuoteNonceMarker(ThePool, q.nonce) : q \in Quotes} :
        Garbage # a /\ Garbage # Bump(a)

ASSUME WireMints ==
    /\ MintOrder \in [DOMAIN MintOrder -> Nat]
    /\ {BaseMint, QuoteMint} \subseteq DOMAIN MintOrder /\ ZeroKey \notin DOMAIN MintOrder
    /\ MintOrder[BaseMint] < MintOrder[QuoteMint]

(* What callers pass by name; accountsPartial fills in the programs.       *)
Named(by) ==
    [poolState |-> ThePool, baseMint |-> BaseMint, quoteMint |-> QuoteMint,
     baseVault |-> DeriveVault(ThePool, BaseMint),
     quoteVault |-> DeriveVault(ThePool, QuoteMint),
     adminProposal |-> DeriveAdminProposal(ThePool),
     userBaseAta |-> Ata(by, BaseMint), userQuoteAta |-> Ata(by, QuoteMint),
     adminBaseAta |-> Ata(by, BaseMint), adminQuoteAta |-> Ata(by, QuoteMint),
     admin |-> by, newAdmin |-> by, closer |-> by, user |-> by, oracleSigner |-> by,
     tokenProgram |-> TokenProgram, systemProgram |-> <<"system">>, rent |-> <<"rent">>,
     instructionsSysvar |-> InstructionsSysvar]

(* MethodBuilder.instruction: tag and arguments, keys in spec order.       *)
Instruction(name, named, table, args) ==
    LET spec == IF name \in DOMAIN TradeSpecs THEN TradeSpecs[name] ELSE AdminSpecs[name]
    IN [tag |-> InstructionTag[name],
        data |-> Pack(table, WithZeros(args)),
        keys |-> [i \in DOMAIN spec |-> <<named[spec[i][1]], spec[i][2]>>],
        before |-> << >>]

(* One transaction: it takes effect as a whole and logs what was emitted.  *)
Submit(asked, ix) ==
    LET outcomes == ProcessInstruction(ix)
    IN /\ calls < MaxCalls
       /\ call' = asked
       /\ calls' = calls + 1
       /\ \/ \E o \in outcomes :
                /\ accounts' = o.accounts
                /\ answer' = [done |-> TRUE, events |-> UNION {DecodeEvent(l) : l \in o.logs}]
          \/ /\ outcomes = {}
             /\ answer' = [done |-> FALSE, events |-> {}]
             /\ UNCHANGED accounts
       /\ UNCHANGED slot

-----------------------------------------------------------------------------
(* The methods.  A caller may have the mints in the wrong order, or pass   *)
(* an address that is none; createInitPoolIx derives the accounts from it. *)
MintPairs == {<<BaseMint, QuoteMint>>, <<QuoteMint, BaseMint>>, <<BaseMint, ZeroKey>>}
ForMints(by, mints) ==
    LET pool == DerivePoolState(mints[1], mints[2])
    IN [Named(by) EXCEPT !.poolState = pool,
            !.baseMint = mints[1], !.baseVault = DeriveVault(pool, mints[1]),
            !.quoteMint = mints[2], !.quoteVault = DeriveVault(pool, mints[2])]
CallInitPool(by, mints, oracle, quote, price) ==
    Submit(<<"init_pool", by, mints, oracle, quote, price>>,
        Instruction("init_pool", ForMints(by, mints), EncodeInitPool,
            Plus(price, [authorized_oracle_signer |-> oracle, authorized_quote_signer |-> quote])))

(* A caller that mixes its addresses up passes the proposal for the pool.  *)
CallUpdateOracle(by, right, price, nonce) ==
    LET named == IF right THEN Named(by)
                 ELSE [Named(by) EXCEPT !.poolState = DeriveAdminProposal(ThePool)]
    IN Submit(<<"update_oracle", by, right, price, nonce>>,
        Instruction("update_oracle", named, EncodeUpdateOracle,
            Plus(price, [oracle_nonce |-> nonce])))

CallSetPaused(by, p) ==
    Submit(<<"set_paused", by, p>>,
        Instruction("set_paused", Named(by), EncodePaused, [paused |-> IF p THEN 1 ELSE 0]))

(* The four methods whose one argument is a key.                           *)
CallWithKey(name, by, key) ==
    Submit(<<name, by, key>>, Instruction(name, Named(by), EncodeKey, [key |-> key]))

CallWithdraw(by, base, quote) ==
    Submit(<<"admin_withdraw_inventory", by, base, quote>>,
        Instruction("admin_withdraw_inventory", Named(by), EncodeWithdraw,
            [withdraw_base_amount |-> base, withdraw_quote_amount |-> quote]))

CallProposal(name, by) ==
    Submit(<<name, by>>, Instruction(name, Named(by), NoArgs, << >>))

CallCloseExpiredNonce(by, nonce) ==
    Submit(<<"close_expired_nonce", by, nonce>>,
        Instruction("close_expired_nonce",
            Plus(Named(by), [quoteNonceMarker |-> DeriveQuoteNonceMarker(ThePool, nonce)]),
            NoArgs, << >>))

(* Ed25519Program.createInstructionWithPrivateKey of web3.js.              *)
Ed25519Instruction(key, message) ==
    [program |-> "ed25519",
     data |-> (<<0, 1>> :> 1) @@ (<<2, 2>> :> 48) @@ (<<4, 2>> :> CurrentIx)
        @@ (<<6, 2>> :> 16) @@ (<<8, 2>> :> CurrentIx) @@ (<<10, 2>> :> 112)
        @@ (<<12, 2>> :> Extent(DOMAIN message)) @@ (<<14, 2>> :> CurrentIx)
        @@ (<<16, 32>> :> key) @@ (<<48, 64>> :> <<"signed", key, message>>)
        @@ (<<112, Extent(DOMAIN message)>> :> message)]

SideByte(side) == IF side = "Buy" THEN 0 ELSE 1

(* serializeSignedQuoteMessage, buildSignedQuoteWithVerifyIx: the quote as *)
(* an argument carries the signature found in the verify instruction.      *)
Terms(q) == [pool |-> ThePool, user |-> q.user, direction |-> SideByte(q.direction),
             input_amount |-> q.input_amount, price |-> q.price,
             expiry_slot |-> q.expiry_slot, nonce |-> q.nonce]
VerifyIx(q) == Ed25519Instruction(q.signer, Pack(QuoteMessage, Terms(q)))
SignedQuoteArg(q) ==
    Plus(Terms(q),
        [signature |-> Read(VerifyIx(q).data, <<Read(VerifyIx(q).data, <<2, 2>>), 64>>)])

(* createExecuteSwapIx, and executeSwapWithVerify: [verifyIx, swapIx], the *)
(* marker behind the named accounts.                                       *)
SwapArgs(side, input, some) ==
    [swap_input |-> input, side |-> SideByte(side), min_output |-> 0, some |-> some]
Swap(by, side, input) ==
    Instruction("execute_swap", Named(by), EncodeExecuteSwap(FALSE), SwapArgs(side, input, 0))
QuotedSwap(by, side, input, q) ==
    [Instruction("execute_swap", Named(by), EncodeExecuteSwap(TRUE),
        Plus(SwapArgs(side, input, 1), SignedQuoteArg(q)))
     EXCEPT !.before = <<VerifyIx(q)>>,
            !.keys = Append(@, <<DeriveQuoteNonceMarker(ThePool, q.nonce), W>>)]
CallExecuteSwap(by, side, input, q) ==
    Submit(<<"execute_swap", by, side, input, q>>,
        IF q = NoAccount THEN Swap(by, side, input) ELSE QuotedSwap(by, side, input, q))

Tick == slot < LastSlot /\ slot' = slot + 1 /\ UNCHANGED <<accounts, call, answer, calls>>

Init ==
    /\ accounts = << >> /\ slot = FirstSlot
    /\ call = NoAccount /\ answer = NoAccount /\ calls = 0

Next ==
    \/ Tick
    \/ \E by \in Keys :
        \/ \E m \in MintPairs, o, q \in Keys \cup {ZeroKey}, p \in Prices :
            CallInitPool(by, m, o, q, p)
        \/ \E right \in BOOLEAN, p \in Prices, n \in 0 .. MaxNonce :
            CallUpdateOracle(by, right, p, n)
        \/ \E p \in BOOLEAN : CallSetPaused(by, p)
        \/ \E name \in {"rotate_oracle_signer", "rotate_quote_signer", "rotate_admin",
                        "propose_admin"}, key \in Keys \cup {ZeroKey} :
            CallWithKey(name, by, key)
        \/ \E b, q \in Amounts : CallWithdraw(by, b, q)
        \/ \E name \in {"accept_admin", "cancel_admin_proposal"} : CallProposal(name, by)
        \/ \E side \in Sides, input \in Amounts, q \in Quotes \cup {NoAccount} :
            CallExecuteSwap(by, side, input, q)
        \/ \E n \in {q.nonce : q \in Quotes} : CallCloseExpiredNonce(by, n)

Spec == Init /\ [][Next]_vars

-----------------------------------------------------------------------------
(* What fetch returns to a caller: the decoded data, if the account is     *)
(* there and decodes.                                                      *)
Fetched(a, decodes, fields, table) ==
    IF a \notin DOMAIN accounts THEN NoAccount
    ELSE IF ~decodes THEN Garbage
    ELSE [f \in fields |-> LET v == Read(accounts[a], table[f])
                           IN IF f = "paused" THEN v # 0 ELSE v]

PoolFields == DOMAIN SdkPoolState \
    {"discriminator", "depth_reserved", "skew_reserved", "bump", "base_vault_bump",
     "quote_vault_bump"}

Calls == INSTANCE PoolCalls WITH
    pool <- Fetched(ThePool, DecodesPool(accounts[ThePool]), PoolFields, SdkPoolState),
    proposal <- LET a == DeriveAdminProposal(ThePool) IN
        Fetched(a, DecodesProposal(accounts[a]),
            {"pool", "proposed_by", "new_admin", "created_slot"}, SdkProposal),
    markers <-
        {LET a == DeriveQuoteNonceMarker(ThePool, n) IN
         Fetched(a, DecodesMarker(accounts[a]), {"pool", "nonce", "expiry_slot"}, SdkMarker) :
            n \in {n \in {q.nonce : q \in Quotes} :
                    DeriveQuoteNonceMarker(ThePool, n) \in DOMAIN accounts}}

(* Every method does what it promises, or refuses, and what its caller     *)
(* reads back from the account and hears from the events is what it did:   *)
(* encoders, account lists, zero-copy offsets, Borsh structs, packers and  *)
(* decoders agree.                                                         *)
CallsKeepTheirPromise == Calls!Spec

(* Every account the program owns holds one of its three types, whole, at  *)
(* the address derived from its own contents: what update_oracle relies on *)
(* when it tells accounts apart by their length, and verify_pda_with_bump  *)
(* when it trusts the bump stored.                                         *)
AccountsIntact ==
    \A a \in DOMAIN accounts :
        \/ /\ LoadsPool(a) /\ Garbage \notin Range(PoolAt(a))
           /\ AtPda(a, PoolPda(PoolAt(a).base_mint, PoolAt(a).quote_mint), PoolAt(a).bump)
        \/ /\ LoadsProposal(a) /\ Garbage \notin Range(ProposalAt(a))
           /\ AtPda(a, ProposalPda(ProposalAt(a).pool), ProposalAt(a).bump)
        \/ /\ LoadsMarker(a) /\ Garbage \notin Range(MarkerAt(a))
           /\ AtPda(a, MarkerPda(MarkerAt(a).pool, MarkerAt(a).nonce), MarkerAt(a).bump)
=============================================================================
