-------------------------------- MODULE Pool --------------------------------
(***************************************************************************)
(* The on-chain program (src/programs/protocol), for one pool: PoolState,  *)
(* the quote-nonce markers, the admin-rotation proposal and the token      *)
(* balances its twelve instructions move.  An instruction is one action: a *)
(* transaction is atomic, so an error path is the action being disabled.   *)
(*                                                                         *)
(* Accounts are passed by the caller and verified against PoolState (PDA,  *)
(* owner program, mint, authority); the model names them directly.  Rent,  *)
(* events and compute units are left out.  The signed quotes that exist    *)
(* are a constant: any of them may be submitted at any time, by its user.  *)
(***************************************************************************)
EXTENDS Curve

CONSTANTS
    Keys,                  \* addresses: admins, signing keys, traders
    ZeroKey,               \* Address::default(); has no private key
    Vault,                 \* holder of the pool's token balances
    ThisPool,              \* the pool's own address
    NoPool,                \* PoolState account not yet allocated
    NewKeys,               \* keys named as signer or candidate in an argument
    Quotes,                \* quotes validly signed, by whatever key
    ParamInputs,           \* price parameters submitted
    TtlInputs,             \* TTLs submitted
    Amounts,               \* token amounts submitted
    MinOutputs,            \* min_output arguments
    Endowment,             \* tokens of each kind a key starts with
    MAX_TTL_SLOTS,         \* 8
    SAFETY_BUFFER_SLOTS,   \* 150
    MaxSlot,               \* bound on the clock
    MaxNonce,              \* bound on the oracle nonces submitted
    MaxRollback            \* how far the slot may fall behind the highest seen

Holders == Keys \cup {Vault}
Signers == Keys \ {ZeroKey}

SignedQuotes ==
    [pool : {ThisPool, NoPool}, user : Keys, direction : Sides, input_amount : Nat,
     price : Nat, expiry_slot : 0 .. MaxU64, nonce : Nat, signer : Keys]

ASSUME PoolConstants ==
    /\ ZeroKey \in Keys /\ Vault \notin Keys /\ ThisPool # NoPool
    /\ NewKeys \subseteq Keys /\ Quotes \subseteq SignedQuotes
    /\ ParamInputs \subseteq PriceParams
    /\ TtlInputs \subseteq Nat /\ Amounts \subseteq Nat /\ MinOutputs \subseteq Nat
    /\ Endowment \in [Keys -> Nat]
    /\ MAX_TTL_SLOTS \in Nat /\ SAFETY_BUFFER_SLOTS \in Nat
    /\ MaxSlot \in 0 .. MaxU64 /\ MaxNonce \in Nat /\ MaxRollback \in Nat

(* The slot read never falls further behind the highest slot seen than the *)
(* buffer constants.rs:30-40 chooses "against fork rollback".              *)
ASSUME BufferOutlastsRollback == MaxRollback <= SAFETY_BUFFER_SLOTS

PoolStates ==
    [admin : Keys, authorized_oracle_signer : Keys, authorized_quote_signer : Keys,
     params : {p \in PriceParams : ParamsOK(p)},
     last_oracle_update_slot : Nat, oracle_nonce : Nat,
     current_mode_ttl : 0 .. MAX_TTL_SLOTS, paused : BOOLEAN]

Proposals == [proposed_by : Keys, new_admin : Keys]
Markers == [nonce : Nat, expiry_slot : Nat]

ASSUME PoolAllocated == NoPool \notin PoolStates

VARIABLES
    pool,        \* PoolState, or NoPool
    markers,     \* the quote_nonce_marker accounts
    proposal,    \* the admin_proposal account: empty or one record
    base,        \* base-mint balance of every holder
    quote,       \* quote-mint balance of every holder
    slot,        \* Clock::get()?.slot
    highSlot,    \* history: the highest slot reached
    fillCount,   \* history: fills of each signed quote
    formerAdmins,  \* history: keys that have held the admin role and lost it
    adminMoved     \* history: the admin has changed since the last propose_admin

vars == <<pool, markers, proposal, base, quote, slot, highSlot, fillCount,
          formerAdmins, adminMoved>>
balances == <<base, quote>>
adminHist == <<formerAdmins, adminMoved>>
clock == <<slot, highSlot>>

Init ==
    /\ pool = NoPool
    /\ markers = {}
    /\ proposal = {}
    /\ base = [h \in Holders |-> IF h = Vault THEN 0 ELSE Endowment[h]]
    /\ quote = [h \in Holders |-> IF h = Vault THEN 0 ELSE Endowment[h]]
    /\ slot = 0
    /\ highSlot = 0
    /\ fillCount = [q \in Quotes |-> 0]
    /\ formerAdmins = {}
    /\ adminMoved = FALSE

Allocated == pool # NoPool

(* &pool.admin == admin_info.address(), the account being a signer *)
AdminSigns(k) == Allocated /\ k \in Signers /\ pool.admin = k

----------------------------------------------------------------------------
(* Beside some definitions stands a slip a mutant run has to catch, named  *)
(* after it: NonceAdvances_Reused is NonceAdvances gone wrong.             *)

(* The argument checks init_pool and update_oracle share. *)
OracleArgsOK_AnyTtl(p, ttl) == ParamsOK(p)

OracleArgsOK(p, ttl) == ParamsOK(p) /\ ttl <= MAX_TTL_SLOTS

(* init_pool: the PDA must be unallocated; the vaults start empty. *)
InitPool(k, oracle_signer, quote_signer, p, ttl) ==
    /\ ~Allocated
    /\ oracle_signer # ZeroKey
    /\ quote_signer # ZeroKey
    /\ OracleArgsOK(p, ttl)
    /\ pool' = [admin |-> k,
                authorized_oracle_signer |-> oracle_signer,
                authorized_quote_signer |-> quote_signer,
                params |-> p,
                last_oracle_update_slot |-> slot,
                oracle_nonce |-> 0,
                current_mode_ttl |-> ttl,
                paused |-> FALSE]
    /\ UNCHANGED <<markers, proposal, balances, clock, fillCount, adminHist>>

NonceAdvances_Reused(new_nonce) == new_nonce >= pool.oracle_nonce

NonceAdvances(new_nonce) == new_nonce > pool.oracle_nonce

(* update_oracle: one write of prices, nonce, slot and TTL; no balance read. *)
UpdateOracle(k, p, new_nonce, ttl) ==
    /\ Allocated
    /\ OracleArgsOK(p, ttl)
    /\ pool.authorized_oracle_signer = k
    /\ ~pool.paused
    /\ NonceAdvances(new_nonce)
    /\ pool' = [pool EXCEPT !.params = p,
                            !.last_oracle_update_slot = slot,
                            !.oracle_nonce = new_nonce,
                            !.current_mode_ttl = ttl]
    /\ UNCHANGED <<markers, proposal, balances, clock, fillCount, adminHist>>

----------------------------------------------------------------------------
(* execute_swap. *)

CurveFresh ==
    /\ pool.current_mode_ttl > 0
    /\ slot >= pool.last_oracle_update_slot
    /\ slot - pool.last_oracle_update_slot <= pool.current_mode_ttl

SwapOpen_WhilePaused(input) == Allocated /\ input # 0

SwapOpen(input) == Allocated /\ ~pool.paused /\ input # 0

(* A token transfer of the SPL program: fails when the source is short. *)
Moved(bal, from, to, amount) ==
    [bal EXCEPT ![from] = @ - amount, ![to] = @ + amount]

(* Both legs, or neither: user pays input, the vault pays the output. *)
Settle(user, side, input, min_output, price) ==
    LET out == OutputAmount(side, input, price) IN
    /\ OutputOk(side, input, price)
    /\ out >= min_output
    /\ \/ /\ side = "Buy"
          /\ input <= quote[user] /\ out <= base[Vault]
          /\ quote' = Moved(quote, user, Vault, input)
          /\ base' = Moved(base, Vault, user, out)
       \/ /\ side = "Sell"
          /\ input <= base[user] /\ out <= quote[Vault]
          /\ base' = Moved(base, user, Vault, input)
          /\ quote' = Moved(quote, Vault, user, out)

(* The checks of the RFQ path on the attached quote. *)
QuoteValid_AnyUser(q, user, side, input) ==
    /\ q.pool = ThisPool
    /\ q.direction = side
    /\ q.input_amount = input
    /\ slot <= q.expiry_slot
    /\ q.signer = pool.authorized_quote_signer

QuoteValid(q, user, side, input) ==
    /\ q.pool = ThisPool
    /\ q.user = user
    /\ q.direction = side
    /\ q.input_amount = input
    /\ slot <= q.expiry_slot
    /\ q.signer = pool.authorized_quote_signer

NonceUnused_PerQuote(q) == [nonce |-> q.nonce, expiry_slot |-> q.expiry_slot] \notin markers

NonceUnused(q) == \A m \in markers : m.nonce # q.nonce

(* init_quote_nonce_marker: fails if the PDA of this nonce is in use. *)
InitQuoteNonceMarker(q) ==
    /\ NonceUnused(q)
    /\ markers' = markers \cup {[nonce |-> q.nonce, expiry_slot |-> q.expiry_slot]}

CurveSwap_SpendsQuote(user, side, input, min_output) ==
    /\ SwapOpen(input)
    /\ CurveFresh
    /\ EvaluateOk(pool.params, side, input, base[Vault], quote[Vault])
    /\ Settle(user, side, input, min_output,
              Evaluate(pool.params, side, input, base[Vault], quote[Vault]))
    /\ \E q \in Quotes : QuoteValid(q, user, side, input) /\ InitQuoteNonceMarker(q)
    /\ UNCHANGED <<pool, proposal, clock, fillCount, adminHist>>

(* Fresh curve: priced from the vaults as they are now; any attached quote *)
(* is ignored, so no marker is spent.                                      *)
CurveSwap(user, side, input, min_output) ==
    /\ SwapOpen(input)
    /\ CurveFresh
    /\ EvaluateOk(pool.params, side, input, base[Vault], quote[Vault])
    /\ Settle(user, side, input, min_output,
              Evaluate(pool.params, side, input, base[Vault], quote[Vault]))
    /\ UNCHANGED <<pool, markers, proposal, clock, fillCount, adminHist>>

(* Stale curve: the signed quote's price, against a fresh marker. *)
RfqSwap(user, side, input, min_output, q) ==
    /\ SwapOpen(input)
    /\ ~CurveFresh
    /\ QuoteValid(q, user, side, input)
    /\ InitQuoteNonceMarker(q)
    /\ Settle(user, side, input, min_output, q.price)
    /\ fillCount' = [fillCount EXCEPT ![q] = @ + 1]
    /\ UNCHANGED <<pool, proposal, clock, adminHist>>

SaturatingAdd(a, b) == IF a + b > MaxU64 THEN MaxU64 ELSE a + b

(* close_expired_nonce: anyone, once expiry + buffer (u64, saturating) is past. *)
CloseExpiredNonce_AtExpiry(m) ==
    /\ Allocated
    /\ m \in markers
    /\ m.expiry_slot < slot
    /\ markers' = markers \ {m}
    /\ UNCHANGED <<pool, proposal, balances, clock, fillCount, adminHist>>

CloseExpiredNonce(m) ==
    /\ Allocated
    /\ m \in markers
    /\ SaturatingAdd(m.expiry_slot, SAFETY_BUFFER_SLOTS) < slot
    /\ markers' = markers \ {m}
    /\ UNCHANGED <<pool, proposal, balances, clock, fillCount, adminHist>>

----------------------------------------------------------------------------
(* Admin instructions. *)

SetPaused(k, p) ==
    /\ AdminSigns(k)
    /\ pool' = [pool EXCEPT !.paused = p]
    /\ UNCHANGED <<markers, proposal, balances, clock, fillCount, adminHist>>

RotateOracleSigner(k, new) ==
    /\ AdminSigns(k)
    /\ new # ZeroKey
    /\ pool' = [pool EXCEPT !.authorized_oracle_signer = new]
    /\ UNCHANGED <<markers, proposal, balances, clock, fillCount, adminHist>>

RotateQuoteSigner(k, new) ==
    /\ AdminSigns(k)
    /\ new # ZeroKey
    /\ pool' = [pool EXCEPT !.authorized_quote_signer = new]
    /\ UNCHANGED <<markers, proposal, balances, clock, fillCount, adminHist>>

(* History of the admin role, kept by the two instructions that move it. *)
RecordHandover(new) ==
    /\ formerAdmins' = IF new = pool.admin THEN formerAdmins
                                           ELSE formerAdmins \cup {pool.admin}
    /\ adminMoved' = (adminMoved \/ new # pool.admin)

(* rotate_admin: single step; no check of the new key, proposal untouched. *)
RotateAdmin(k, new) ==
    /\ AdminSigns(k)
    /\ pool' = [pool EXCEPT !.admin = new]
    /\ RecordHandover(new)
    /\ UNCHANGED <<markers, proposal, balances, clock, fillCount>>

ProposeAdmin(k, new) ==
    /\ AdminSigns(k)
    /\ new # ZeroKey
    /\ new # pool.admin
    /\ proposal = {}
    /\ proposal' = {[proposed_by |-> k, new_admin |-> new]}
    /\ adminMoved' = FALSE
    /\ UNCHANGED <<pool, markers, balances, clock, fillCount, formerAdmins>>

ProposalStands_Always(r) == r \in proposal

(* Not ProposalStale: the proposer is the admin of now. *)
ProposalStands(r) == r.proposed_by = pool.admin

AcceptAdmin(k) ==
    /\ Allocated
    /\ \E r \in proposal : r.new_admin = k /\ ProposalStands(r)
    /\ pool' = [pool EXCEPT !.admin = k]
    /\ proposal' = {}
    /\ RecordHandover(k)
    /\ UNCHANGED <<markers, balances, clock, fillCount>>

CancelAdminProposal(k) ==
    /\ AdminSigns(k)
    /\ proposal # {}
    /\ proposal' = {}
    /\ UNCHANGED <<pool, markers, balances, clock, fillCount, adminHist>>

AdminWithdrawInventory(k, base_amount, quote_amount) ==
    /\ AdminSigns(k)
    /\ base_amount # 0 \/ quote_amount # 0
    /\ base_amount <= base[Vault]
    /\ quote_amount <= quote[Vault]
    /\ base' = Moved(base, Vault, k, base_amount)
    /\ quote' = Moved(quote, Vault, k, quote_amount)
    /\ UNCHANGED <<pool, markers, proposal, clock, fillCount, adminHist>>

----------------------------------------------------------------------------
(* The environment. *)

(* Anyone may transfer tokens into a vault; this is how inventory arrives. *)
Deposit(k, base_amount, quote_amount) ==
    /\ Allocated
    /\ base_amount <= base[k]
    /\ quote_amount <= quote[k]
    /\ base' = Moved(base, k, Vault, base_amount)
    /\ quote' = Moved(quote, k, Vault, quote_amount)
    /\ UNCHANGED <<pool, markers, proposal, clock, fillCount, adminHist>>

Tick ==
    /\ slot < MaxSlot
    /\ slot' = slot + 1
    /\ highSlot' = IF slot' > highSlot THEN slot' ELSE highSlot
    /\ UNCHANGED <<pool, markers, proposal, balances, fillCount, adminHist>>

(* A fork rollback as execute_swap guards for it: the slot read falls back *)
(* while accounts written in the abandoned slots are still seen.           *)
ForkRollback ==
    /\ \E s \in 0 .. slot :
        /\ s < slot
        /\ highSlot - s <= MaxRollback
        /\ slot' = s
    /\ UNCHANGED <<pool, markers, proposal, balances, highSlot, fillCount, adminHist>>

Next ==
    \/ \E k \in Signers, o, s \in NewKeys, p \in ParamInputs, ttl \in TtlInputs :
            InitPool(k, o, s, p, ttl)
    \/ \E k \in Signers, p \in ParamInputs, n \in 0 .. MaxNonce, ttl \in TtlInputs :
            UpdateOracle(k, p, n, ttl)
    \/ \E u \in Signers, side \in Sides, x \in Amounts, min \in MinOutputs :
            \/ CurveSwap(u, side, x, min)
            \/ \E q \in Quotes : RfqSwap(u, side, x, min, q)
    \/ \E m \in markers : CloseExpiredNonce(m)
    \/ \E k \in Signers :
            \/ \E p \in BOOLEAN : SetPaused(k, p)
            \/ \E new \in NewKeys :
                    \/ RotateOracleSigner(k, new)
                    \/ RotateQuoteSigner(k, new)
                    \/ RotateAdmin(k, new)
                    \/ ProposeAdmin(k, new)
            \/ AcceptAdmin(k)
            \/ CancelAdminProposal(k)
            \/ \E b, c \in Amounts :
                    AdminWithdrawInventory(k, b, c) \/ Deposit(k, b, c)
    \/ Tick
    \/ ForkRollback

Spec == Init /\ [][Next]_vars

----------------------------------------------------------------------------
(* Properties. *)

(* Types, and the argument checks of init_pool and update_oracle as a      *)
(* property of every PoolState they can leave behind.                      *)
TypeOK ==
    /\ pool \in PoolStates \cup {NoPool}
    /\ markers \subseteq Markers
    /\ proposal \subseteq Proposals
    /\ base \in [Holders -> Nat]
    /\ quote \in [Holders -> Nat]
    /\ slot \in 0 .. MaxSlot
    /\ highSlot \in 0 .. MaxSlot
    /\ fillCount \in [Quotes -> Nat]
    /\ formerAdmins \subseteq Keys
    /\ adminMoved \in BOOLEAN

(* "RFQ quotes are one-shot" (SPECIFICATION 3.3).  Markers are closed and  *)
(* their nonces become usable again, and the slot may fall back by         *)
(* MaxRollback: the safety buffer of close_expired_nonce has to outlast it.*)
FilledAtMostOnce == \A q \in Quotes : fillCount[q] <= 1

(* "Never reuse the same nonce for a different quote" (SPECIFICATION 2.4)  *)
(* is enforced while it matters: of two quotes with one nonce, both filled,*)
(* at most one can still be unexpired.                                     *)
NonceExclusive ==
    \A q, r \in Quotes :
        /\ q # r /\ q.nonce = r.nonce
        /\ fillCount[q] > 0 /\ fillCount[r] > 0
        => slot > q.expiry_slot \/ slot > r.expiry_slot

(* A marker stands only for a fill: a swap priced by the curve, or one     *)
(* that fails, leaves the attached quote and its nonce usable.             *)
MarkersAreFills ==
    \A m \in markers : \E q \in Quotes :
        q.nonce = m.nonce /\ q.expiry_slot = m.expiry_slot /\ fillCount[q] > 0

(* The inductive invariant behind these three.  A filled quote is guarded  *)
(* by its marker until it is retired: so long expired that no rollback     *)
(* brings its last slot back.                                              *)
Retired(q) == q.expiry_slot + SAFETY_BUFFER_SLOTS < highSlot

SlotLag == slot <= highSlot /\ highSlot <= slot + MaxRollback

FillsGuarded ==
    \A q \in Quotes : fillCount[q] > 0 =>
        \/ [nonce |-> q.nonce, expiry_slot |-> q.expiry_slot] \in markers
        \/ Retired(q)

NonceOwned ==
    \A q, r \in Quotes :
        /\ q # r /\ q.nonce = r.nonce
        /\ fillCount[q] > 0 /\ fillCount[r] > 0
        => Retired(q) \/ Retired(r)

ReplayInv ==
    /\ TypeOK /\ SlotLag
    /\ FilledAtMostOnce /\ FillsGuarded /\ NonceOwned /\ MarkersAreFills

(* "Kill switch" (SPECIFICATION 3.4): while the pool is paused nobody but  *)
(* the admin receives tokens, and the price it will reopen with is frozen. *)
KillSwitch ==
    [][Allocated /\ pool.paused =>
         /\ \A k \in Keys \ {pool.admin} : base'[k] <= base[k] /\ quote'[k] <= quote[k]
         /\ pool'.params = pool.params
         /\ pool'.oracle_nonce = pool.oracle_nonce]_vars

(* An oracle update is applied once and never after a later one: prices,   *)
(* TTL and update slot change only together with a higher nonce, and the   *)
(* pool account is never initialised again.                                *)
OracleMonotone ==
    [][Allocated =>
         /\ Allocated'
         /\ \/ pool'.oracle_nonce > pool.oracle_nonce
            \/ /\ pool'.oracle_nonce = pool.oracle_nonce
               /\ pool'.params = pool.params
               /\ pool'.current_mode_ttl = pool.current_mode_ttl
               /\ pool'.last_oracle_update_slot = pool.last_oracle_update_slot]_vars

(* accept_admin rejects every proposal made before the last change of      *)
(* admin, unless its proposer has meanwhile been out of office and come    *)
(* back: proposed_by alone cannot tell the two terms of one key apart.     *)
StaleOnlyAfterReturn ==
    [][\A k \in Signers :
         AcceptAdmin(k) /\ adminMoved => pool.admin \in formerAdmins]_vars

(* The pool implements the settlement desk of Settlement.tla.              *)
Desk == INSTANCE Settlement WITH
            honoured <- fillCount,
            halted <- Allocated /\ pool.paused,
            operator <- IF Allocated THEN pool.admin ELSE ZeroKey

ImplementsSettlement == Desk!Spec
=============================================================================
