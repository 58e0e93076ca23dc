-------------------------------- MODULE Rfq --------------------------------
(***************************************************************************)
(* The RFQ service (api/src): POST /quote puts an unsigned quote into a    *)
(* bounded cache, POST /swap takes a last look at the chain, signs it and  *)
(* deletes it from the cache.  Requests run concurrently in one process    *)
(* and interleave at their awaits; each await is a read of the chain that  *)
(* may fail, and a step of its own here.  An answer that changes nothing   *)
(* but the request itself just ends the request.                           *)
(*                                                                         *)
(* Around it: the pool, moved by others (Pool is its model), and users     *)
(* who submit what was signed for them at any time, or never.              *)
(***************************************************************************)
EXTENDS QuotePricing, FiniteSets

CONSTANTS
    Workers,               \* requests that may be in progress at once
    Users,
    Nonces,                \* what nextQuoteNonce may return; also the quoteIds
    None,
    FairValues, Ttls,      \* what the keeper may publish
    SpreadBps,             \* pool.spreadBps
    Inputs,                \* [Side -> inAmount]: the sizes asked for
    QuoteValidWindowSlots, \* 200
    MmMaxDriftBps,         \* 50
    MaxEntries,            \* QUOTE_CACHE_MAX_ENTRIES, 10_000
    CacheTtl,              \* QUOTE_CACHE_TTL_MS, 5 min
    SlotLag,               \* how far getSlot may be behind
    MaxRollback,           \* bounds: depth of fork rollbacks,
    MaxSlot, MaxFaults     \* slots, and RPC faults with restarts

ASSUME RfqConstants ==
    /\ FairValues \subseteq Nat \ {0} /\ Ttls \subseteq Nat
    /\ SpreadBps \in 0 .. MAX_SPREAD_BPS
    /\ DOMAIN Inputs \subseteq Sides
    /\ \A side \in DOMAIN Inputs : Inputs[side] \in Nat \ {0}
    /\ QuoteValidWindowSlots \in Nat /\ MmMaxDriftBps \in Nat
    /\ MaxEntries \in Nat \ {0} /\ CacheTtl \in Nat
    /\ SlotLag \in Nat /\ MaxRollback \in Nat /\ MaxSlot \in Nat /\ MaxFaults \in Nat

Asked == DOMAIN Inputs

(* The fields of PoolState the service reads. *)
Pools == [fair : FairValues, updated : Nat, ttl : Ttls, paused : BOOLEAN]

PendingQuotes ==
    [user : Users, side : Asked, inAmount : Nat, price : Nat \ {0}, outAmount : Nat,
     fairValueAtQuote : FairValues, expirySlot : Nat, nonce : Nonces]

(* A request in progress, by the await it is at. *)
Requests ==
    [op : {"quote"}, at : {"slot"}, user : Users, side : Asked, pool : Pools]
    \cup [op : {"quote"}, at : {"vault"}, user : Users, side : Asked, pool : Pools,
          current : Nat]
    \cup [op : {"swap"}, at : {"pool", "vault"}, quote : PendingQuotes]
    \cup [op : {"swap"}, at : {"slot"}, quote : PendingQuotes, pool : Pools]
    \cup [op : {"swap"}, at : {"blockhash"}, quote : PendingQuotes, nonce : Nonces]

ASSUME NoneIsNoRequest == None \notin Requests

VARIABLES
    pool,       \* on chain: PoolState, and the sides whose output
    stocked,    \*           vault covers a quote
    slot,
    highSlot,   \* history: the highest slot reached
    store,      \* the cache: pending quotes with age and insertion order
    req,        \* the request each worker is at, or None
    issued,     \* nonces drawn so far
    released,   \* signed quotes handed out
    markers,    \* on chain: nonces spent
    fills,      \* history: RFQ fills
    given,      \* history: how often each quote was handed out
    seen,       \* history: the fair values the pool had in each slot
    faults

clock == <<slot, highSlot>>
chain == <<pool, stocked, clock, markers, fills, seen>>
vars == <<pool, stocked, slot, highSlot, store, req, issued, released, markers, fills, given,
          seen, faults>>

Init ==
    /\ pool \in [fair : FairValues, updated : {0}, ttl : Ttls, paused : {FALSE}]
    /\ stocked = Asked
    /\ slot = 0
    /\ highSlot = 0
    /\ store = {}
    /\ req = [w \in Workers |-> None]
    /\ issued = {}
    /\ released = {}
    /\ markers = {}
    /\ fills = {}
    /\ given = [n \in Nonces |-> 0]
    /\ seen = [s \in 0 .. MaxSlot |-> IF s = 0 THEN {pool.fair} ELSE {}]
    /\ faults = 0

At(w, op, step) == req[w] # None /\ req[w].op = op /\ req[w].at = step

Goto(w, r) == req' = [req EXCEPT ![w] = r]

(* getSlot may be answered by a node that is behind. *)
SlotReads == {s \in 0 .. slot : slot - s <= SlotLag}

----------------------------------------------------------------------------
(* cache.ts: a Map in insertion order. *)

Expired(e) == e.age > CacheTtl

Without(entries, n) == {e \in entries : e.quote.nonce # n}

Oldest(entries) == {e \in entries : \A f \in entries : e.order <= f.order}

CacheSet(entries, q, order) ==
    LET all == Without(entries, q.nonce)
                 \cup {[quote |-> q, age |-> 0, order |-> order]}
    IN  IF Cardinality(all) <= MaxEntries THEN all ELSE all \ Oldest(all)

(* The sweep timer. *)
SweepExpired ==
    /\ store' = {e \in store : ~Expired(e)}
    /\ UNCHANGED <<chain, req, issued, released, given, faults>>

CacheAges ==
    /\ store' = {[e EXCEPT !.age = IF Expired(e) THEN @ ELSE @ + 1] : e \in store}
    /\ UNCHANGED <<chain, req, issued, released, given, faults>>

----------------------------------------------------------------------------
(* POST /quote *)

QuoteReadPool(w, u, side) ==
    /\ req[w] = None
    /\ ~pool.paused
    /\ Goto(w, [op |-> "quote", at |-> "slot", user |-> u, side |-> side, pool |-> pool])
    /\ UNCHANGED <<chain, store, issued, released, given, faults>>

QuoteReadSlot(w) ==
    /\ At(w, "quote", "slot")
    /\ \E s \in SlotReads :
        LET r == req[w]
        IN  Goto(w, IF \/ ComputeFreshness(r.pool.updated, r.pool.ttl, s)
                       \/ QuotePrice(r.pool.fair, SpreadBps, r.side) = 0
                    THEN None
                    ELSE [op |-> "quote", at |-> "vault", user |-> r.user,
                          side |-> r.side, pool |-> r.pool, current |-> s])
    /\ UNCHANGED <<chain, store, issued, released, given, faults>>

ExpirySlot_OneMore(current) == current + QuoteValidWindowSlots + 1

ExpirySlot(current) == current + QuoteValidWindowSlots

(* The pending quote: unsigned, everything /swap will sign. *)
PendingQuote(r, n) ==
    LET price == QuotePrice(r.pool.fair, SpreadBps, r.side)
    IN  [user |-> r.user, side |-> r.side, inAmount |-> Inputs[r.side], price |-> price,
         outAmount |-> QuoteOut(r.side, Inputs[r.side], price),
         fairValueAtQuote |-> r.pool.fair,
         expirySlot |-> ExpirySlot(r.current), nonce |-> n]

QuoteReadVaults(w) ==
    /\ At(w, "quote", "vault")
    /\ IF req[w].side \in stocked
       THEN \E n \in Nonces \ issued :
                /\ store' = CacheSet(store, PendingQuote(req[w], n), Cardinality(issued))
                /\ issued' = issued \cup {n}
       ELSE UNCHANGED <<store, issued>>
    /\ Goto(w, None)
    /\ UNCHANGED <<chain, released, given, faults>>

----------------------------------------------------------------------------
(* POST /swap *)

SwapLookup(w, e, u) ==
    /\ req[w] = None
    /\ e \in store
    /\ IF Expired(e)
       THEN store' = Without(store, e.quote.nonce) /\ UNCHANGED req
       ELSE /\ u = e.quote.user
            /\ Goto(w, [op |-> "swap", at |-> "pool", quote |-> e.quote])
            /\ UNCHANGED store
    /\ UNCHANGED <<chain, issued, released, given, faults>>

SwapReadPool(w) ==
    /\ At(w, "swap", "pool")
    /\ Goto(w, IF pool.paused
               THEN None
               ELSE [op |-> "swap", at |-> "slot", quote |-> req[w].quote, pool |-> pool])
    /\ UNCHANGED <<chain, store, issued, released, given, faults>>

LastLook_NoDrift(r, s) ==
    /\ s < r.quote.expirySlot
    /\ ~ComputeFreshness(r.pool.updated, r.pool.ttl, s)

(* What the pool and the slot are checked for, in the order of the code.   *)
LastLook(r, s) ==
    /\ s < r.quote.expirySlot
    /\ ~ComputeFreshness(r.pool.updated, r.pool.ttl, s)
    /\ DriftBps(r.pool.fair, r.quote.fairValueAtQuote) <= MmMaxDriftBps

SwapReadSlot(w) ==
    /\ At(w, "swap", "slot")
    /\ \E s \in SlotReads :
        Goto(w, IF LastLook(req[w], s)
                THEN [op |-> "swap", at |-> "vault", quote |-> req[w].quote]
                ELSE None)
    /\ UNCHANGED <<chain, store, issued, released, given, faults>>

(* The vaults, then the signature, which stays in the process until the    *)
(* blockhash has been read.                                                *)
SwapSign_DeletesEarly(w) ==
    /\ At(w, "swap", "vault")
    /\ IF req[w].quote.side \in stocked
       THEN /\ Goto(w, [op |-> "swap", at |-> "blockhash", quote |-> req[w].quote,
                        nonce |-> req[w].quote.nonce])
            /\ store' = Without(store, req[w].quote.nonce)
       ELSE Goto(w, None) /\ UNCHANGED store
    /\ UNCHANGED <<chain, issued, released, given, faults>>

SwapSign_FreshNonce(w) ==
    /\ At(w, "swap", "vault")
    /\ IF req[w].quote.side \in stocked
       THEN \E n \in Nonces :
                Goto(w, [op |-> "swap", at |-> "blockhash", quote |-> req[w].quote,
                         nonce |-> n])
       ELSE Goto(w, None)
    /\ UNCHANGED <<chain, store, issued, released, given, faults>>

SwapSign(w) ==
    /\ At(w, "swap", "vault")
    /\ Goto(w, IF req[w].quote.side \in stocked
               THEN [op |-> "swap", at |-> "blockhash", quote |-> req[w].quote,
                     nonce |-> req[w].quote.nonce]
               ELSE None)
    /\ UNCHANGED <<chain, store, issued, released, given, faults>>

SwapAnswer_KeepsQuote(w) ==
    /\ At(w, "swap", "blockhash")
    /\ LET r == req[w] IN
        /\ released' = released \cup {[quote |-> r.quote, nonce |-> r.nonce]}
        /\ given' = [given EXCEPT ![r.quote.nonce] = @ + 1]
    /\ Goto(w, None)
    /\ UNCHANGED <<chain, store, issued, faults>>

SwapAnswer(w) ==
    /\ At(w, "swap", "blockhash")
    /\ LET r == req[w] IN
        /\ store' = Without(store, r.quote.nonce)
        /\ released' = released \cup {[quote |-> r.quote, nonce |-> r.nonce]}
        /\ given' = [given EXCEPT ![r.quote.nonce] = @ + 1]
    /\ Goto(w, None)
    /\ UNCHANGED <<chain, issued, faults>>

----------------------------------------------------------------------------
(* Faults: an await that throws (the handler answers 500), a restart.      *)

RequestFails(w) ==
    /\ req[w] # None
    /\ faults < MaxFaults
    /\ faults' = faults + 1
    /\ Goto(w, None)
    /\ UNCHANGED <<chain, store, issued, released, given>>

ApiRestarts ==
    /\ faults < MaxFaults
    /\ faults' = faults + 1
    /\ store' = {}
    /\ req' = [w \in Workers |-> None]
    /\ UNCHANGED <<chain, issued, released, given>>

service == <<store, req, issued, released, given, faults>>

----------------------------------------------------------------------------
(* The chain. *)

(* The RFQ branch of execute_swap, for a quote with a valid signature.     *)
Submit(x) ==
    LET q == x.quote
        out == OutputAmount(q.side, q.inAmount, q.price)
    IN  /\ x \in released
        /\ ~pool.paused
        /\ ~CurveFresh(pool.updated, pool.ttl, slot)
        /\ slot <= q.expirySlot
        /\ x.nonce \notin markers
        /\ out >= q.outAmount
        /\ q.side \in stocked
        /\ markers' = markers \cup {x.nonce}
        /\ fills' = fills \cup {[quote |-> q, nonce |-> x.nonce, at |-> slot]}
        /\ UNCHANGED <<pool, stocked, clock, seen, service>>

UpdateOracle ==
    /\ \E fair \in FairValues, ttl \in Ttls :
        /\ pool' = [pool EXCEPT !.fair = fair, !.ttl = ttl, !.updated = slot]
        /\ seen' = [seen EXCEPT ![slot] = @ \cup {fair}]
    /\ UNCHANGED <<stocked, clock, markers, fills, service>>

SetPaused ==
    /\ pool' = [pool EXCEPT !.paused = ~@]
    /\ UNCHANGED <<stocked, clock, markers, fills, seen, service>>

InventoryMoves ==
    /\ stocked' \in SUBSET Asked
    /\ UNCHANGED <<pool, clock, markers, fills, seen, service>>

Tick ==
    /\ slot < MaxSlot
    /\ slot' = slot + 1
    /\ highSlot' = IF slot' > highSlot THEN slot' ELSE highSlot
    /\ seen' = [seen EXCEPT ![slot + 1] = @ \cup {pool.fair}]
    /\ UNCHANGED <<pool, stocked, markers, fills, service>>

(* As execute_swap guards for it: see Pool. *)
ForkRollback ==
    /\ \E s \in 0 .. slot :
        /\ s < slot
        /\ highSlot - s <= MaxRollback
        /\ slot' = s
        /\ seen' = [seen EXCEPT ![s] = @ \cup {pool.fair}]
    /\ UNCHANGED <<pool, stocked, highSlot, markers, fills, service>>

Next ==
    \/ \E w \in Workers :
        \/ \E u \in Users, side \in Asked : QuoteReadPool(w, u, side)
        \/ QuoteReadSlot(w) \/ QuoteReadVaults(w)
        \/ \E e \in store, u \in Users : SwapLookup(w, e, u)
        \/ SwapReadPool(w) \/ SwapReadSlot(w) \/ SwapSign(w) \/ SwapAnswer(w)
        \/ RequestFails(w)
    \/ SweepExpired \/ CacheAges \/ ApiRestarts
    \/ \E x \in released : Submit(x)
    \/ UpdateOracle \/ SetPaused \/ InventoryMoves \/ Tick \/ ForkRollback

Spec == Init /\ [][Next]_vars

----------------------------------------------------------------------------
(* Properties. *)

(* Types. *)
TypeOK ==
    /\ pool \in Pools /\ pool.updated \in 0 .. MaxSlot
    /\ stocked \subseteq Asked
    /\ slot \in 0 .. MaxSlot /\ highSlot \in 0 .. MaxSlot
    /\ store \subseteq [quote : PendingQuotes, age : Nat, order : Nat]
    /\ req \in [Workers -> Requests \cup {None}]
    /\ issued \subseteq Nonces
    /\ released \subseteq [quote : PendingQuotes, nonce : Nonces]
    /\ markers \subseteq Nonces
    /\ fills \subseteq [quote : PendingQuotes, nonce : Nonces, at : 0 .. MaxSlot]
    /\ given \in [Nonces -> Nat]
    /\ seen \in [0 .. MaxSlot -> SUBSET FairValues]
    /\ faults \in Nat

(* The quotes the service still holds or has handed out. *)
Quotes ==
    {e.quote : e \in store} \cup {x.quote : x \in released}
      \cup {req[w].quote : w \in {v \in Workers : req[v] # None /\ req[v].op = "swap"}}

(* A quote is filled at most once, however often it was signed and handed  *)
(* out: every signature of it carries the nonce drawn at /quote.           *)
FilledOnce == \A f, g \in fills : f.quote.nonce = g.quote.nonce => f = g

(* A quote that has been handed out is not in the cache and never comes    *)
(* back: only requests that had looked it up before can sign it again.     *)
SpentQuotesAreGone == \A e \in store : given[e.quote.nonce] = 0

(* Until it is handed out, a quote leaves the cache only by age, as the    *)
(* oldest of a full cache, or with the process: a /swap that fails or is   *)
(* refused, however late, leaves it redeemable.                            *)
QuotesSurviveFailure ==
    [][\A e \in store :
         e.quote \notin {f.quote : f \in store'} =>
            \/ given'[e.quote.nonce] > given[e.quote.nonce]
            \/ Expired(e)
            \/ e \in Oldest(store) /\ Cardinality(store) = MaxEntries
                /\ Cardinality(store') = MaxEntries
            \/ ApiRestarts]_vars

(* The price drift allowed at the last look is that of a fair value the    *)
(* pool had at most QuoteValidWindowSlots slots before the fill, and what  *)
(* a rollback adds: an option the taker holds is never older than that,    *)
(* wherever the awaits fall.  (A look may also be from a slot that a       *)
(* rollback has since undone, ahead of the fill.)                          *)
Within(v, fair) ==
    LET drift == IF v > fair THEN v - fair ELSE fair - v
    IN  drift * BPS_DENOMINATOR <= MmMaxDriftBps * fair

FillsAreRecent ==
    \A f \in fills : \E s \in 0 .. MaxSlot :
        /\ f.at - s <= QuoteValidWindowSlots + MaxRollback /\ s - f.at <= MaxRollback
        /\ \E v \in seen[s] : Within(v, f.quote.fairValueAtQuote)

(* The quote previewed by /quote is what the program pays: min_output is   *)
(* met exactly, so slippage never refuses a signed quote.                  *)
PreviewIsExact ==
    \A q \in Quotes : OutputAmount(q.side, q.inAmount, q.price) = q.outAmount

(* "Price rounding mirrors on-chain math/curve.rs::evaluate": the RFQ price *)
(* is that of the curve without depth and skew, whatever the inventory.    *)
PricedAsFlatCurve ==
    \A q \in Quotes :
        q.price = Evaluate(FlatParams(q.fairValueAtQuote, SpreadBps), q.side,
                           q.inAmount, 0, 0)
=============================================================================
