----------------------------- MODULE RfqProofs -----------------------------
(***************************************************************************)
(* The RFQ service for any number of concurrent requests, users and        *)
(* quotes: a quote fills at most once, a spent quote never returns to the  *)
(* cache, every quote has the price of the flat curve, and what is filled  *)
(* has been looked at within the validity window.                          *)
(***************************************************************************)
EXTENDS Rfq, CurveProofs, FiniteSetTheorems, WellFoundedInduction

----------------------------------------------------------------------------
(* Prices. *)

(* Half the spread leaves the factor of a Sell positive. *)
LEMMA HalfSpread ==
    ASSUME NEW spread \in 0 .. MAX_SPREAD_BPS
    PROVE  spread \div 2 \in Nat /\ BPS_DENOMINATOR - (spread \div 2) \in Nat \ {0}
  BY CurveConstants

(* A fair value has a price on either side; a Sell's may be 0.             *)
LEMMA QuotePriceNat ==
    ASSUME NEW fair \in Nat, NEW spread \in 0 .. MAX_SPREAD_BPS, NEW side \in Sides
    PROVE  QuotePrice(fair, spread, side) \in Nat
  <1>1. CASE side = "Buy"
    <2>1. BPS_DENOMINATOR + (spread \div 2) \in Nat  BY HalfSpread, CurveConstants
    <2> QED  BY <1>1, <2>1, MulDivCeilNat, CurveConstants DEF QuotePrice
  <1>2. CASE side = "Sell"
    <2>1. BPS_DENOMINATOR - (spread \div 2) \in Nat  BY HalfSpread
    <2> QED  BY <1>2, <2>1, MulDivFloorNat, CurveConstants DEF QuotePrice
  <1> QED  BY <1>1, <1>2 DEF Sides

(* At a price there is an output.                                          *)
LEMMA QuoteOutNat ==
    ASSUME NEW side \in Sides, NEW input \in Nat, NEW price \in Nat \ {0}
    PROVE  QuoteOut(side, input, price) \in Nat
  <1>1. input * PRICE_SCALE \in Nat /\ input * price \in Nat
    BY MulNat, CurveConstants
  <1> QED  BY <1>1, DivFacts, CurveConstants DEF QuoteOut

(* The RFQ price is the curve's with neither depth nor skew: the same for  *)
(* every size and every inventory (quote_pricing.ts beside curve.rs).      *)
THEOREM QuotePriceIsFlatCurve ==
    ASSUME NEW fair \in Nat \ {0}, NEW spread \in 0 .. MAX_SPREAD_BPS,
           NEW side \in Sides, NEW x \in Nat, NEW b \in Nat, NEW q \in Nat
    PROVE  QuotePrice(fair, spread, side)
             = Evaluate(FlatParams(fair, spread), side, x, b, q)
  <1> DEFINE p == FlatParams(fair, spread)
  <1> USE CurveConstants
  <1>1. p \in PriceParams /\ ParamsOK(p)
    BY DEF FlatParams, PriceParams, ParamsOK
  <1>2. p.max_depth_bps = 0 /\ p.max_skew_offset_bps = 0
        /\ p.spread_bps = spread /\ p.fair_value = fair
    BY DEF FlatParams
  <1> HIDE DEF p
  <1>3. SkewOffsetBps(p, b, q) = 0  BY <1>1, <1>2, SkewBounds
  <1>4. DepthBps(p, side, x) = 0  BY <1>1, <1>2, DepthBounds
  <1>5. spread \div 2 \in Nat  BY HalfSpread
  <1>6. BpsFactor(p, side, x, b, q)
          = IF side = "Buy" THEN BPS_DENOMINATOR + (spread \div 2)
                            ELSE BPS_DENOMINATOR - (spread \div 2)
    BY <1>2, <1>3, <1>4, <1>5 DEF BpsFactor, TotalBps
  <1>7. QuotePrice(fair, spread, side) = Evaluate(p, side, x, b, q)
    BY <1>2, <1>6 DEF QuotePrice, Evaluate
  <1> QED  BY <1>7 DEF p

(* The output previewed at /quote is the program's OutputAmount.           *)
LEMMA PreviewFacts ==
    ASSUME NEW side, NEW input, NEW price
    PROVE  QuoteOut(side, input, price) = OutputAmount(side, input, price)
  BY DEF QuoteOut, OutputAmount, MulDivFloor

(* A drift within the allowance in whole bps, rounded up, is within it.    *)
LEMMA DriftIsWithin ==
    ASSUME NEW v \in FairValues, NEW fair \in FairValues,
           DriftBps(v, fair) <= MmMaxDriftBps
    PROVE  Within(v, fair)
  <1> DEFINE drift == IF v > fair THEN v - fair ELSE fair - v
             bps == MulDivCeil(drift, BPS_DENOMINATOR, fair)
  <1> USE CurveConstants, RfqConstants
  <1>1. drift \in Nat /\ fair \in Nat \ {0}  OBVIOUS
  <1>2. bps \in Nat /\ drift * BPS_DENOMINATOR <= fair * bps
    BY <1>1, MulDivCeilNat
  <1>3. bps <= MmMaxDriftBps  BY DEF DriftBps
  <1> HIDE DEF drift, bps
  <1>4. bps * fair <= MmMaxDriftBps * fair  BY <1>1, <1>2, <1>3, MulMono
  <1>5. drift * BPS_DENOMINATOR <= MmMaxDriftBps * fair
    BY <1>1, <1>2, <1>4, MulNat
  <1> QED  BY <1>5 DEF Within, drift

----------------------------------------------------------------------------
(* Types. *)

(* What a pending quote is made of.                                        *)
LEMMA PendingQuoteType ==
    ASSUME NEW r \in [op : {"quote"}, at : {"vault"}, user : Users, side : Asked,
                      pool : Pools, current : Nat],
           QuotePrice(r.pool.fair, SpreadBps, r.side) # 0, NEW n \in Nonces
    PROVE  PendingQuote(r, n) \in PendingQuotes
  <1> DEFINE price == QuotePrice(r.pool.fair, SpreadBps, r.side)
             out == QuoteOut(r.side, Inputs[r.side], price)
  <1> USE RfqConstants
  <1>1. r.side \in Sides /\ r.side \in Asked /\ r.pool.fair \in FairValues
        /\ Inputs[r.side] \in Nat /\ r.user \in Users /\ r.current \in Nat
    BY DEF Asked, Pools
  <1>2. price \in Nat \ {0}  BY <1>1, QuotePriceNat
  <1>3. out \in Nat  BY <1>1, <1>2, QuoteOutNat
  <1>4. ExpirySlot(r.current) \in Nat  BY <1>1 DEF ExpirySlot
  <1> HIDE DEF price, out
  <1>5. PendingQuote(r, n) =
          [user |-> r.user, side |-> r.side, inAmount |-> Inputs[r.side],
           price |-> price, outAmount |-> out, fairValueAtQuote |-> r.pool.fair,
           expirySlot |-> ExpirySlot(r.current), nonce |-> n]
    BY DEF PendingQuote, price, out
  <1> QED  BY <1>1, <1>2, <1>3, <1>4, <1>5 DEF PendingQuotes

(* The cache takes in one quote and drops others.                          *)
LEMMA CacheSetIn ==
    ASSUME NEW entries, NEW q, NEW order
    PROVE  CacheSet(entries, q, order)
             \subseteq entries \cup {[quote |-> q, age |-> 0, order |-> order]}
  <1> DEFINE all == Without(entries, q.nonce)
                      \cup {[quote |-> q, age |-> 0, order |-> order]}
  <1>1. all \subseteq entries \cup {[quote |-> q, age |-> 0, order |-> order]}
    BY DEF Without
  <1>2. CacheSet(entries, q, order) \in {all, all \ Oldest(all)}
    BY DEF CacheSet
  <1> HIDE DEF all
  <1> QED  BY <1>1, <1>2

(* What each await of a request holds.                                     *)
LEMMA RequestTypes ==
    ASSUME TypeOK, NEW w \in Workers, req[w] # None
    PROVE  /\ At(w, "quote", "slot") =>
                req[w] \in [op : {"quote"}, at : {"slot"}, user : Users, side : Asked,
                            pool : Pools]
           /\ At(w, "quote", "vault") =>
                req[w] \in [op : {"quote"}, at : {"vault"}, user : Users, side : Asked,
                            pool : Pools, current : Nat]
           /\ At(w, "swap", "slot") =>
                req[w] \in [op : {"swap"}, at : {"slot"}, quote : PendingQuotes,
                            pool : Pools]
           /\ At(w, "swap", "blockhash") =>
                req[w] \in [op : {"swap"}, at : {"blockhash"}, quote : PendingQuotes,
                            nonce : Nonces]
           /\ req[w].op = "swap" => req[w].quote \in PendingQuotes
  BY DEF TypeOK, Requests, At

(* A price is only held while there is one; the nonces drawn are finitely  *)
(* many.                                                                   *)
PricesHeld ==
    \A w \in Workers : At(w, "quote", "vault") =>
        QuotePrice(req[w].pool.fair, SpreadBps, req[w].side) # 0

TypeInv == TypeOK /\ IsFiniteSet(issued) /\ PricesHeld

(* A step that moves one request and the cache within their types.         *)
LEMMA ServiceStep ==
    ASSUME TypeInv, NEW w \in Workers, NEW r \in Requests \cup {None}, Goto(w, r),
           r # None /\ r.op = "quote" /\ r.at = "vault" =>
               QuotePrice(r.pool.fair, SpreadBps, r.side) # 0,
           store' \subseteq [quote : PendingQuotes, age : Nat, order : Nat],
           UNCHANGED <<chain, issued, released, given>>, faults' \in Nat
    PROVE  TypeInv'
  <1>1. req' \in [Workers -> Requests \cup {None}]  BY DEF TypeInv, TypeOK, Goto
  <1>2. PricesHeld'
    BY NoneIsNoRequest DEF TypeInv, TypeOK, PricesHeld, At, Goto
  <1> QED  BY <1>1, <1>2 DEF TypeInv, TypeOK, chain, clock

(* Every step keeps the types.                                             *)
LEMMA TypeStep == TypeInv /\ [Next]_vars => TypeInv'
  <1> SUFFICES ASSUME TypeInv, [Next]_vars PROVE TypeInv'  OBVIOUS
  <1> USE RfqConstants
  <1>0. TypeOK  BY DEF TypeInv
  <1>1. ASSUME NEW w \in Workers, NEW u \in Users, NEW side \in Asked,
               QuoteReadPool(w, u, side)
        PROVE  TypeInv'
    <2> DEFINE r == [op |-> "quote", at |-> "slot", user |-> u, side |-> side,
                     pool |-> pool]
    <2>1. r \in Requests  BY <1>0 DEF Requests, TypeOK
    <2>2. r.at # "vault"  OBVIOUS
    <2>3. Goto(w, r) /\ UNCHANGED <<chain, store, issued, released, given, faults>>
      BY <1>1 DEF QuoteReadPool
    <2> HIDE DEF r
    <2> QED  BY <1>0, <2>1, <2>2, <2>3, ServiceStep DEF TypeOK
  <1>2. ASSUME NEW w \in Workers, QuoteReadSlot(w) PROVE TypeInv'
    <2>1. PICK s \in SlotReads :
            Goto(w, IF \/ ComputeFreshness(req[w].pool.updated, req[w].pool.ttl, s)
                       \/ QuotePrice(req[w].pool.fair, SpreadBps, req[w].side) = 0
                    THEN None
                    ELSE [op |-> "quote", at |-> "vault", user |-> req[w].user,
                          side |-> req[w].side, pool |-> req[w].pool, current |-> s])
      BY <1>2 DEF QuoteReadSlot
    <2> DEFINE r == [op |-> "quote", at |-> "vault", user |-> req[w].user,
                     side |-> req[w].side, pool |-> req[w].pool, current |-> s]
    <2>2. req[w] \in [op : {"quote"}, at : {"slot"}, user : Users, side : Asked,
                      pool : Pools]
      BY <1>0, <1>2, RequestTypes DEF QuoteReadSlot, At
    <2>3. s \in Nat  BY <1>0 DEF SlotReads, TypeOK
    <2>4. r \in Requests  BY <2>2, <2>3 DEF Requests
    <2>5. r.pool = req[w].pool /\ r.side = req[w].side  OBVIOUS
    <2>6. UNCHANGED <<chain, store, issued, released, given, faults>>
      BY <1>2 DEF QuoteReadSlot
    <2>7. CASE Goto(w, None)  BY <1>0, <2>6, <2>7, ServiceStep DEF TypeOK
    <2>8. CASE /\ QuotePrice(req[w].pool.fair, SpreadBps, req[w].side) # 0
               /\ Goto(w, r)
      <3> HIDE DEF r
      <3> QED  BY <1>0, <2>4, <2>5, <2>6, <2>8, ServiceStep DEF TypeOK
    <2> QED  BY <2>1, <2>7, <2>8
  <1>3. ASSUME NEW w \in Workers, QuoteReadVaults(w) PROVE TypeInv'
    <2>1. /\ Goto(w, None)
          /\ UNCHANGED <<chain, released, given, faults>>
      BY <1>3 DEF QuoteReadVaults
    <2>2. CASE UNCHANGED <<store, issued>>
      BY <1>0, <2>1, <2>2, ServiceStep DEF TypeOK
    <2>3. CASE \E n \in Nonces \ issued :
                  /\ store' = CacheSet(store, PendingQuote(req[w], n), Cardinality(issued))
                  /\ issued' = issued \cup {n}
      <3>1. PICK n \in Nonces \ issued :
                  /\ store' = CacheSet(store, PendingQuote(req[w], n), Cardinality(issued))
                  /\ issued' = issued \cup {n}
        BY <2>3
      <3>2. req[w] \in [op : {"quote"}, at : {"vault"}, user : Users, side : Asked,
                        pool : Pools, current : Nat]
        BY <1>0, <1>3, RequestTypes DEF QuoteReadVaults, At
      <3>3. PendingQuote(req[w], n) \in PendingQuotes
        BY <1>3, <3>2, PendingQuoteType DEF QuoteReadVaults, TypeInv, PricesHeld
      <3>4. Cardinality(issued) \in Nat  BY FS_CardinalityType DEF TypeInv
      <3>5. store' \subseteq [quote : PendingQuotes, age : Nat, order : Nat]
        BY <1>0, <3>1, <3>3, <3>4, CacheSetIn DEF TypeOK
      <3>6. IsFiniteSet(issued')  BY <3>1, FS_AddElement DEF TypeInv
      <3>7. req' \in [Workers -> Requests \cup {None}]  BY <1>0, <2>1 DEF TypeOK, Goto
      <3>8. PricesHeld'  BY <1>0, <2>1 DEF TypeInv, TypeOK, PricesHeld, At, Goto
      <3> QED  BY <1>0, <2>1, <3>1, <3>5, <3>6, <3>7, <3>8 DEF TypeInv, TypeOK, chain, clock
    <2> QED  BY <1>3, <2>2, <2>3 DEF QuoteReadVaults
  <1>4. ASSUME NEW w \in Workers, NEW e \in store, NEW u \in Users, SwapLookup(w, e, u)
        PROVE  TypeInv'
    <2> DEFINE r == [op |-> "swap", at |-> "pool", quote |-> e.quote]
    <2>1. UNCHANGED <<chain, issued, released, given, faults>>  BY <1>4 DEF SwapLookup
    <2>2. e.quote \in PendingQuotes  BY <1>0 DEF TypeOK
    <2>3. r \in Requests /\ r.op = "swap"  BY <2>2 DEF Requests
    <2>4. CASE store' = Without(store, e.quote.nonce) /\ UNCHANGED req
      <3>1. store' \subseteq [quote : PendingQuotes, age : Nat, order : Nat]
        BY <1>0, <2>4 DEF TypeOK, Without
      <3> QED  BY <1>0, <2>1, <2>4, <3>1 DEF TypeInv, TypeOK, PricesHeld, At, chain, clock
    <2>5. CASE Goto(w, r) /\ UNCHANGED store
      <3> HIDE DEF r
      <3> QED  BY <1>0, <2>1, <2>3, <2>5, ServiceStep DEF TypeOK
    <2> QED  BY <1>4, <2>4, <2>5 DEF SwapLookup
  <1>5. ASSUME NEW w \in Workers, SwapReadPool(w) PROVE TypeInv'
    <2> DEFINE r == [op |-> "swap", at |-> "slot", quote |-> req[w].quote, pool |-> pool]
    <2>1. req[w].quote \in PendingQuotes
      BY <1>0, <1>5, RequestTypes DEF SwapReadPool, At
    <2>2. r \in Requests /\ r.op = "swap"  BY <1>0, <2>1 DEF Requests, TypeOK
    <2>3. UNCHANGED <<chain, store, issued, released, given, faults>>
      BY <1>5 DEF SwapReadPool
    <2>4. Goto(w, None) \/ Goto(w, r)  BY <1>5 DEF SwapReadPool
    <2> HIDE DEF r
    <2> QED  BY <1>0, <2>2, <2>3, <2>4, ServiceStep DEF TypeOK
  <1>6. ASSUME NEW w \in Workers, SwapReadSlot(w) PROVE TypeInv'
    <2> DEFINE r == [op |-> "swap", at |-> "vault", quote |-> req[w].quote]
    <2>1. req[w].quote \in PendingQuotes
      BY <1>0, <1>6, RequestTypes DEF SwapReadSlot, At
    <2>2. r \in Requests /\ r.op = "swap"  BY <2>1 DEF Requests
    <2>3. UNCHANGED <<chain, store, issued, released, given, faults>>
      BY <1>6 DEF SwapReadSlot
    <2>4. Goto(w, None) \/ Goto(w, r)  BY <1>6 DEF SwapReadSlot
    <2> HIDE DEF r
    <2> QED  BY <1>0, <2>2, <2>3, <2>4, ServiceStep DEF TypeOK
  <1>7. ASSUME NEW w \in Workers, SwapSign(w) PROVE TypeInv'
    <2> DEFINE r == [op |-> "swap", at |-> "blockhash", quote |-> req[w].quote,
                     nonce |-> req[w].quote.nonce]
    <2>1. req[w].quote \in PendingQuotes
      BY <1>0, <1>7, RequestTypes DEF SwapSign, At
    <2>2. req[w].quote.nonce \in Nonces  BY <2>1 DEF PendingQuotes
    <2>3. r \in Requests /\ r.op = "swap"  BY <2>1, <2>2 DEF Requests
    <2>4. UNCHANGED <<chain, store, issued, released, given, faults>>
      BY <1>7 DEF SwapSign
    <2>5. Goto(w, None) \/ Goto(w, r)  BY <1>7 DEF SwapSign
    <2> HIDE DEF r
    <2> QED  BY <1>0, <2>3, <2>4, <2>5, ServiceStep DEF TypeOK
  <1>8. ASSUME NEW w \in Workers, SwapAnswer(w) PROVE TypeInv'
    <2>1. req[w] \in [op : {"swap"}, at : {"blockhash"}, quote : PendingQuotes,
                      nonce : Nonces]
      BY <1>0, <1>8, RequestTypes DEF SwapAnswer, At
    <2>2. store' \subseteq store /\ UNCHANGED <<chain, issued, faults>> /\ Goto(w, None)
      BY <1>8 DEF SwapAnswer, Without
    <2>3. released' \subseteq [quote : PendingQuotes, nonce : Nonces]
      BY <1>0, <1>8, <2>1 DEF SwapAnswer, TypeOK
    <2>4. req[w].quote.nonce \in Nonces  BY <2>1 DEF PendingQuotes
    <2>5. given' \in [Nonces -> Nat]
      BY <1>0, <1>8, <2>4 DEF SwapAnswer, TypeOK
    <2>6. req' \in [Workers -> Requests \cup {None}]  BY <1>0, <2>2 DEF TypeOK, Goto
    <2>7. PricesHeld'  BY <1>0, <2>2 DEF TypeInv, TypeOK, PricesHeld, At, Goto
    <2> QED  BY <1>0, <2>2, <2>3, <2>5, <2>6, <2>7 DEF TypeInv, TypeOK, chain, clock
  <1>9. ASSUME NEW w \in Workers, RequestFails(w) PROVE TypeInv'
    <2>1. Goto(w, None) /\ UNCHANGED <<chain, store, issued, released, given>>
          /\ faults' \in Nat
      BY <1>0, <1>9 DEF RequestFails, TypeOK
    <2> QED  BY <1>0, <2>1, ServiceStep DEF TypeOK
  <1>10. CASE SweepExpired
    BY <1>0, <1>10 DEF SweepExpired, TypeInv, TypeOK, PricesHeld, At, chain, clock
  <1>11. CASE CacheAges
    <2>1. ASSUME NEW e \in store
          PROVE  [e EXCEPT !.age = IF Expired(e) THEN @ ELSE @ + 1]
                   \in [quote : PendingQuotes, age : Nat, order : Nat]
      <3>1. \A a \in Nat : [e EXCEPT !.age = a]
                             \in [quote : PendingQuotes, age : Nat, order : Nat]
        BY <1>0 DEF TypeOK
      <3>2. (IF Expired(e) THEN e.age ELSE e.age + 1) \in Nat  BY <1>0 DEF TypeOK
      <3> QED  BY <3>1, <3>2, Zenon
    <2>2. store' \subseteq [quote : PendingQuotes, age : Nat, order : Nat]
      BY <1>11, <2>1, Zenon DEF CacheAges
    <2> QED  BY <1>0, <1>11, <2>2 DEF CacheAges, TypeInv, TypeOK, PricesHeld, At, chain, clock
  <1>12. CASE ApiRestarts
    BY <1>0, <1>12 DEF ApiRestarts, TypeInv, TypeOK, PricesHeld, At, chain, clock
  <1>13. ASSUME NEW x \in released, Submit(x) PROVE TypeInv'
    BY <1>0, <1>13 DEF Submit, TypeInv, TypeOK, PricesHeld, At, service, clock
  <1>14. CASE UpdateOracle
    <2>1. PICK fair \in FairValues, ttl \in Ttls :
            /\ pool' = [pool EXCEPT !.fair = fair, !.ttl = ttl, !.updated = slot]
            /\ seen' = [seen EXCEPT ![slot] = @ \cup {fair}]
      BY <1>14 DEF UpdateOracle
    <2>2. pool' = [fair |-> fair, updated |-> slot, ttl |-> ttl, paused |-> pool.paused]
      BY <1>0, <2>1 DEF TypeOK, Pools
    <2>3. pool' \in Pools /\ pool'.updated \in 0 .. MaxSlot
      BY <1>0, <2>2 DEF TypeOK, Pools
    <2>4. seen' \in [0 .. MaxSlot -> SUBSET FairValues]  BY <1>0, <2>1 DEF TypeOK
    <2> QED
      BY <1>0, <1>14, <2>3, <2>4
      DEF UpdateOracle, TypeInv, TypeOK, PricesHeld, At, service, clock
  <1>15. CASE SetPaused
    <2>1. pool' \in Pools /\ pool'.updated \in 0 .. MaxSlot
      BY <1>0, <1>15 DEF SetPaused, TypeOK, Pools
    <2> QED  BY <1>0, <1>15, <2>1 DEF SetPaused, TypeInv, TypeOK, PricesHeld, At, service, clock
  <1>16. CASE InventoryMoves
    BY <1>0, <1>16 DEF InventoryMoves, TypeInv, TypeOK, PricesHeld, At, service, clock
  <1>17. CASE Tick
    <2>1. pool.fair \in FairValues  BY <1>0 DEF TypeOK, Pools
    <2> QED  BY <1>0, <1>17, <2>1 DEF Tick, TypeInv, TypeOK, PricesHeld, At, service
  <1>18. CASE ForkRollback
    <2>1. pool.fair \in FairValues  BY <1>0 DEF TypeOK, Pools
    <2>2. PICK s \in 0 .. slot :
            slot' = s /\ seen' = [seen EXCEPT ![s] = @ \cup {pool.fair}]
      BY <1>18 DEF ForkRollback
    <2>3. slot' \in 0 .. MaxSlot /\ seen' \in [0 .. MaxSlot -> SUBSET FairValues]
      BY <1>0, <2>1, <2>2 DEF TypeOK
    <2> QED
      BY <1>0, <1>18, <2>3 DEF ForkRollback, TypeInv, TypeOK, PricesHeld, At, service
  <1>19. CASE UNCHANGED vars
    BY <1>0, <1>19 DEF TypeInv, TypeOK, PricesHeld, At, vars
  <1> QED
    BY <1>1, <1>2, <1>3, <1>4, <1>5, <1>6, <1>7, <1>8, <1>9, <1>10, <1>11, <1>12,
       <1>13, <1>14, <1>15, <1>16, <1>17, <1>18, <1>19
    DEF Next

(* The first state has the types.                                          *)
LEMMA InitTypes == Init => TypeInv
  <1> SUFFICES ASSUME Init PROVE TypeInv  OBVIOUS
  <1>1. pool \in [fair : FairValues, updated : {0}, ttl : Ttls, paused : {FALSE}]
    BY DEF Init
  <1>2. pool \in Pools /\ pool.updated \in 0 .. MaxSlot
    <2>1. /\ pool = [fair |-> pool.fair, updated |-> 0, ttl |-> pool.ttl, paused |-> FALSE]
          /\ pool.fair \in FairValues /\ pool.ttl \in Ttls
      BY <1>1
    <2>2. 0 \in Nat /\ 0 \in 0 .. MaxSlot /\ FALSE \in BOOLEAN  BY RfqConstants
    <2>3. \A f \in FairValues, t \in Ttls :
            [fair |-> f, updated |-> 0, ttl |-> t, paused |-> FALSE] \in Pools
      BY <2>2 DEF Pools
    <2>4. pool.updated = 0  BY <1>1
    <2> QED  BY <2>1, <2>2, <2>3, <2>4, Zenon
  <1>3. seen \in [0 .. MaxSlot -> SUBSET FairValues]  BY <1>1 DEF Init
  <1>4. /\ req \in [Workers -> Requests \cup {None}]
        /\ given \in [Nonces -> Nat]
        /\ slot \in 0 .. MaxSlot
    BY RfqConstants DEF Init
  <1>5. TypeOK  BY <1>2, <1>3, <1>4 DEF Init, TypeOK
  <1> QED  BY <1>5, FS_EmptySet DEF Init, TypeInv, PricesHeld, At

(* The pool, the cache, the requests and the histories stay in their       *)
(* types, and no pending quote has a price of zero.                        *)
THEOREM RfqTypeCorrect == Spec => []TypeOK
  <1>1. TypeInv => TypeOK  BY DEF TypeInv
  <1> QED  BY <1>1, InitTypes, TypeStep, PTL DEF Spec

----------------------------------------------------------------------------
(* Where quotes come from. *)

(* No step makes up a quote: each one held after it was held before, or    *)
(* has just been drawn by /quote, under a nonce never drawn before.        *)
Drawn(q) ==
    \E w \in Workers, n \in Nonces \ issued :
        /\ At(w, "quote", "vault")
        /\ q = PendingQuote(req[w], n)
        /\ issued' = issued \cup {n}

(* The quotes of the cache and of the signed ones, as sets.                *)
Held == {e.quote : e \in store} \cup {x.quote : x \in released}

(* A request that moves on keeps its quote or takes one that is held.      *)
LEMMA GotoQuotes ==
    ASSUME TypeOK, NEW w \in Workers, NEW r, Goto(w, r),
           r # None /\ r.op = "swap" => r.quote \in Quotes,
           \A q \in Held' : q \in Quotes \/ Drawn(q)
    PROVE  \A q \in Quotes' : q \in Quotes \/ Drawn(q)
  <1>1. ASSUME NEW q \in Quotes', q \notin Held' PROVE q \in Quotes
    <2>1. PICK v \in Workers : req'[v] # None /\ req'[v].op = "swap" /\ q = req'[v].quote
      BY <1>1 DEF Quotes, Held
    <2>2. CASE v = w  BY <2>1, <2>2 DEF Goto, TypeOK
    <2>3. CASE v # w  BY <2>1, <2>3 DEF Goto, TypeOK, Quotes
    <2> QED  BY <2>2, <2>3
  <1> QED  BY <1>1

(* No step makes up a quote, changes one or brings one back.               *)
LEMMA QuotesStep ==
    ASSUME TypeOK, [Next]_vars
    PROVE  \A q \in Quotes' : q \in Quotes \/ Drawn(q)
  <1>0. ASSUME UNCHANGED <<store, released>>
        PROVE  \A q \in Held' : q \in Quotes \/ Drawn(q)
    BY <1>0 DEF Held, Quotes
  <1>1. ASSUME NEW w \in Workers, NEW u \in Users, NEW side \in Asked,
               QuoteReadPool(w, u, side)
        PROVE  \A q \in Quotes' : q \in Quotes \/ Drawn(q)
    <2> DEFINE r == [op |-> "quote", at |-> "slot", user |-> u, side |-> side,
                     pool |-> pool]
    <2>1. Goto(w, r) /\ UNCHANGED <<store, released>> /\ r.op # "swap"
      BY <1>1 DEF QuoteReadPool
    <2> HIDE DEF r
    <2> QED  BY <1>0, <2>1, GotoQuotes
  <1>2. ASSUME NEW w \in Workers, QuoteReadSlot(w)
        PROVE  \A q \in Quotes' : q \in Quotes \/ Drawn(q)
    <2>1. PICK s : \/ Goto(w, None)
                   \/ Goto(w, [op |-> "quote", at |-> "vault", user |-> req[w].user,
                               side |-> req[w].side, pool |-> req[w].pool, current |-> s])
      BY <1>2 DEF QuoteReadSlot
    <2> DEFINE r == [op |-> "quote", at |-> "vault", user |-> req[w].user,
                     side |-> req[w].side, pool |-> req[w].pool, current |-> s]
    <2>2. UNCHANGED <<store, released>> /\ r.op # "swap"  BY <1>2 DEF QuoteReadSlot
    <2>3. Goto(w, None) \/ Goto(w, r)  BY <2>1
    <2> HIDE DEF r
    <2> QED  BY <1>0, <2>2, <2>3, GotoQuotes
  <1>3. ASSUME NEW w \in Workers, QuoteReadVaults(w)
        PROVE  \A q \in Quotes' : q \in Quotes \/ Drawn(q)
    <2>1. Goto(w, None) /\ UNCHANGED released /\ At(w, "quote", "vault")
      BY <1>3 DEF QuoteReadVaults
    <2>2. ASSUME NEW q \in Held' PROVE q \in Quotes \/ Drawn(q)
      <3>1. CASE UNCHANGED store  BY <1>0, <2>1, <2>2, <3>1
      <3>2. CASE \E n \in Nonces \ issued :
                    /\ store' = CacheSet(store, PendingQuote(req[w], n), Cardinality(issued))
                    /\ issued' = issued \cup {n}
        <4>1. PICK n \in Nonces \ issued :
                    /\ store' = CacheSet(store, PendingQuote(req[w], n), Cardinality(issued))
                    /\ issued' = issued \cup {n}
          BY <3>2
        <4>2. store' \subseteq store \cup {[quote |-> PendingQuote(req[w], n), age |-> 0,
                                            order |-> Cardinality(issued)]}
          BY <4>1, CacheSetIn
        <4>3. q \in Quotes \/ q = PendingQuote(req[w], n)
          BY <2>1, <2>2, <4>2 DEF Held, Quotes
        <4> QED  BY <2>1, <4>1, <4>3 DEF Drawn
      <3> QED  BY <1>3, <3>1, <3>2 DEF QuoteReadVaults
    <2> QED  BY <2>1, <2>2, GotoQuotes
  <1>4. ASSUME NEW w \in Workers, NEW e \in store, NEW u \in Users, SwapLookup(w, e, u)
        PROVE  \A q \in Quotes' : q \in Quotes \/ Drawn(q)
    <2> DEFINE r == [op |-> "swap", at |-> "pool", quote |-> e.quote]
    <2>1. r.quote \in Quotes  BY DEF Quotes
    <2>2. store' \subseteq store /\ UNCHANGED released
      BY <1>4 DEF SwapLookup, Without
    <2>3. \A q \in Held' : q \in Quotes  BY <2>2 DEF Held, Quotes
    <2>4. UNCHANGED req \/ Goto(w, r)  BY <1>4 DEF SwapLookup
    <2>5. CASE UNCHANGED req  BY <2>3, <2>5 DEF Quotes, Held
    <2>6. CASE Goto(w, r)
      <3> HIDE DEF r
      <3> QED  BY <2>1, <2>3, <2>6, GotoQuotes
    <2> QED  BY <2>4, <2>5, <2>6
  <1>5. ASSUME NEW w \in Workers, SwapReadPool(w) \/ SwapReadSlot(w) \/ SwapSign(w)
        PROVE  \A q \in Quotes' : q \in Quotes \/ Drawn(q)
    <2>1. /\ req[w] # None /\ req[w].op = "swap" /\ UNCHANGED <<store, released>>
      BY <1>5 DEF SwapReadPool, SwapReadSlot, SwapSign, At
    <2>2. req[w].quote \in Quotes  BY <2>1 DEF Quotes
    <2>3. PICK r : Goto(w, r) /\ (r # None => r.quote = req[w].quote)
      BY <1>5 DEF SwapReadPool, SwapReadSlot, SwapSign
    <2> QED  BY <1>0, <2>1, <2>2, <2>3, GotoQuotes
  <1>6. ASSUME NEW w \in Workers, SwapAnswer(w)
        PROVE  \A q \in Quotes' : q \in Quotes \/ Drawn(q)
    <2>1. req[w].quote \in Quotes  BY <1>6 DEF SwapAnswer, At, Quotes
    <2>2. \A q \in Held' : q \in Quotes
      BY <1>6, <2>1 DEF SwapAnswer, Held, Quotes, Without
    <2>3. Goto(w, None)  BY <1>6 DEF SwapAnswer
    <2> QED  BY <2>2, <2>3, GotoQuotes
  <1>7. ASSUME NEW w \in Workers, RequestFails(w)
        PROVE  \A q \in Quotes' : q \in Quotes \/ Drawn(q)
    <2>1. Goto(w, None) /\ UNCHANGED <<store, released>>  BY <1>7 DEF RequestFails
    <2> QED  BY <1>0, <2>1, GotoQuotes
  <1>8. CASE SweepExpired
    BY <1>8 DEF SweepExpired, chain, clock, Quotes
  <1>9. CASE CacheAges
    <2>1. \A e \in store' : \E f \in store : e.quote = f.quote
      <3>1. ASSUME NEW f \in store
            PROVE  [f EXCEPT !.age = IF Expired(f) THEN @ ELSE @ + 1].quote = f.quote
        BY DEF TypeOK
      <3> QED  BY <1>9, <3>1, Zenon DEF CacheAges
    <2> QED  BY <1>9, <2>1 DEF CacheAges, chain, clock, Quotes
  <1>10. CASE ApiRestarts
    BY <1>10 DEF ApiRestarts, chain, clock, Quotes
  <1>11. CASE UNCHANGED <<store, released, req>>
    BY <1>11 DEF Quotes
  <1>12. ASSUME \/ \E x \in released : Submit(x)
                \/ UpdateOracle \/ SetPaused \/ InventoryMoves \/ Tick \/ ForkRollback
                \/ UNCHANGED vars
         PROVE  UNCHANGED <<store, released, req>>
    BY <1>12
    DEF Submit, UpdateOracle, SetPaused, InventoryMoves, Tick, ForkRollback, vars, service
  <1> QED
    BY <1>1, <1>2, <1>3, <1>4, <1>5, <1>6, <1>7, <1>8, <1>9, <1>10, <1>11, <1>12
    DEF Next

----------------------------------------------------------------------------
(* Prices of held quotes. *)

Priced(q) ==
    /\ q.side \in Sides /\ q.inAmount \in Nat /\ q.fairValueAtQuote \in Nat \ {0}
    /\ q.price = QuotePrice(q.fairValueAtQuote, SpreadBps, q.side)
    /\ q.outAmount = QuoteOut(q.side, q.inAmount, q.price)

QuoteInv == \A q \in Quotes : q.nonce \in issued /\ Priced(q)

(* Nonces are drawn and never given back.                                  *)
LEMMA IssuedGrows == [Next]_vars => issued \subseteq issued'
  BY DEF Next, vars, chain, clock, service, QuoteReadPool, QuoteReadSlot, QuoteReadVaults,
         SwapLookup, SwapReadPool, SwapReadSlot, SwapSign, SwapAnswer, RequestFails,
         SweepExpired, CacheAges, ApiRestarts, Submit, UpdateOracle, SetPaused,
         InventoryMoves, Tick, ForkRollback

(* A quote drawn by this step is priced.                                   *)
LEMMA DrawnIsPriced ==
    ASSUME TypeOK, NEW q, Drawn(q)
    PROVE  /\ q.nonce \in issued' \ issued
           /\ Priced(q)
  <1>1. PICK w \in Workers, n \in Nonces \ issued :
          /\ At(w, "quote", "vault")
          /\ q = PendingQuote(req[w], n)
          /\ issued' = issued \cup {n}
    BY DEF Drawn
  <1>2. req[w] \in [op : {"quote"}, at : {"vault"}, user : Users, side : Asked,
                    pool : Pools, current : Nat]
    BY <1>1, RequestTypes DEF At
  <1>3. q.nonce = n  BY <1>1 DEF PendingQuote
  <1>4. /\ q.side = req[w].side /\ q.inAmount = Inputs[req[w].side]
        /\ q.fairValueAtQuote = req[w].pool.fair
        /\ q.price = QuotePrice(req[w].pool.fair, SpreadBps, req[w].side)
        /\ q.outAmount = QuoteOut(q.side, q.inAmount, q.price)
    BY <1>1 DEF PendingQuote
  <1>5. /\ req[w].side \in Sides /\ Inputs[req[w].side] \in Nat
        /\ req[w].pool.fair \in Nat \ {0}
    BY <1>2, RfqConstants DEF Pools, Asked
  <1> QED  BY <1>1, <1>3, <1>4, <1>5 DEF Priced

(* Every step keeps the prices of the quotes that are held.                *)
LEMMA QuoteStep == TypeInv /\ QuoteInv /\ [Next]_vars => QuoteInv'
  <1> SUFFICES ASSUME TypeOK, QuoteInv, [Next]_vars, NEW q \in Quotes'
               PROVE  q.nonce \in issued' /\ Priced(q)
    BY DEF QuoteInv, TypeInv
  <1>1. CASE q \in Quotes  BY <1>1, IssuedGrows DEF QuoteInv
  <1>2. CASE Drawn(q)  BY <1>2, DrawnIsPriced
  <1> QED  BY <1>1, <1>2, QuotesStep

(* The process starts with an empty cache and nothing in progress.         *)
LEMMA NoQuotesAtFirst == Init => Quotes = {}
  BY DEF Init, Quotes

(* What is previewed is what the program pays, at the flat curve's price,  *)
(* for every quote in the cache, in progress or handed out.                *)
THEOREM QuotesMatchProgram == Spec => [](PreviewIsExact /\ PricedAsFlatCurve)
  <1>1. Init => QuoteInv  BY NoQuotesAtFirst DEF QuoteInv
  <1>2. QuoteInv => PreviewIsExact /\ PricedAsFlatCurve
    <2> SUFFICES ASSUME QuoteInv, NEW q \in Quotes
                 PROVE  /\ OutputAmount(q.side, q.inAmount, q.price) = q.outAmount
                        /\ q.price = Evaluate(FlatParams(q.fairValueAtQuote, SpreadBps),
                                              q.side, q.inAmount, 0, 0)
      BY DEF PreviewIsExact, PricedAsFlatCurve
    <2>1. Priced(q)  BY DEF QuoteInv
    <2>2. OutputAmount(q.side, q.inAmount, q.price) = q.outAmount
      BY <2>1, PreviewFacts DEF Priced
    <2>3. QuotePrice(q.fairValueAtQuote, SpreadBps, q.side)
            = Evaluate(FlatParams(q.fairValueAtQuote, SpreadBps), q.side, q.inAmount, 0, 0)
      BY <2>1, QuotePriceIsFlatCurve, RfqConstants DEF Priced
    <2> QED  BY <2>1, <2>2, <2>3 DEF Priced
  <1> QED  BY <1>1, <1>2, InitTypes, TypeStep, QuoteStep, PTL DEF Spec

----------------------------------------------------------------------------
(* Which step changes what. *)

(* A request that moves on has done one of these.                          *)
LEMMA RequestStep ==
    ASSUME TypeOK, [Next]_vars, NEW v \in Workers, req'[v] # req[v], req'[v] # None
    PROVE  \/ \E u \in Users, side \in Asked : QuoteReadPool(v, u, side)
           \/ QuoteReadSlot(v)
           \/ \E e \in store, u \in Users : SwapLookup(v, e, u)
           \/ SwapReadPool(v) \/ SwapReadSlot(v) \/ SwapSign(v)
  <1>1. ASSUME NEW w \in Workers, NEW r, Goto(w, r)
        PROVE  \A x \in Workers \ {w} : req'[x] = req[x]
    BY <1>1 DEF TypeOK, Goto
  <1>2. ASSUME NEW w \in Workers, Goto(w, None) PROVE FALSE
    BY <1>2 DEF TypeOK, Goto
  <1>3. ASSUME NEW w \in Workers,
               \/ \E u \in Users, side \in Asked : QuoteReadPool(w, u, side)
               \/ QuoteReadSlot(w)
               \/ \E e \in store, u \in Users : SwapLookup(w, e, u)
               \/ SwapReadPool(w) \/ SwapReadSlot(w) \/ SwapSign(w)
        PROVE  w = v
    <2>1. (\E r : Goto(w, r)) \/ UNCHANGED req
      BY <1>3 DEF QuoteReadPool, QuoteReadSlot, SwapLookup, SwapReadPool, SwapReadSlot,
                 SwapSign
    <2> QED  BY <1>1, <2>1
  <1>4. ASSUME NEW w \in Workers, QuoteReadVaults(w) \/ SwapAnswer(w) \/ RequestFails(w)
        PROVE  FALSE
    BY <1>2, <1>4 DEF QuoteReadVaults, SwapAnswer, RequestFails
  <1>5. CASE ApiRestarts  BY <1>5 DEF ApiRestarts
  <1>6. ASSUME \/ SweepExpired \/ CacheAges
               \/ \E x \in released : Submit(x)
               \/ UpdateOracle \/ SetPaused \/ InventoryMoves \/ Tick \/ ForkRollback
               \/ UNCHANGED vars
        PROVE  FALSE
    BY <1>6
    DEF SweepExpired, CacheAges, Submit, UpdateOracle, SetPaused, InventoryMoves, Tick,
        ForkRollback, vars, service
  <1> QED  BY <1>3, <1>4, <1>5, <1>6 DEF Next

(* Only /swap hands out a quote, the one it has signed.                    *)
LEMMA ReleasedStep ==
    ASSUME [Next]_vars
    PROVE  \/ UNCHANGED <<released, given>>
           \/ \E w \in Workers : SwapAnswer(w)
  BY DEF Next, vars, chain, clock, service, QuoteReadPool, QuoteReadSlot, QuoteReadVaults,
         SwapLookup, SwapReadPool, SwapReadSlot, SwapSign, RequestFails,
         SweepExpired, CacheAges, ApiRestarts, Submit, UpdateOracle, SetPaused,
         InventoryMoves, Tick, ForkRollback

(* Only execute_swap spends a nonce, and it fills a quote with it.         *)
LEMMA FillsStep ==
    ASSUME [Next]_vars
    PROVE  \/ UNCHANGED <<fills, markers>>
           \/ \E x \in released : Submit(x)
  BY DEF Next, vars, chain, clock, service, QuoteReadPool, QuoteReadSlot, QuoteReadVaults,
         SwapLookup, SwapReadPool, SwapReadSlot, SwapSign, SwapAnswer, RequestFails,
         SweepExpired, CacheAges, ApiRestarts, UpdateOracle, SetPaused,
         InventoryMoves, Tick, ForkRollback

----------------------------------------------------------------------------
(* One fill per quote. *)

(* Every signature of a quote is over the nonce drawn for it, and a fill   *)
(* has spent its own.                                                      *)
SignedUnderOwnNonce ==
    /\ \A w \in Workers : At(w, "swap", "blockhash") => req[w].nonce = req[w].quote.nonce
    /\ \A x \in released : x.nonce = x.quote.nonce

FillsSpendNonces ==
    \A f \in fills : f.nonce = f.quote.nonce /\ f.nonce \in markers

NonceInv == SignedUnderOwnNonce /\ FillsSpendNonces /\ FilledOnce

(* Every step keeps nonces and fills one to one.                           *)
LEMMA NonceStep == TypeInv /\ NonceInv /\ [Next]_vars => NonceInv'
  <1> SUFFICES ASSUME TypeOK, NonceInv, [Next]_vars PROVE NonceInv'
    BY DEF TypeInv
  <1>1. ASSUME NEW v \in Workers, At(v, "swap", "blockhash")'
        PROVE  req'[v].nonce = req'[v].quote.nonce
    <2>1. CASE req'[v] = req[v]
      BY <1>1, <2>1 DEF NonceInv, SignedUnderOwnNonce, At
    <2>2. CASE req'[v] # req[v]
      <3>1. req'[v] # None /\ req'[v].op = "swap" /\ req'[v].at = "blockhash"
        BY <1>1 DEF At
      <3>2. ASSUME \/ \E u \in Users, side \in Asked : QuoteReadPool(v, u, side)
                   \/ QuoteReadSlot(v)
                   \/ \E e \in store, u \in Users : SwapLookup(v, e, u)
                   \/ SwapReadPool(v) \/ SwapReadSlot(v)
            PROVE  FALSE
        BY <2>2, <3>1, <3>2
        DEF QuoteReadPool, QuoteReadSlot, SwapLookup, SwapReadPool, SwapReadSlot, Goto,
            TypeOK
      <3>3. SwapSign(v)  BY <2>2, <3>1, <3>2, RequestStep
      <3>4. \/ req'[v] = None
            \/ req'[v] = [op |-> "swap", at |-> "blockhash", quote |-> req[v].quote,
                          nonce |-> req[v].quote.nonce]
        BY <3>3 DEF SwapSign, Goto, TypeOK
      <3> QED  BY <3>1, <3>4
    <2> QED  BY <2>1, <2>2
  <1>2. ASSUME NEW x \in released' PROVE x.nonce = x.quote.nonce
    <2>1. CASE x \in released  BY <2>1 DEF NonceInv, SignedUnderOwnNonce
    <2>2. CASE x \notin released
      <3>1. PICK w \in Workers : SwapAnswer(w)  BY <1>2, <2>2, ReleasedStep
      <3>2. x = [quote |-> req[w].quote, nonce |-> req[w].nonce]
        BY <1>2, <2>2, <3>1 DEF SwapAnswer
      <3>3. req[w].nonce = req[w].quote.nonce
        BY <3>1 DEF SwapAnswer, NonceInv, SignedUnderOwnNonce
      <3> QED  BY <3>2, <3>3
    <2> QED  BY <2>1, <2>2
  <1>3. FillsSpendNonces' /\ FilledOnce'
    <2>1. CASE UNCHANGED <<fills, markers>>
      BY <2>1 DEF NonceInv, FillsSpendNonces, FilledOnce
    <2>2. ASSUME NEW x \in released, Submit(x) PROVE FillsSpendNonces' /\ FilledOnce'
      <3> DEFINE new == [quote |-> x.quote, nonce |-> x.nonce, at |-> slot]
      <3>1. /\ x.nonce \notin markers
            /\ markers' = markers \cup {x.nonce}
            /\ fills' = fills \cup {new}
        BY <2>2 DEF Submit
      <3>2. x.nonce = x.quote.nonce  BY DEF NonceInv, SignedUnderOwnNonce
      <3>3. new.nonce = x.nonce /\ new.quote = x.quote  OBVIOUS
      <3>4. \A f \in fills : f.nonce = f.quote.nonce /\ f.nonce \in markers
        BY DEF NonceInv, FillsSpendNonces
      <3>5. \A f, g \in fills : f.quote.nonce = g.quote.nonce => f = g
        BY DEF NonceInv, FilledOnce
      <3> HIDE DEF new
      <3>6. FillsSpendNonces'  BY <3>1, <3>2, <3>3, <3>4 DEF FillsSpendNonces
      <3>7. \A f \in fills : f.quote.nonce # new.quote.nonce
        BY <3>1, <3>2, <3>3, <3>4
      <3>8. FilledOnce'  BY <3>1, <3>5, <3>7 DEF FilledOnce
      <3> QED  BY <3>6, <3>8
    <2> QED  BY <2>1, <2>2, FillsStep
  <1> QED  BY <1>1, <1>2, <1>3 DEF NonceInv, SignedUnderOwnNonce

(* A quote fills at most once, however many concurrent requests signed it  *)
(* and however often it was handed out.                                    *)
THEOREM OneFillPerQuote == Spec => []FilledOnce
  <1>1. Init => NonceInv
    BY DEF Init, NonceInv, SignedUnderOwnNonce, FillsSpendNonces, FilledOnce, At
  <1>2. NonceInv => FilledOnce  BY DEF NonceInv
  <1> QED  BY <1>1, <1>2, InitTypes, TypeStep, NonceStep, PTL DEF Spec

----------------------------------------------------------------------------
(* Spent quotes. *)

(* What has been handed out was drawn, so /quote cannot draw it again.     *)
SpentInv ==
    /\ \A n \in Nonces : given[n] # 0 => n \in issued
    /\ SpentQuotesAreGone

(* Every step keeps what was handed out from the cache.                    *)
LEMMA SpentStep == TypeInv /\ QuoteInv /\ SpentInv /\ [Next]_vars => SpentInv'
  <1> SUFFICES ASSUME TypeOK, QuoteInv, SpentInv, [Next]_vars PROVE SpentInv'
    BY DEF TypeInv
  <1>0. issued \subseteq issued'  BY IssuedGrows
  <1>1. ASSUME UNCHANGED <<released, given>> PROVE SpentInv'
    <2>1. \A n \in Nonces : given'[n] # 0 => n \in issued'
      BY <1>0, <1>1 DEF SpentInv
    <2>2. ASSUME NEW e \in store' PROVE given'[e.quote.nonce] = 0
      <3>1. CASE \E f \in store : e.quote = f.quote
        BY <1>1, <3>1 DEF SpentInv, SpentQuotesAreGone
      <3>2. CASE e.quote \notin Quotes
        <4>1. e.quote \in Quotes'  BY <2>2 DEF Quotes
        <4>2. Drawn(e.quote)  BY <3>2, <4>1, QuotesStep
        <4>3. e.quote.nonce \in issued' \ issued  BY <4>2, DrawnIsPriced
        <4>4. e.quote.nonce \in Nonces  BY <4>2 DEF Drawn, PendingQuote
        <4> QED  BY <1>1, <4>3, <4>4 DEF SpentInv
      <3>3. (\E f \in store : e.quote = f.quote) \/ e.quote \notin Quotes
        <4>1. CASE \E w \in Workers : QuoteReadVaults(w)
          <5>1. PICK w \in Workers : QuoteReadVaults(w)  BY <4>1
          <5>2. CASE UNCHANGED store  BY <2>2, <5>2
          <5>3. CASE \E n \in Nonces \ issued :
                  store' = CacheSet(store, PendingQuote(req[w], n), Cardinality(issued))
            <6>1. PICK n \in Nonces \ issued :
                  store' = CacheSet(store, PendingQuote(req[w], n), Cardinality(issued))
              BY <5>3
            <6>2. e \in store \/ e.quote = PendingQuote(req[w], n)
              BY <2>2, <6>1, CacheSetIn
            <6>3. PendingQuote(req[w], n).nonce = n  BY DEF PendingQuote
            <6>4. \A q \in Quotes : q.nonce \in issued  BY DEF QuoteInv
            <6> QED  BY <6>1, <6>2, <6>3, <6>4
          <5> QED  BY <5>1, <5>2, <5>3 DEF QuoteReadVaults
        <4>2. CASE CacheAges
          <5>1. ASSUME NEW f \in store
                PROVE  [f EXCEPT !.age = IF Expired(f) THEN @ ELSE @ + 1].quote = f.quote
            BY DEF TypeOK
          <5> QED  BY <2>2, <4>2, <5>1, Zenon DEF CacheAges
        <4>3. CASE store' \subseteq store  BY <2>2, <4>3
        <4>4. \/ \E w \in Workers : QuoteReadVaults(w)
              \/ CacheAges
              \/ store' \subseteq store
          BY DEF Next, vars, chain, clock, service, Without, QuoteReadPool, QuoteReadSlot,
                 SwapLookup, SwapReadPool, SwapReadSlot, SwapSign, SwapAnswer,
                 RequestFails, SweepExpired, ApiRestarts, Submit, UpdateOracle,
                 SetPaused, InventoryMoves, Tick, ForkRollback
        <4> QED  BY <4>1, <4>2, <4>3, <4>4
      <3> QED  BY <3>1, <3>2, <3>3
    <2> QED  BY <2>1, <2>2 DEF SpentInv, SpentQuotesAreGone
  <1>2. ASSUME NEW w \in Workers, SwapAnswer(w) PROVE SpentInv'
    <2> DEFINE n == req[w].quote.nonce
    <2>1. /\ store' = Without(store, n)
          /\ given' = [given EXCEPT ![n] = @ + 1]
      BY <1>2 DEF SwapAnswer
    <2>2. n \in issued  BY <1>2 DEF SwapAnswer, At, QuoteInv, Quotes
    <2>3. \A m \in Nonces \ {n} : given'[m] = given[m]  BY <2>1 DEF TypeOK
    <2>4. \A e \in store : e.quote.nonce \in Nonces  BY DEF TypeOK, PendingQuotes
    <2> HIDE DEF n
    <2>5. \A m \in Nonces : given'[m] # 0 => m \in issued'
      BY <1>0, <2>2, <2>3 DEF SpentInv
    <2>6. \A e \in store' : e \in store /\ e.quote.nonce # n  BY <2>1 DEF Without
    <2>7. \A e \in store' : given'[e.quote.nonce] = 0
      BY <2>3, <2>4, <2>6 DEF SpentInv, SpentQuotesAreGone
    <2> QED  BY <2>5, <2>7 DEF SpentInv, SpentQuotesAreGone
  <1> QED  BY <1>1, <1>2, ReleasedStep

(* Whatever the interleaving of requests, a quote that has been handed out *)
(* is not in the cache: no later /swap can look it up.                     *)
THEOREM SpentQuotesStayGone == Spec => []SpentQuotesAreGone
  <1>1. Init => QuoteInv /\ SpentInv
    BY NoQuotesAtFirst DEF Init, QuoteInv, SpentInv, SpentQuotesAreGone
  <1>2. SpentInv => SpentQuotesAreGone  BY DEF SpentInv
  <1> QED  BY <1>1, <1>2, InitTypes, TypeStep, QuoteStep, SpentStep, PTL DEF Spec

----------------------------------------------------------------------------
(* How old a look may be. *)

(* Up to slot high, with the fair values obs seen in each: a slot near the *)
(* quote's window at which the pool had this fair value, and one at which  *)
(* it had a fair value within the drift allowed.                           *)
ReadAt(q, fair, high, obs) ==
    \E s \in 0 .. high :
        /\ q.expirySlot <= s + QuoteValidWindowSlots + MaxRollback
        /\ fair \in obs[s]

LookedAt(q, high, obs) ==
    \E s \in 0 .. high :
        /\ q.expirySlot <= s + QuoteValidWindowSlots + MaxRollback
        /\ \E v \in obs[s] : Within(v, q.fairValueAtQuote)

(* The inductive invariant: the slot is at most a rollback behind the      *)
(* highest, and what has been read or looked at belongs to a slot whose    *)
(* window, a rollback added, still holds the quote's expiry.               *)
RecentInv ==
    /\ slot <= highSlot /\ highSlot <= slot + MaxRollback
    /\ pool.fair \in seen[slot]
    /\ \A q \in Quotes : q.expirySlot <= highSlot + QuoteValidWindowSlots
    /\ \A w \in Workers : At(w, "quote", "vault") => req[w].current <= highSlot
    /\ \A w \in Workers :
         At(w, "swap", "slot") => ReadAt(req[w].quote, req[w].pool.fair, highSlot, seen)
    /\ \A w \in Workers :
         At(w, "swap", "vault") \/ At(w, "swap", "blockhash")
            => LookedAt(req[w].quote, highSlot, seen)
    /\ \A x \in released : LookedAt(x.quote, highSlot, seen)
    /\ FillsAreRecent

(* The highest slot and the values seen in each slot only grow.            *)
LEMMA TimeStep ==
    ASSUME TypeOK, [Next]_vars
    PROVE  /\ highSlot <= highSlot'
           /\ slot <= highSlot /\ highSlot <= slot + MaxRollback
                => slot' <= highSlot' /\ highSlot' <= slot' + MaxRollback
           /\ \A s \in 0 .. MaxSlot : seen[s] \subseteq seen'[s]
           /\ pool.fair \in seen[slot] => pool'.fair \in seen'[slot']
  <1> USE RfqConstants
  <1>1. CASE UNCHANGED <<pool, clock, seen>>  BY <1>1 DEF TypeOK, clock
  <1>2. CASE UpdateOracle
    <2>1. PICK fair \in FairValues, ttl \in Ttls :
            /\ pool' = [pool EXCEPT !.fair = fair, !.ttl = ttl, !.updated = slot]
            /\ seen' = [seen EXCEPT ![slot] = @ \cup {fair}]
      BY <1>2 DEF UpdateOracle
    <2>2. pool'.fair = fair
      <3>1. pool \in Pools  BY DEF TypeOK
      <3> QED  BY <2>1, <3>1 DEF Pools
    <2>3. seen'[slot] = seen[slot] \cup {fair}
          /\ \A s \in 0 .. MaxSlot : seen[s] \subseteq seen'[s]
      BY <2>1 DEF TypeOK
    <2>4. slot' = slot /\ highSlot' = highSlot  BY <1>2 DEF UpdateOracle, clock
    <2> QED  BY <2>2, <2>3, <2>4 DEF TypeOK
  <1>3. CASE SetPaused
    <2>1. pool'.fair = pool.fair  BY <1>3 DEF SetPaused, TypeOK, Pools
    <2> QED  BY <1>3, <2>1 DEF SetPaused, TypeOK, clock
  <1>4. CASE Tick
    BY <1>4 DEF Tick, TypeOK
  <1>5. CASE ForkRollback
    <2>1. PICK s \in 0 .. slot :
            /\ s < slot /\ highSlot - s <= MaxRollback /\ slot' = s
            /\ seen' = [seen EXCEPT ![s] = @ \cup {pool.fair}]
      BY <1>5 DEF ForkRollback
    <2>2. pool' = pool /\ highSlot' = highSlot  BY <1>5 DEF ForkRollback
    <2>3. s \in 0 .. MaxSlot  BY DEF TypeOK
    <2> QED  BY <2>1, <2>2, <2>3 DEF TypeOK
  <1>6. ASSUME NEW w \in Workers,
               \/ \E u \in Users, side \in Asked : QuoteReadPool(w, u, side)
               \/ QuoteReadSlot(w) \/ QuoteReadVaults(w)
               \/ \E e \in store, u \in Users : SwapLookup(w, e, u)
               \/ SwapReadPool(w) \/ SwapReadSlot(w) \/ SwapSign(w) \/ SwapAnswer(w)
               \/ RequestFails(w)
        PROVE  UNCHANGED <<pool, clock, seen>>
    BY <1>6 DEF chain, QuoteReadPool, QuoteReadSlot, QuoteReadVaults, SwapLookup,
                SwapReadPool, SwapReadSlot, SwapSign, SwapAnswer, RequestFails
  <1>7. ASSUME \/ SweepExpired \/ CacheAges \/ ApiRestarts \/ InventoryMoves
               \/ \E x \in released : Submit(x)
               \/ UNCHANGED vars
        PROVE  UNCHANGED <<pool, clock, seen>>
    BY <1>7 DEF vars, chain, clock, SweepExpired, CacheAges, ApiRestarts, Submit,
                InventoryMoves
  <1> QED  BY <1>1, <1>2, <1>3, <1>4, <1>5, <1>6, <1>7 DEF Next

(* What has been read or looked at stays so.                               *)
LEMMA LooksStay ==
    ASSUME TypeOK, TypeOK', [Next]_vars, NEW q, NEW fair
    PROVE  /\ ReadAt(q, fair, highSlot, seen) => ReadAt(q, fair, highSlot', seen')
           /\ LookedAt(q, highSlot, seen) => LookedAt(q, highSlot', seen')
  <1>1. /\ highSlot \in Nat /\ highSlot' \in Nat /\ highSlot <= highSlot'
        /\ \A s \in 0 .. highSlot : s \in 0 .. highSlot' /\ seen[s] \subseteq seen'[s]
    <2>1. /\ highSlot <= highSlot'
          /\ \A s \in 0 .. MaxSlot : seen[s] \subseteq seen'[s]
      BY TimeStep
    <2>2. highSlot \in 0 .. MaxSlot /\ highSlot' \in 0 .. MaxSlot  BY DEF TypeOK
    <2> QED  BY <2>1, <2>2, RfqConstants
  <1>2. ASSUME ReadAt(q, fair, highSlot, seen) PROVE ReadAt(q, fair, highSlot', seen')
    BY <1>1, <1>2 DEF ReadAt
  <1>3. ASSUME LookedAt(q, highSlot, seen) PROVE LookedAt(q, highSlot', seen')
    <2>1. PICK s \in 0 .. highSlot :
            /\ q.expirySlot <= s + QuoteValidWindowSlots + MaxRollback
            /\ \E v \in seen[s] : Within(v, q.fairValueAtQuote)
      BY <1>3 DEF LookedAt
    <2>2. PICK v \in seen[s] : Within(v, q.fairValueAtQuote)  BY <2>1
    <2>3. s \in 0 .. highSlot' /\ v \in seen'[s]  BY <1>1, <2>2
    <2> QED  BY <2>1, <2>2, <2>3 DEF LookedAt
  <1> QED  BY <1>2, <1>3

(* Whoever holds it, a quote is a pending quote.                           *)
LEMMA QuotesTyped == TypeOK => Quotes \subseteq PendingQuotes
  <1> SUFFICES ASSUME TypeOK, NEW q \in Quotes PROVE q \in PendingQuotes  OBVIOUS
  <1>1. \A w \in Workers : req[w] # None /\ req[w].op = "swap"
                            => req[w].quote \in PendingQuotes
    BY RequestTypes
  <1>2. \A e \in store : e.quote \in PendingQuotes  BY DEF TypeOK
  <1>3. \A x \in released : x.quote \in PendingQuotes  BY DEF TypeOK
  <1> QED  BY <1>1, <1>2, <1>3 DEF Quotes

(* A fill is within the window of the look its quote was signed after.     *)
LEMMA RecentStep ==
    ASSUME TypeInv, TypeInv', RecentInv, [Next]_vars
    PROVE  RecentInv'
  <1>0. TypeOK /\ TypeOK'  BY DEF TypeInv
  <1> USE RfqConstants
  <1>t. /\ slot \in Nat /\ slot <= highSlot /\ highSlot <= slot + MaxRollback
        /\ slot' \in Nat /\ slot' <= highSlot' /\ highSlot' <= slot' + MaxRollback
        /\ highSlot \in 0 .. MaxSlot /\ highSlot' \in 0 .. MaxSlot /\ highSlot <= highSlot'
        /\ pool'.fair \in seen'[slot']
        /\ \A s \in 0 .. MaxSlot : seen[s] \subseteq seen'[s]
    <2>1. /\ slot \in Nat /\ slot' \in Nat
          /\ highSlot \in 0 .. MaxSlot /\ highSlot' \in 0 .. MaxSlot
      BY <1>0 DEF TypeOK
    <2>2. slot <= highSlot /\ highSlot <= slot + MaxRollback /\ pool.fair \in seen[slot]
      BY DEF RecentInv
    <2> QED  BY <1>0, <2>1, <2>2, TimeStep
  <1>1. ASSUME NEW q \in Quotes' PROVE q.expirySlot <= highSlot' + QuoteValidWindowSlots
    <2>1. CASE q \in Quotes
      <3>1. q.expirySlot \in Nat /\ q.expirySlot <= highSlot + QuoteValidWindowSlots
        BY <1>0, <2>1, QuotesTyped DEF RecentInv, PendingQuotes
      <3> QED  BY <1>t, <3>1
    <2>2. CASE Drawn(q)
      <3>1. PICK w \in Workers, n \in Nonces :
              At(w, "quote", "vault") /\ q = PendingQuote(req[w], n)
        BY <2>2 DEF Drawn
      <3>2. req[w].current \in Nat  BY <1>0, <3>1, RequestTypes DEF At
      <3>3. q.expirySlot = req[w].current + QuoteValidWindowSlots
        BY <3>1 DEF PendingQuote, ExpirySlot
      <3>4. req[w].current <= highSlot  BY <3>1 DEF RecentInv
      <3> QED  BY <1>t, <3>2, <3>3, <3>4
    <2> QED  BY <1>0, <2>1, <2>2, QuotesStep
  <1>2. ASSUME NEW v \in Workers, req'[v] # None, req'[v] # req[v]
        PROVE  /\ At(v, "quote", "vault")' => req'[v].current <= highSlot'
               /\ At(v, "swap", "slot")'
                    => ReadAt(req'[v].quote, req'[v].pool.fair, highSlot', seen')
               /\ At(v, "swap", "vault")' \/ At(v, "swap", "blockhash")'
                    => LookedAt(req'[v].quote, highSlot', seen')
    <2> DEFINE r == req'[v]
    <2> SUFFICES /\ r.op = "quote" /\ r.at = "vault" => r.current <= highSlot'
                 /\ r.op = "swap" /\ r.at = "slot"
                      => ReadAt(r.quote, r.pool.fair, highSlot', seen')
                 /\ r.op = "swap" /\ r.at \in {"vault", "blockhash"}
                      => LookedAt(r.quote, highSlot', seen')
      BY DEF At
    <2>1. ASSUME NEW u \in Users, NEW side \in Asked, QuoteReadPool(v, u, side)
          PROVE  r.op = "quote" /\ r.at = "slot"
      BY <1>0, <2>1 DEF QuoteReadPool, Goto, TypeOK
    <2>2. CASE QuoteReadSlot(v)
      <3>1. PICK s \in SlotReads :
              \/ r = None
              \/ r = [op |-> "quote", at |-> "vault", user |-> req[v].user,
                      side |-> req[v].side, pool |-> req[v].pool, current |-> s]
        BY <1>0, <2>2 DEF QuoteReadSlot, Goto, TypeOK
      <3>2. r.op = "quote" /\ r.current = s  BY <1>2, <3>1
      <3>3. s \in Nat /\ s <= slot  BY <1>t DEF SlotReads
      <3> QED  BY <1>t, <3>2, <3>3
    <2>3. ASSUME NEW e \in store, NEW u \in Users, SwapLookup(v, e, u)
          PROVE  r.op = "swap" /\ r.at = "pool"
      BY <1>0, <1>2, <2>3 DEF SwapLookup, Goto, TypeOK
    <2>4. CASE SwapReadPool(v)
      <3>1. r = [op |-> "swap", at |-> "slot", quote |-> req[v].quote, pool |-> pool]
            /\ UNCHANGED <<slot, highSlot, seen>>
        BY <1>0, <1>2, <2>4 DEF SwapReadPool, Goto, TypeOK, chain, clock
      <3>2. req[v].quote \in Quotes  BY <2>4 DEF SwapReadPool, At, Quotes
      <3>3. /\ r.quote.expirySlot <= highSlot + QuoteValidWindowSlots
            /\ r.quote.expirySlot \in Nat /\ r.pool.fair \in seen[slot]
        BY <1>0, <3>1, <3>2, QuotesTyped DEF RecentInv, PendingQuotes
      <3>4. r.quote.expirySlot <= slot + QuoteValidWindowSlots + MaxRollback
            /\ slot \in 0 .. highSlot
        BY <1>t, <3>3
      <3>5. ReadAt(r.quote, r.pool.fair, highSlot', seen')
        BY <3>1, <3>3, <3>4 DEF ReadAt
      <3> QED  BY <3>1, <3>5
    <2>5. CASE SwapReadSlot(v)
      <3>1. PICK s \in SlotReads : Goto(v, IF LastLook(req[v], s)
                  THEN [op |-> "swap", at |-> "vault", quote |-> req[v].quote]
                  ELSE None)
        BY <2>5 DEF SwapReadSlot
      <3>2. r = [op |-> "swap", at |-> "vault", quote |-> req[v].quote]
            /\ LastLook(req[v], s)
        BY <1>0, <1>2, <3>1 DEF Goto, TypeOK
      <3>3. req[v] \in [op : {"swap"}, at : {"slot"}, quote : PendingQuotes, pool : Pools]
        BY <1>0, <2>5, RequestTypes DEF SwapReadSlot, At
      <3>4. /\ req[v].pool.fair \in FairValues
            /\ req[v].quote.fairValueAtQuote \in FairValues
        BY <3>3 DEF Pools, PendingQuotes
      <3>5. Within(req[v].pool.fair, req[v].quote.fairValueAtQuote)
        BY <3>2, <3>4, DriftIsWithin DEF LastLook
      <3>6. ReadAt(req[v].quote, req[v].pool.fair, highSlot, seen)
        BY <2>5 DEF SwapReadSlot, RecentInv
      <3>7. LookedAt(req[v].quote, highSlot, seen)  BY <3>5, <3>6 DEF ReadAt, LookedAt
      <3>8. LookedAt(req[v].quote, highSlot', seen')
        BY <2>5, <3>7 DEF SwapReadSlot, chain, clock, LookedAt
      <3> QED  BY <3>2, <3>8
    <2>6. CASE SwapSign(v)
      <3>1. r = [op |-> "swap", at |-> "blockhash", quote |-> req[v].quote,
                nonce |-> req[v].quote.nonce]
        BY <1>0, <1>2, <2>6 DEF SwapSign, Goto, TypeOK
      <3>2. LookedAt(req[v].quote, highSlot, seen)  BY <2>6 DEF SwapSign, RecentInv
      <3>3. LookedAt(req[v].quote, highSlot', seen')
        BY <2>6, <3>2 DEF SwapSign, chain, clock, LookedAt
      <3> QED  BY <3>1, <3>3
    <2> QED  BY <1>0, <1>2, <2>1, <2>2, <2>3, <2>4, <2>5, <2>6, RequestStep
  <1>3. ASSUME NEW v \in Workers, req'[v] # None
        PROVE  /\ At(v, "quote", "vault")' => req'[v].current <= highSlot'
               /\ At(v, "swap", "slot")'
                    => ReadAt(req'[v].quote, req'[v].pool.fair, highSlot', seen')
               /\ At(v, "swap", "vault")' \/ At(v, "swap", "blockhash")'
                    => LookedAt(req'[v].quote, highSlot', seen')
    <2>1. CASE req'[v] = req[v]
      <3>1. At(v, "quote", "vault") => req[v].current <= highSlot'
        <4>1. ASSUME At(v, "quote", "vault")
              PROVE  req[v].current \in Nat /\ req[v].current <= highSlot
          BY <1>0, <4>1, RequestTypes DEF RecentInv, At
        <4> QED  BY <1>t, <4>1
      <3>2. At(v, "swap", "slot") => ReadAt(req[v].quote, req[v].pool.fair, highSlot', seen')
        BY <1>0, LooksStay DEF RecentInv
      <3>3. At(v, "swap", "vault") \/ At(v, "swap", "blockhash")
              => LookedAt(req[v].quote, highSlot', seen')
        BY <1>0, LooksStay DEF RecentInv
      <3> QED  BY <2>1, <3>1, <3>2, <3>3 DEF At, ReadAt, LookedAt
    <2> QED  BY <1>2, <1>3, <2>1
  <1>4. ASSUME NEW x \in released' PROVE LookedAt(x.quote, highSlot', seen')
    <2>1. CASE x \in released  BY <1>0, <2>1, LooksStay DEF RecentInv
    <2>2. CASE x \notin released
      <3>1. PICK w \in Workers : SwapAnswer(w)  BY <1>4, <2>2, ReleasedStep
      <3>2. x.quote = req[w].quote  BY <1>4, <2>2, <3>1 DEF SwapAnswer
      <3>3. LookedAt(req[w].quote, highSlot, seen)  BY <3>1 DEF SwapAnswer, RecentInv
      <3>4. LookedAt(req[w].quote, highSlot', seen')  BY <1>0, <3>3, LooksStay
      <3> QED  BY <3>2, <3>4
    <2> QED  BY <2>1, <2>2
  <1>5. FillsAreRecent'
    <2>1. ASSUME NEW f \in fills
          PROVE  \E s \in 0 .. MaxSlot :
                    /\ f.at - s <= QuoteValidWindowSlots + MaxRollback
                    /\ s - f.at <= MaxRollback
                    /\ \E v \in seen'[s] : Within(v, f.quote.fairValueAtQuote)
      <3>1. PICK s \in 0 .. MaxSlot :
              /\ f.at - s <= QuoteValidWindowSlots + MaxRollback
              /\ s - f.at <= MaxRollback
              /\ \E v \in seen[s] : Within(v, f.quote.fairValueAtQuote)
        BY DEF RecentInv, FillsAreRecent
      <3>2. seen[s] \subseteq seen'[s]  BY <1>t, <3>1
      <3> QED  BY <3>1, <3>2
    <2>2. CASE UNCHANGED fills  BY <2>1, <2>2 DEF FillsAreRecent
    <2>3. ASSUME NEW x \in released, Submit(x) PROVE FillsAreRecent'
      <3> DEFINE new == [quote |-> x.quote, nonce |-> x.nonce, at |-> slot]
      <3>1. fills' = fills \cup {new} /\ slot <= x.quote.expirySlot
        BY <2>3 DEF Submit
      <3>2. PICK s \in 0 .. highSlot :
              /\ x.quote.expirySlot <= s + QuoteValidWindowSlots + MaxRollback
              /\ \E v \in seen[s] : Within(v, x.quote.fairValueAtQuote)
        BY DEF RecentInv, LookedAt
      <3>3. x.quote.expirySlot \in Nat  BY <1>0 DEF TypeOK, PendingQuotes
      <3>4. /\ slot - s <= QuoteValidWindowSlots + MaxRollback
            /\ s - slot <= MaxRollback /\ s \in 0 .. MaxSlot
        BY <1>t, <3>1, <3>2, <3>3
      <3>5. seen[s] \subseteq seen'[s]  BY <1>t, <3>4
      <3>6. new.at = slot /\ new.quote = x.quote  OBVIOUS
      <3> HIDE DEF new
      <3>7. \E v \in seen'[s] : Within(v, x.quote.fairValueAtQuote)  BY <3>2, <3>5
      <3> QED  BY <2>1, <3>1, <3>4, <3>6, <3>7 DEF FillsAreRecent
    <2> QED  BY <2>2, <2>3, FillsStep
  <1> QED  BY <1>t, <1>1, <1>3, <1>4, <1>5 DEF RecentInv, At

(* Nothing is filled against a fair value that had moved by more than the  *)
(* drift allowed when it was last looked at, and that look is no older     *)
(* than the validity window and the depth of a rollback together, however  *)
(* often the slot falls back in between.                                   *)
THEOREM LastLookIsRecent == Spec => []FillsAreRecent
  <1>1. Init => RecentInv
    <2> SUFFICES ASSUME Init PROVE RecentInv  OBVIOUS
    <2>1. pool.fair \in seen[slot]  BY RfqConstants DEF Init
    <2>2. Quotes = {}  BY NoQuotesAtFirst
    <2> QED  BY <2>1, <2>2, RfqConstants DEF Init, RecentInv, FillsAreRecent, At
  <1>2. RecentInv => FillsAreRecent  BY DEF RecentInv
  <1>3. TypeInv /\ TypeInv' /\ RecentInv /\ [Next]_vars => RecentInv'
    BY RecentStep
  <1> QED  BY <1>1, <1>2, <1>3, InitTypes, TypeStep, PTL DEF Spec

----------------------------------------------------------------------------
(* What leaves the cache. *)

(* The cache is a map of bounded size in insertion order.                  *)
StoreInv ==
    /\ IsFiniteSet(store) /\ Cardinality(store) <= MaxEntries
    /\ \A e, f \in store : e.quote.nonce = f.quote.nonce => e = f
    /\ \A e, f \in store : e.order = f.order => e = f
    /\ \A e \in store : e.order < Cardinality(issued)

(* A quote that leaves the cache was handed out, expired, was the oldest   *)
(* of a full cache that is full again, or went with the process.           *)
Survives ==
    \A e \in store :
        e.quote \notin {f.quote : f \in store'} =>
            \/ given'[e.quote.nonce] > given[e.quote.nonce]
            \/ Expired(e)
            \/ e \in Oldest(store) /\ Cardinality(store) = MaxEntries
                /\ Cardinality(store') = MaxEntries
            \/ ApiRestarts

(* Some entry of a cache that is not empty is the oldest.                  *)
LEMMA OldestExists ==
    ASSUME NEW entries, entries # {}, \A e \in entries : e.order \in Nat
    PROVE  Oldest(entries) # {}
  <1> DEFINE orders == {e.order : e \in entries}
             R == OpToRel(<, Nat)
  <1>1. IsWellFoundedOn(R, Nat)  BY NatLessThanWellFounded, Zenon
  <1>2. \A x, y \in Nat : x < y => <<x, y>> \in R  BY Zenon DEF OpToRel
  <1> HIDE DEF R
  <1>3. orders \subseteq Nat /\ orders # {}  OBVIOUS
  <1>4. PICK x \in orders : \A y \in orders : ~ (<<y, x>> \in R)
    BY <1>1, <1>3, WFMin
  <1>5. \A y \in orders : x <= y
    <2> SUFFICES ASSUME NEW y \in orders PROVE x <= y  OBVIOUS
    <2>1. x \in Nat /\ y \in Nat  BY <1>3
    <2>2. ~ (y < x)  BY <1>2, <1>4, <2>1, Zenon
    <2> QED  BY <2>1, <2>2
  <1>6. PICK e \in entries : e.order = x  BY <1>4
  <1>7. \A f \in entries : e.order <= f.order  BY <1>5, <1>6
  <1> QED  BY <1>6, <1>7 DEF Oldest

(* A cache from which entries are only dropped stays one.                  *)
LEMMA Dropping ==
    ASSUME StoreInv, TypeInv, TypeInv', issued \subseteq issued', store' \subseteq store
    PROVE  StoreInv'
  <1>1. IsFiniteSet(store') /\ Cardinality(store') <= Cardinality(store)
    BY FS_Subset DEF StoreInv
  <1>2. Cardinality(issued) <= Cardinality(issued')  BY FS_Subset DEF TypeInv
  <1>3. /\ Cardinality(store) \in Nat /\ Cardinality(store') \in Nat
        /\ Cardinality(issued) \in Nat /\ Cardinality(issued') \in Nat
    BY <1>1, FS_CardinalityType DEF StoreInv, TypeInv
  <1>4. \A e \in store : e.order \in Nat  BY DEF TypeInv, TypeOK
  <1> QED  BY <1>1, <1>2, <1>3, <1>4, RfqConstants DEF StoreInv

(* /quote adds an entry under a new nonce, and drops at most the oldest.   *)
LEMMA Inserting ==
    ASSUME StoreInv, TypeInv, QuoteInv, NEW q, NEW n \in Nonces \ issued, q.nonce = n,
           store' = CacheSet(store, q, Cardinality(issued)), issued' = issued \cup {n}
    PROVE  StoreInv' /\ Survives
  <1> DEFINE new == [quote |-> q, age |-> 0, order |-> Cardinality(issued)]
             all == store \cup {new}
  <1>1. \A e \in store : e.quote.nonce # n
    BY DEF QuoteInv, Quotes
  <1>2. Without(store, n) = store  BY <1>1 DEF Without
  <1>3. new.quote = q /\ new.order = Cardinality(issued)  OBVIOUS
  <1>4. store' = IF Cardinality(all) <= MaxEntries THEN all ELSE all \ Oldest(all)
    BY <1>2 DEF CacheSet
  <1> HIDE DEF new
  <1>5. new \notin store  BY <1>1, <1>3
  <1>6. /\ Cardinality(issued) \in Nat /\ Cardinality(store) \in Nat
        /\ Cardinality(issued') = Cardinality(issued) + 1
    BY FS_CardinalityType, FS_AddElement DEF TypeInv, StoreInv
  <1>7. IsFiniteSet(all) /\ Cardinality(all) = Cardinality(store) + 1
    BY <1>5, FS_AddElement DEF StoreInv
  <1>8. \A e \in all : e.order \in Nat /\ e.order < Cardinality(issued')
    BY <1>3, <1>6 DEF TypeInv, TypeOK, StoreInv
  <1>9. \A e, f \in all : e.order = f.order => e = f
    <2>1. \A e \in store : e.order # new.order
      BY <1>3, <1>6 DEF StoreInv, TypeInv, TypeOK
    <2> QED  BY <2>1 DEF StoreInv
  <1>10. \A e, f \in all : e.quote.nonce = f.quote.nonce => e = f
    BY <1>1, <1>3 DEF StoreInv
  <1>11. store' \subseteq all  BY <1>4
  <1>12. CASE Cardinality(all) <= MaxEntries
    <2>1. store' = all  BY <1>4, <1>12
    <2>2. StoreInv'  BY <1>7, <1>8, <1>9, <1>10, <1>12, <2>1 DEF StoreInv
    <2>3. Survives  BY <2>1 DEF Survives
    <2> QED  BY <2>2, <2>3
  <1>13. CASE ~(Cardinality(all) <= MaxEntries)
    <2>1. Cardinality(store) = MaxEntries
      BY <1>6, <1>7, <1>13, RfqConstants DEF StoreInv
    <2>2. Oldest(all) # {}  BY <1>8, OldestExists
    <2>3. PICK o : o \in Oldest(all)  BY <2>2
    <2>4. o \in all /\ \A f \in all : o.order <= f.order  BY <2>3 DEF Oldest
    <2>5. ASSUME NEW x \in Oldest(all) PROVE x = o
      <3>1. x \in all /\ x.order <= o.order  BY <2>4, <2>5 DEF Oldest
      <3>2. x.order = o.order  BY <1>8, <2>4, <3>1
      <3> QED  BY <1>9, <2>4, <3>1, <3>2
    <2>6. store' = all \ {o}  BY <1>4, <1>13, <2>3, <2>5
    <2>7. IsFiniteSet(store') /\ Cardinality(store') = MaxEntries
      <3>1. IsFiniteSet(all \ {o}) /\ Cardinality(all \ {o}) = Cardinality(all) - 1
        BY <1>7, <2>4, FS_RemoveElement
      <3> QED  BY <1>6, <1>7, <2>1, <2>6, <3>1
    <2>8. StoreInv'
      <3>1. Cardinality(store') <= MaxEntries  BY <2>7, RfqConstants
      <3>2. \A e \in store' : e.order < Cardinality(issued')  BY <1>8, <1>11
      <3>3. /\ \A e, f \in store' : e.order = f.order => e = f
            /\ \A e, f \in store' : e.quote.nonce = f.quote.nonce => e = f
        BY <1>9, <1>10, <1>11
      <3> QED  BY <2>7, <3>1, <3>2, <3>3 DEF StoreInv
    <2>9. Survives
      <3> SUFFICES ASSUME NEW e \in store, e \notin store'
                   PROVE  e \in Oldest(store)
        BY <2>1, <2>7 DEF Survives
      <3>1. e = o  BY <2>6
      <3> QED  BY <2>4, <3>1 DEF Oldest
    <2> QED  BY <2>8, <2>9
  <1> QED  BY <1>12, <1>13

(* Ageing keeps every entry.                                               *)
LEMMA Ageing ==
    ASSUME StoreInv, TypeInv, CacheAges
    PROVE  StoreInv' /\ Survives
  <1> DEFINE older == [e \in store |->
                          [e EXCEPT !.age = IF Expired(e) THEN @ ELSE @ + 1]]
  <1>1. store' = {older[e] : e \in store}  BY DEF CacheAges
  <1>2. \A e \in store : older[e].quote = e.quote /\ older[e].order = e.order
    BY DEF TypeInv, TypeOK
  <1>3. older \in [store -> store']  BY <1>1
  <1> HIDE DEF older
  <1>4. older \in Surjection(store, store')
    BY <1>1, <1>3 DEF Surjection
  <1>5. IsFiniteSet(store') /\ Cardinality(store') <= Cardinality(store)
    BY <1>4, FS_Surjection DEF StoreInv
  <1>6. Cardinality(store) \in Nat /\ Cardinality(store') \in Nat
    BY <1>5, FS_CardinalityType DEF StoreInv
  <1>7. UNCHANGED issued  BY DEF CacheAges
  <1>8. StoreInv'
    BY <1>1, <1>2, <1>5, <1>6, <1>7, RfqConstants DEF StoreInv
  <1>9. Survives  BY <1>1, <1>2 DEF Survives
  <1> QED  BY <1>8, <1>9

(* Every step keeps the cache a map, and loses no quote without a cause.   *)
LEMMA StoreStep ==
    ASSUME TypeInv, QuoteInv, StoreInv, [Next]_vars
    PROVE  StoreInv' /\ Survives
  <1>0. TypeInv' /\ issued \subseteq issued'  BY TypeStep, IssuedGrows
  <1>1. ASSUME UNCHANGED store PROVE StoreInv' /\ Survives
    BY <1>0, <1>1, Dropping DEF Survives
  <1>2. ASSUME NEW w \in Workers, QuoteReadVaults(w) PROVE StoreInv' /\ Survives
    <2>1. CASE UNCHANGED store  BY <1>1, <2>1
    <2>2. CASE \E n \in Nonces \ issued :
                  /\ store' = CacheSet(store, PendingQuote(req[w], n), Cardinality(issued))
                  /\ issued' = issued \cup {n}
      BY <2>2, Inserting DEF PendingQuote
    <2> QED  BY <1>2, <2>1, <2>2 DEF QuoteReadVaults
  <1>3. ASSUME NEW w \in Workers, NEW e \in store, NEW u \in Users, SwapLookup(w, e, u)
        PROVE  StoreInv' /\ Survives
    <2>1. CASE Expired(e) /\ store' = Without(store, e.quote.nonce)
      <3>1. store' \subseteq store /\ \A f \in store \ store' : f = e
        BY <2>1 DEF Without, StoreInv
      <3> QED  BY <1>0, <2>1, <3>1, Dropping DEF Survives
    <2>2. CASE UNCHANGED store  BY <1>1, <2>2
    <2> QED  BY <1>3, <2>1, <2>2 DEF SwapLookup
  <1>4. ASSUME NEW w \in Workers, SwapAnswer(w) PROVE StoreInv' /\ Survives
    <2> DEFINE n == req[w].quote.nonce
    <2>1. /\ store' = Without(store, n) /\ given' = [given EXCEPT ![n] = @ + 1]
          /\ At(w, "swap", "blockhash")
      BY <1>4 DEF SwapAnswer
    <2>2. n \in Nonces
      BY <2>1, RequestTypes DEF At, TypeInv, PendingQuotes
    <2> HIDE DEF n
    <2>3. store' \subseteq store /\ \A f \in store \ store' : f.quote.nonce = n
      BY <2>1 DEF Without
    <2>4. given'[n] > given[n]  BY <2>1, <2>2 DEF TypeInv, TypeOK
    <2> QED  BY <1>0, <2>3, <2>4, Dropping DEF Survives
  <1>5. CASE SweepExpired
    <2>1. store' \subseteq store /\ \A f \in store \ store' : Expired(f)
      BY <1>5 DEF SweepExpired
    <2> QED  BY <1>0, <2>1, Dropping DEF Survives
  <1>6. CASE CacheAges  BY <1>6, Ageing
  <1>7. CASE ApiRestarts
    <2>1. store' \subseteq store  BY <1>7 DEF ApiRestarts
    <2> QED  BY <1>0, <1>7, <2>1, Dropping DEF Survives
  <1>8. ASSUME \/ \E w \in Workers :
                     \/ \E u \in Users, side \in Asked : QuoteReadPool(w, u, side)
                     \/ QuoteReadSlot(w) \/ SwapReadPool(w) \/ SwapReadSlot(w)
                     \/ SwapSign(w) \/ RequestFails(w)
               \/ \E x \in released : Submit(x)
               \/ UpdateOracle \/ SetPaused \/ InventoryMoves \/ Tick \/ ForkRollback
               \/ UNCHANGED vars
        PROVE  UNCHANGED store
    BY <1>8
    DEF QuoteReadPool, QuoteReadSlot, SwapReadPool, SwapReadSlot, SwapSign, RequestFails,
        Submit, UpdateOracle, SetPaused, InventoryMoves, Tick, ForkRollback, vars, service
  <1> QED
    BY <1>1, <1>2, <1>3, <1>4, <1>5, <1>6, <1>7, <1>8 DEF Next

(* Whatever fails, is refused or comes late at /swap, the quote stays      *)
(* redeemable, for any number of requests and any size of the cache.       *)
THEOREM FailureKeepsQuotes == Spec => QuotesSurviveFailure
  <1>1. Init => QuoteInv  BY NoQuotesAtFirst DEF QuoteInv
  <1>2. Init => StoreInv
    <2> SUFFICES ASSUME store = {}, issued = {} PROVE StoreInv  BY DEF Init
    <2> QED  BY FS_EmptySet, RfqConstants DEF StoreInv
  <1>3. TypeInv /\ QuoteInv /\ StoreInv /\ [Next]_vars => StoreInv'  BY StoreStep
  <1>4. TypeInv /\ QuoteInv /\ StoreInv /\ [Next]_vars => [Survives]_vars
    BY StoreStep
  <1> QED
    BY <1>1, <1>2, <1>3, <1>4, InitTypes, TypeStep, QuoteStep, PTL
    DEF Spec, QuotesSurviveFailure, Survives
=============================================================================
