----------------------------- MODULE PoolProofs -----------------------------
(***************************************************************************)
(* The pool's safety for any number of keys, quotes, slots and amounts;    *)
(* and, at the end, that of the admin pages in front of it.                *)
(***************************************************************************)
EXTENDS AdminPages, CurveProofs

----------------------------------------------------------------------------
(* Types. *)

(* A transfer that the source can pay keeps balances natural numbers.      *)
LEMMA MovedType ==
    ASSUME NEW bal \in [Holders -> Nat], NEW from \in Holders, NEW to \in Holders,
           NEW amount \in Nat, amount <= bal[from]
    PROVE  Moved(bal, from, to, amount) \in [Holders -> Nat]
  BY DEF Moved

(* Both legs of a settlement keep them so.                                 *)
LEMMA SettleType ==
    ASSUME TypeOK, NEW user \in Keys, NEW side \in Sides, NEW input \in Nat,
           NEW min_output \in Nat, NEW price \in Nat,
           Settle(user, side, input, min_output, price)
    PROVE  base' \in [Holders -> Nat] /\ quote' \in [Holders -> Nat]
  <1>1. user \in Holders /\ Vault \in Holders  BY DEF Holders
  <1>2. OutputAmount(side, input, price) \in Nat
    BY OutputBounds DEF Settle, OutputOk, Sides
  <1> DEFINE out == OutputAmount(side, input, price)
  <1>b. base \in [Holders -> Nat] /\ quote \in [Holders -> Nat]  BY DEF TypeOK
  <1>3. CASE side = "Buy"
    <2>1. /\ input <= quote[user] /\ quote' = Moved(quote, user, Vault, input)
          /\ out <= base[Vault] /\ base' = Moved(base, Vault, user, out)
      BY <1>3 DEF Settle
    <2> HIDE DEF out
    <2>2. quote' \in [Holders -> Nat]  BY <1>1, <1>b, <2>1, MovedType
    <2>3. base' \in [Holders -> Nat]  BY <1>1, <1>2, <1>b, <2>1, MovedType DEF out
    <2> QED  BY <2>2, <2>3
  <1>4. CASE side = "Sell"
    <2>1. /\ input <= base[user] /\ base' = Moved(base, user, Vault, input)
          /\ out <= quote[Vault] /\ quote' = Moved(quote, Vault, user, out)
      BY <1>4 DEF Settle
    <2> HIDE DEF out
    <2>2. base' \in [Holders -> Nat]  BY <1>1, <1>b, <2>1, MovedType
    <2>3. quote' \in [Holders -> Nat]  BY <1>1, <1>2, <1>b, <2>1, MovedType DEF out
    <2> QED  BY <2>2, <2>3
  <1> QED  BY <1>3, <1>4 DEF Sides

(* The price a curve swap executes at is a natural number.                 *)
LEMMA CurvePriceType ==
    ASSUME TypeOK, Allocated, NEW side \in Sides, NEW input \in Nat
    PROVE  Evaluate(pool.params, side, input, base[Vault], quote[Vault]) \in Nat
  <1>1. pool.params \in PriceParams /\ ParamsOK(pool.params)
    BY DEF TypeOK, Allocated, PoolStates
  <1>2. base[Vault] \in Nat /\ quote[Vault] \in Nat  BY DEF TypeOK, Holders
  <1> QED  BY <1>1, <1>2, PriceBounds

(* Every action keeps the types.  An action that writes PoolState is shown *)
(* to write an admissible one; one that moves tokens, to leave no balance  *)
(* below zero.                                                             *)
LEMMA TypeStep == TypeOK /\ [Next]_vars => TypeOK'
  <1> SUFFICES ASSUME TypeOK, [Next]_vars PROVE TypeOK'  OBVIOUS
  <1> USE PoolConstants, PoolAllocated
  <1>1. ASSUME NEW k \in Signers, NEW o \in NewKeys, NEW s \in NewKeys,
               NEW p \in ParamInputs, NEW ttl \in TtlInputs, InitPool(k, o, s, p, ttl)
        PROVE  TypeOK'
    <2>1. pool' \in PoolStates
      BY <1>1 DEF InitPool, TypeOK, PoolStates, Signers, OracleArgsOK
    <2> QED  BY <1>1, <2>1 DEF InitPool, TypeOK, balances, clock, adminHist
  <1>2. ASSUME NEW k \in Signers, NEW p \in ParamInputs, NEW n \in 0 .. MaxNonce,
               NEW ttl \in TtlInputs, UpdateOracle(k, p, n, ttl)
        PROVE  TypeOK'
    <2>1. pool' \in PoolStates
      <3>1. pool \in PoolStates  BY <1>2 DEF UpdateOracle, Allocated, TypeOK
      <3>2. p \in {r \in PriceParams : ParamsOK(r)} /\ ttl \in 0 .. MAX_TTL_SLOTS
        BY <1>2 DEF UpdateOracle, OracleArgsOK
      <3>3. slot \in Nat /\ n \in Nat  BY DEF TypeOK
      <3>4. pool' = [pool EXCEPT !.params = p, !.last_oracle_update_slot = slot,
                                 !.oracle_nonce = n, !.current_mode_ttl = ttl]
        BY <1>2 DEF UpdateOracle
      <3> QED  BY <3>1, <3>2, <3>3, <3>4 DEF PoolStates
    <2> QED  BY <1>2, <2>1 DEF UpdateOracle, TypeOK, balances, clock, adminHist
  <1>3. ASSUME NEW u \in Signers, NEW side \in Sides, NEW x \in Amounts,
               NEW min \in MinOutputs, CurveSwap(u, side, x, min)
        PROVE  TypeOK'
    <2> DEFINE price == Evaluate(pool.params, side, x, base[Vault], quote[Vault])
    <2>1. price \in Nat  BY <1>3, CurvePriceType DEF CurveSwap, SwapOpen
    <2>2. Settle(u, side, x, min, price)  BY <1>3 DEF CurveSwap
    <2> HIDE DEF price
    <2>3. base' \in [Holders -> Nat] /\ quote' \in [Holders -> Nat]
      BY <2>1, <2>2, SettleType DEF Signers
    <2> QED  BY <1>3, <2>3 DEF CurveSwap, TypeOK, clock, adminHist
  <1>4. ASSUME NEW u \in Signers, NEW side \in Sides, NEW x \in Amounts,
               NEW min \in MinOutputs, NEW q \in Quotes, RfqSwap(u, side, x, min, q)
        PROVE  TypeOK'
    <2>1. /\ q.price \in Nat /\ q.nonce \in Nat /\ q.expiry_slot \in Nat
      BY CurveConstants DEF SignedQuotes
    <2>2. base' \in [Holders -> Nat] /\ quote' \in [Holders -> Nat]
      BY <1>4, <2>1, SettleType DEF RfqSwap, Signers
    <2>3. markers' \subseteq Markers
      BY <1>4, <2>1 DEF RfqSwap, InitQuoteNonceMarker, TypeOK, Markers
    <2>4. fillCount' \in [Quotes -> Nat]  BY <1>4 DEF RfqSwap, TypeOK
    <2> QED  BY <1>4, <2>2, <2>3, <2>4 DEF RfqSwap, TypeOK, clock, adminHist
  <1>5. ASSUME NEW m \in markers, CloseExpiredNonce(m) PROVE TypeOK'
    BY <1>5 DEF CloseExpiredNonce, TypeOK, balances, clock, adminHist
  <1>6. ASSUME NEW k \in Signers, NEW p \in BOOLEAN, SetPaused(k, p) PROVE TypeOK'
    <2>1. pool' \in PoolStates  BY <1>6 DEF SetPaused, AdminSigns, Allocated, TypeOK, PoolStates
    <2> QED  BY <1>6, <2>1 DEF SetPaused, TypeOK, balances, clock, adminHist
  <1>7. ASSUME NEW k \in Signers, NEW new \in NewKeys, RotateOracleSigner(k, new)
        PROVE  TypeOK'
    <2>1. pool' \in PoolStates
      BY <1>7 DEF RotateOracleSigner, AdminSigns, Allocated, TypeOK, PoolStates
    <2> QED  BY <1>7, <2>1 DEF RotateOracleSigner, TypeOK, balances, clock, adminHist
  <1>8. ASSUME NEW k \in Signers, NEW new \in NewKeys, RotateQuoteSigner(k, new)
        PROVE  TypeOK'
    <2>1. pool' \in PoolStates
      BY <1>8 DEF RotateQuoteSigner, AdminSigns, Allocated, TypeOK, PoolStates
    <2> QED  BY <1>8, <2>1 DEF RotateQuoteSigner, TypeOK, balances, clock, adminHist
  <1>9. ASSUME NEW k \in Signers, NEW new \in NewKeys, RotateAdmin(k, new)
        PROVE  TypeOK'
    <2>1. pool' \in PoolStates /\ pool.admin \in Keys
      BY <1>9 DEF RotateAdmin, AdminSigns, Allocated, TypeOK, PoolStates
    <2> QED  BY <1>9, <2>1 DEF RotateAdmin, RecordHandover, TypeOK, balances, clock
  <1>10. ASSUME NEW k \in Signers, NEW new \in NewKeys, ProposeAdmin(k, new)
         PROVE  TypeOK'
    <2>1. proposal' \subseteq Proposals  BY <1>10 DEF ProposeAdmin, Proposals, Signers
    <2> QED  BY <1>10, <2>1 DEF ProposeAdmin, TypeOK, balances, clock
  <1>11. ASSUME NEW k \in Signers, AcceptAdmin(k) PROVE TypeOK'
    <2>1. pool' \in PoolStates /\ pool.admin \in Keys /\ k \in Keys
      BY <1>11 DEF AcceptAdmin, Allocated, TypeOK, PoolStates, Signers
    <2> QED  BY <1>11, <2>1 DEF AcceptAdmin, RecordHandover, TypeOK, balances, clock
  <1>12. ASSUME NEW k \in Signers, CancelAdminProposal(k) PROVE TypeOK'
    BY <1>12 DEF CancelAdminProposal, TypeOK, balances, clock, adminHist
  <1>13. ASSUME NEW k \in Signers, NEW b \in Amounts, NEW c \in Amounts,
                AdminWithdrawInventory(k, b, c)
         PROVE  TypeOK'
    <2>1. base' \in [Holders -> Nat] /\ quote' \in [Holders -> Nat]
      BY <1>13, MovedType DEF AdminWithdrawInventory, TypeOK, Holders, Signers
    <2> QED  BY <1>13, <2>1 DEF AdminWithdrawInventory, TypeOK, clock, adminHist
  <1>14. ASSUME NEW k \in Signers, NEW b \in Amounts, NEW c \in Amounts, Deposit(k, b, c)
         PROVE  TypeOK'
    <2>1. base' \in [Holders -> Nat] /\ quote' \in [Holders -> Nat]
      BY <1>14, MovedType DEF Deposit, TypeOK, Holders, Signers
    <2> QED  BY <1>14, <2>1 DEF Deposit, TypeOK, clock, adminHist
  <1>15. CASE Tick  BY <1>15 DEF Tick, TypeOK, balances, adminHist
  <1>16. CASE ForkRollback  BY <1>16 DEF ForkRollback, TypeOK, balances, adminHist
  <1>17. CASE UNCHANGED vars  BY <1>17 DEF vars, TypeOK
  <1> QED
    BY <1>1, <1>2, <1>3, <1>4, <1>5, <1>6, <1>7, <1>8, <1>9, <1>10, <1>11, <1>12,
       <1>13, <1>14, <1>15, <1>16, <1>17 DEF Next

(* The initial state is well typed. *)
LEMMA InitTypeOK == Init => TypeOK
  <1> SUFFICES ASSUME Init PROVE TypeOK  OBVIOUS
  <1>1. 0 \in 0 .. MaxSlot  BY PoolConstants, CurveConstants
  <1>2. \A h \in Holders : (IF h = Vault THEN 0 ELSE Endowment[h]) \in Nat
    BY PoolConstants DEF Holders
  <1>3. base \in [Holders -> Nat] /\ quote \in [Holders -> Nat]
    BY <1>2 DEF Init
  <1> QED  BY <1>1, <1>3 DEF Init, TypeOK

(* Every PoolState on chain carries admissible parameters and no balance   *)
(* is ever negative: the type invariant holds in every behaviour.          *)
THEOREM TypeCorrect == Spec => []TypeOK
  BY InitTypeOK, TypeStep, PTL DEF Spec

----------------------------------------------------------------------------
(* One-shot quotes.                                                        *)
(*                                                                         *)
(* A quote can be filled again only if its marker is gone and its expiry   *)
(* is not past.  A marker goes only when expiry + buffer is behind the     *)
(* slot; from then on the highest slot stays above expiry + buffer, and    *)
(* the slot, at most MaxRollback <= buffer behind it, above the expiry.    *)

(* A retired quote is expired, however the slot has moved since.           *)
LEMMA RetiredIsExpired ==
    ASSUME TypeOK, SlotLag, NEW q \in Quotes, Retired(q)
    PROVE  slot > q.expiry_slot
  <1>1. q.expiry_slot \in Nat  BY PoolConstants, CurveConstants DEF SignedQuotes
  <1>2. slot \in Nat /\ highSlot \in Nat  BY PoolConstants, CurveConstants DEF TypeOK
  <1> QED
    BY <1>1, <1>2, PoolConstants, BufferOutlastsRollback DEF SlotLag, Retired

(* Steps that touch neither markers, fills nor the clock. *)
LEMMA ReplayFrame ==
    ASSUME ReplayInv, TypeOK', UNCHANGED <<markers, fillCount, slot, highSlot>>
    PROVE  ReplayInv'
  BY DEF ReplayInv, SlotLag, FilledAtMostOnce, FillsGuarded, NonceOwned, MarkersAreFills,
         Retired

(* A quote that can be filled, and every quote with its nonce that has     *)
(* been: the one has never been filled, the others are retired.            *)
LEMMA FirstFill ==
    ASSUME ReplayInv, NEW u, NEW side, NEW x, NEW min, NEW q \in Quotes,
           RfqSwap(u, side, x, min, q)
    PROVE  /\ fillCount[q] = 0
           /\ \A r \in Quotes : r.nonce = q.nonce /\ fillCount[r] > 0 => Retired(r)
  <1>1. /\ \A m \in markers : m.nonce # q.nonce
        /\ slot <= q.expiry_slot
    BY DEF RfqSwap, InitQuoteNonceMarker, NonceUnused, QuoteValid
  <1>2. fillCount \in [Quotes -> Nat]  BY DEF ReplayInv, TypeOK
  <1>3. \A r \in Quotes : r.nonce = q.nonce /\ fillCount[r] > 0 => Retired(r)
    BY <1>1 DEF ReplayInv, FillsGuarded
  <1>4. ~Retired(q)
    <2>1. slot \in Int /\ q.expiry_slot \in Int
      BY PoolConstants, CurveConstants DEF ReplayInv, TypeOK, SignedQuotes
    <2> QED  BY <1>1, <2>1, RetiredIsExpired DEF ReplayInv
  <1> QED  BY <1>2, <1>3, <1>4

(* A fill through the RFQ path. *)
LEMMA ReplayRfq ==
    ASSUME ReplayInv, TypeOK', NEW u, NEW side, NEW x, NEW min, NEW q \in Quotes,
           RfqSwap(u, side, x, min, q)
    PROVE  ReplayInv'
  <1> DEFINE mark(r) == [nonce |-> r.nonce, expiry_slot |-> r.expiry_slot]
  <1>1. /\ \A m \in markers : m.nonce # q.nonce
        /\ markers' = markers \cup {mark(q)}
        /\ fillCount' = [fillCount EXCEPT ![q] = @ + 1]
        /\ UNCHANGED <<slot, highSlot>>
    BY DEF RfqSwap, InitQuoteNonceMarker, NonceUnused, clock
  <1>2. fillCount \in [Quotes -> Nat]  BY DEF ReplayInv, TypeOK
  <1>3. /\ fillCount[q] = 0
        /\ \A r \in Quotes : r.nonce = q.nonce /\ fillCount[r] > 0 => Retired(r)
    BY FirstFill
  <1>5. /\ fillCount'[q] = 1
        /\ \A r \in Quotes : r # q => fillCount'[r] = fillCount[r]
    BY <1>1, <1>2, <1>3
  <1>6. \A r \in Quotes : Retired(r)' <=> Retired(r)  BY <1>1 DEF Retired
  <1>7. SlotLag'  BY <1>1 DEF ReplayInv, SlotLag
  <1>8. FilledAtMostOnce'  BY <1>5 DEF ReplayInv, FilledAtMostOnce
  <1>9. FillsGuarded'  BY <1>1, <1>5, <1>6 DEF ReplayInv, FillsGuarded
  <1>10. NonceOwned'
    <2> SUFFICES ASSUME NEW r \in Quotes, NEW t \in Quotes, r # t, r.nonce = t.nonce,
                        fillCount'[r] > 0, fillCount'[t] > 0
                 PROVE  Retired(r)' \/ Retired(t)'
      BY DEF NonceOwned
    <2>1. CASE r = q  BY <1>3, <1>5, <1>6, <2>1
    <2>2. CASE t = q  BY <1>3, <1>5, <1>6, <2>2
    <2>3. CASE r # q /\ t # q  BY <1>5, <1>6, <2>3 DEF ReplayInv, NonceOwned
    <2> QED  BY <2>1, <2>2, <2>3
  <1>11. MarkersAreFills'
    <2> SUFFICES ASSUME NEW m \in markers'
                 PROVE  \E r \in Quotes : /\ r.nonce = m.nonce
                                          /\ r.expiry_slot = m.expiry_slot
                                          /\ fillCount'[r] > 0
      BY DEF MarkersAreFills
    <2>1. CASE m = mark(q)  BY <1>5, <2>1
    <2>2. CASE m \in markers
      <3>1. PICK r \in Quotes : /\ r.nonce = m.nonce /\ r.expiry_slot = m.expiry_slot
                                /\ fillCount[r] > 0
        BY <2>2 DEF ReplayInv, MarkersAreFills
      <3>2. fillCount'[r] > 0  BY <1>5, <3>1
      <3> QED  BY <3>1, <3>2
    <2> QED  BY <1>1, <2>1, <2>2
  <1> QED  BY <1>7, <1>8, <1>9, <1>10, <1>11 DEF ReplayInv

(* A marker closed. *)
LEMMA ReplayClose ==
    ASSUME ReplayInv, TypeOK', NEW m \in markers, CloseExpiredNonce(m)
    PROVE  ReplayInv'
  <1>1. /\ markers' = markers \ {m}
        /\ SaturatingAdd(m.expiry_slot, SAFETY_BUFFER_SLOTS) < slot
        /\ UNCHANGED <<fillCount, slot, highSlot>>
    BY DEF CloseExpiredNonce, clock
  <1>2. m.expiry_slot + SAFETY_BUFFER_SLOTS < highSlot
    <2>1. /\ m.expiry_slot \in Nat /\ SAFETY_BUFFER_SLOTS \in Nat
          /\ slot \in Nat /\ slot <= MaxU64 /\ MaxU64 \in Nat
          /\ highSlot \in Nat /\ slot <= highSlot
      BY PoolConstants, CurveConstants DEF ReplayInv, TypeOK, Markers, SlotLag
    <2> QED  BY <1>1, <2>1 DEF SaturatingAdd
  <1>3. FillsGuarded'
    <2> SUFFICES ASSUME NEW q \in Quotes, fillCount[q] > 0,
                        [nonce |-> q.nonce, expiry_slot |-> q.expiry_slot] \in markers,
                        [nonce |-> q.nonce, expiry_slot |-> q.expiry_slot] = m
                 PROVE  Retired(q)
      BY <1>1 DEF ReplayInv, FillsGuarded, Retired
    <2> QED  BY <1>2 DEF Retired
  <1> QED
    BY <1>1, <1>3 DEF ReplayInv, SlotLag, FilledAtMostOnce, NonceOwned, MarkersAreFills,
                      Retired

(* The clock moves: the highest slot never falls, so a retired quote stays *)
(* retired.                                                                *)
LEMMA ReplayClock ==
    ASSUME ReplayInv, TypeOK', Tick \/ ForkRollback
    PROVE  ReplayInv'
  <1>0. slot \in Nat /\ highSlot \in Nat /\ MaxRollback \in Nat
    BY PoolConstants, CurveConstants DEF ReplayInv, TypeOK
  <1>1. SlotLag' /\ highSlot <= highSlot' /\ highSlot' \in Nat
    <2>1. CASE Tick  BY <1>0, <2>1 DEF Tick, ReplayInv, SlotLag
    <2>2. CASE ForkRollback
      <3>1. PICK s \in 0 .. slot : s < slot /\ highSlot - s <= MaxRollback /\ slot' = s
        BY <2>2 DEF ForkRollback
      <3> QED  BY <1>0, <2>2, <3>1 DEF ForkRollback, ReplayInv, SlotLag
    <2> QED  BY <2>1, <2>2
  <1>2. UNCHANGED <<markers, fillCount>>  BY DEF Tick, ForkRollback
  <1>3. ASSUME NEW q \in Quotes, Retired(q) PROVE Retired(q)'
    <2>1. q.expiry_slot \in Nat /\ SAFETY_BUFFER_SLOTS \in Nat
      BY PoolConstants, CurveConstants DEF SignedQuotes
    <2> QED  BY <1>0, <1>1, <1>3, <2>1 DEF Retired
  <1>4. FillsGuarded' /\ NonceOwned'
    BY <1>2, <1>3 DEF ReplayInv, FillsGuarded, NonceOwned
  <1> QED
    BY <1>1, <1>2, <1>4 DEF ReplayInv, FilledAtMostOnce, MarkersAreFills

(* Every step keeps the invariant: one lemma for each kind of step.        *)
LEMMA ReplayStep == ReplayInv /\ [Next]_vars => ReplayInv'
  <1> SUFFICES ASSUME ReplayInv, [Next]_vars PROVE ReplayInv'  OBVIOUS
  <1>1. TypeOK'  BY TypeStep DEF ReplayInv
  <1> DEFINE frame == UNCHANGED <<markers, fillCount, slot, highSlot>>
  <1>2. ASSUME NEW u, NEW side, NEW x, NEW min, NEW q \in Quotes, RfqSwap(u, side, x, min, q)
        PROVE  ReplayInv'
    BY <1>1, <1>2, ReplayRfq
  <1>3. ASSUME NEW m \in markers, CloseExpiredNonce(m) PROVE ReplayInv'
    BY <1>1, <1>3, ReplayClose
  <1>4. CASE Tick \/ ForkRollback  BY <1>1, <1>4, ReplayClock
  <1>5. ASSUME NEW k \in Signers, NEW o \in NewKeys, NEW s \in NewKeys,
               NEW p \in ParamInputs, NEW ttl \in TtlInputs, InitPool(k, o, s, p, ttl)
        PROVE  frame
    BY <1>5 DEF InitPool, clock
  <1>6. ASSUME NEW k \in Signers, NEW p \in ParamInputs, NEW n \in 0 .. MaxNonce,
               NEW ttl \in TtlInputs, UpdateOracle(k, p, n, ttl)
        PROVE  frame
    BY <1>6 DEF UpdateOracle, clock
  <1>7. ASSUME NEW u, NEW side, NEW x, NEW min, CurveSwap(u, side, x, min) PROVE frame
    BY <1>7 DEF CurveSwap, clock
  <1>8. ASSUME NEW k, NEW p, SetPaused(k, p) PROVE frame
    BY <1>8 DEF SetPaused, clock
  <1>9. ASSUME NEW k, NEW new,
               \/ RotateOracleSigner(k, new) \/ RotateQuoteSigner(k, new)
               \/ RotateAdmin(k, new) \/ ProposeAdmin(k, new)
        PROVE  frame
    BY <1>9 DEF RotateOracleSigner, RotateQuoteSigner, RotateAdmin, ProposeAdmin, clock
  <1>10. ASSUME NEW k, AcceptAdmin(k) \/ CancelAdminProposal(k) PROVE frame
    BY <1>10 DEF AcceptAdmin, CancelAdminProposal, clock
  <1>11. ASSUME NEW k, NEW b, NEW c, AdminWithdrawInventory(k, b, c) \/ Deposit(k, b, c)
         PROVE  frame
    BY <1>11 DEF AdminWithdrawInventory, Deposit, clock
  <1>12. CASE UNCHANGED vars
    <2>1. frame  BY <1>12 DEF vars
    <2> QED  BY <1>1, <2>1, ReplayFrame
  <1>13. ASSUME frame PROVE ReplayInv'  BY <1>1, <1>13, ReplayFrame
  <1> HIDE DEF frame
  <1> QED
    BY <1>2, <1>3, <1>4, <1>5, <1>6, <1>7, <1>8, <1>9, <1>10, <1>11, <1>12, <1>13 DEF Next

(* The inductive invariant holds in every behaviour.                       *)
THEOREM ReplayInvariant == Spec => []ReplayInv
  <1>1. Init => ReplayInv
    <2> SUFFICES ASSUME Init PROVE ReplayInv  OBVIOUS
    <2>1. TypeOK  BY InitTypeOK
    <2>2. SlotLag  BY PoolConstants DEF Init, SlotLag
    <2>3. \A q \in Quotes : fillCount[q] = 0  BY DEF Init
    <2>4. FilledAtMostOnce /\ FillsGuarded /\ NonceOwned
      BY <2>3 DEF FilledAtMostOnce, FillsGuarded, NonceOwned
    <2>5. MarkersAreFills  BY DEF Init, MarkersAreFills
    <2> QED  BY <2>1, <2>2, <2>4, <2>5 DEF ReplayInv
  <1> QED  BY <1>1, ReplayStep, PTL DEF Spec

(* A signed quote is filled at most once, through any number of marker     *)
(* closures and fork rollbacks no deeper than the buffer.                  *)
THEOREM QuotesAreOneShot == Spec => []FilledAtMostOnce
  <1>1. ReplayInv => FilledAtMostOnce  BY DEF ReplayInv
  <1> QED  BY <1>1, ReplayInvariant, PTL

(* Of two filled quotes that share a nonce, one has expired.               *)
THEOREM NoncesAreExclusive == Spec => []NonceExclusive
  <1>1. ReplayInv => NonceExclusive
    BY RetiredIsExpired DEF ReplayInv, NonceOwned, NonceExclusive
  <1> QED  BY <1>1, ReplayInvariant, PTL

(* Only a fill spends a nonce: a trade the curve priced leaves none spent. *)
THEOREM OnlyFillsSpendNonces == Spec => []MarkersAreFills
  <1>1. ReplayInv => MarkersAreFills  BY DEF ReplayInv
  <1> QED  BY <1>1, ReplayInvariant, PTL

----------------------------------------------------------------------------
(* Action properties.                                                      *)

(* What an instruction other than init_pool may do to an allocated pool:   *)
(* it stays allocated and keeps its oracle fields, or takes a later update.*)
LEMMA PoolStepCases ==
    ASSUME TypeOK, Next, Allocated
    PROVE  /\ pool' \in PoolStates
           /\ \/ pool'.oracle_nonce > pool.oracle_nonce /\ ~pool.paused
              \/ /\ pool'.oracle_nonce = pool.oracle_nonce
                 /\ pool'.params = pool.params
                 /\ pool'.current_mode_ttl = pool.current_mode_ttl
                 /\ pool'.last_oracle_update_slot = pool.last_oracle_update_slot
  <1> DEFINE kept == /\ pool'.oracle_nonce = pool.oracle_nonce
                     /\ pool'.params = pool.params
                     /\ pool'.current_mode_ttl = pool.current_mode_ttl
                     /\ pool'.last_oracle_update_slot = pool.last_oracle_update_slot
             goal == /\ pool' \in PoolStates
                     /\ (pool'.oracle_nonce > pool.oracle_nonce /\ ~pool.paused) \/ kept
  <1>0. pool \in PoolStates  BY DEF TypeOK, Allocated
  <1>1. ASSUME pool' = pool PROVE goal  BY <1>0, <1>1
  <1>2. ASSUME NEW k \in Signers, NEW p \in ParamInputs, NEW n \in 0 .. MaxNonce,
               NEW ttl \in TtlInputs, UpdateOracle(k, p, n, ttl)
        PROVE  goal
    <2>1. /\ n > pool.oracle_nonce /\ ~pool.paused /\ n \in Nat
          /\ p \in {r \in PriceParams : ParamsOK(r)} /\ ttl \in 0 .. MAX_TTL_SLOTS
          /\ slot \in Nat
          /\ pool' = [pool EXCEPT !.params = p, !.last_oracle_update_slot = slot,
                                  !.oracle_nonce = n, !.current_mode_ttl = ttl]
      BY <1>2, PoolConstants, CurveConstants
      DEF UpdateOracle, NonceAdvances, OracleArgsOK, TypeOK
    <2> QED  BY <1>0, <2>1 DEF PoolStates
  <1>3. ASSUME NEW k \in Signers, NEW p \in BOOLEAN, SetPaused(k, p) PROVE goal
    <2>1. pool' = [pool EXCEPT !.paused = p]  BY <1>3 DEF SetPaused
    <2> QED  BY <1>0, <2>1 DEF PoolStates
  <1>4. ASSUME NEW k \in Signers, NEW new \in NewKeys, RotateOracleSigner(k, new)
        PROVE  goal
    <2>1. pool' = [pool EXCEPT !.authorized_oracle_signer = new] /\ new \in Keys
      BY <1>4, PoolConstants DEF RotateOracleSigner
    <2> QED  BY <1>0, <2>1 DEF PoolStates
  <1>5. ASSUME NEW k \in Signers, NEW new \in NewKeys, RotateQuoteSigner(k, new)
        PROVE  goal
    <2>1. pool' = [pool EXCEPT !.authorized_quote_signer = new] /\ new \in Keys
      BY <1>5, PoolConstants DEF RotateQuoteSigner
    <2> QED  BY <1>0, <2>1 DEF PoolStates
  <1>6. ASSUME NEW new \in Keys, pool' = [pool EXCEPT !.admin = new] PROVE goal
    BY <1>0, <1>6 DEF PoolStates
  <1>7. ASSUME NEW k \in Signers, NEW new \in NewKeys, RotateAdmin(k, new) PROVE goal
    BY <1>6, <1>7, PoolConstants DEF RotateAdmin
  <1>8. ASSUME NEW k \in Signers, AcceptAdmin(k) PROVE goal
    BY <1>6, <1>8 DEF AcceptAdmin, Signers
  <1>9. ASSUME NEW u \in Signers, NEW side \in Sides, NEW x \in Amounts,
               NEW min \in MinOutputs, CurveSwap(u, side, x, min)
        PROVE  goal
    BY <1>1, <1>9 DEF CurveSwap
  <1>10. ASSUME NEW u \in Signers, NEW side \in Sides, NEW x \in Amounts,
                NEW min \in MinOutputs, NEW q \in Quotes, RfqSwap(u, side, x, min, q)
         PROVE  goal
    BY <1>1, <1>10 DEF RfqSwap
  <1>11. ASSUME NEW m \in markers, CloseExpiredNonce(m) PROVE goal
    BY <1>1, <1>11 DEF CloseExpiredNonce
  <1>12. ASSUME NEW k \in Signers, NEW new \in NewKeys, ProposeAdmin(k, new) PROVE goal
    BY <1>1, <1>12 DEF ProposeAdmin
  <1>13. ASSUME NEW k \in Signers, CancelAdminProposal(k) PROVE goal
    BY <1>1, <1>13 DEF CancelAdminProposal
  <1>14. ASSUME NEW k \in Signers, NEW b \in Amounts, NEW c \in Amounts,
                AdminWithdrawInventory(k, b, c) \/ Deposit(k, b, c)
         PROVE  goal
    BY <1>1, <1>14 DEF AdminWithdrawInventory, Deposit
  <1>15. CASE Tick \/ ForkRollback  BY <1>1, <1>15 DEF Tick, ForkRollback
  <1>16. ASSUME NEW k \in Signers, NEW o \in NewKeys, NEW s \in NewKeys,
                NEW p \in ParamInputs, NEW ttl \in TtlInputs, InitPool(k, o, s, p, ttl)
         PROVE  goal
    BY <1>16 DEF InitPool
  <1>17. goal
    BY <1>2, <1>3, <1>4, <1>5, <1>7, <1>8, <1>9, <1>10, <1>11, <1>12, <1>13, <1>14,
       <1>15, <1>16 DEF Next
  <1> QED  BY <1>17

(* Prices change only together with a higher nonce: an oracle update is    *)
(* applied once, and never after a later one.                              *)
THEOREM OracleNeverGoesBack == Spec => OracleMonotone
  <1> DEFINE A == Allocated =>
                    /\ Allocated'
                    /\ \/ pool'.oracle_nonce > pool.oracle_nonce
                       \/ /\ pool'.oracle_nonce = pool.oracle_nonce
                          /\ pool'.params = pool.params
                          /\ pool'.current_mode_ttl = pool.current_mode_ttl
                          /\ pool'.last_oracle_update_slot = pool.last_oracle_update_slot
  <1>1. ASSUME TypeOK, [Next]_vars PROVE [A]_vars
    <2> SUFFICES ASSUME Next PROVE A  BY <1>1
    <2> QED  BY <1>1, PoolStepCases, PoolAllocated DEF Allocated
  <1>2. TypeOK /\ [Next]_vars => [A]_vars  BY <1>1
  <1> QED  BY <1>2, TypeCorrect, PTL DEF Spec, OracleMonotone

(* While the pool is paused only its admin can receive tokens, and its     *)
(* price does not move.                                                    *)
THEOREM PauseStopsTrading == Spec => KillSwitch
  <1> DEFINE noGain == \A k \in Keys \ {pool.admin} :
                          base'[k] <= base[k] /\ quote'[k] <= quote[k]
             A == Allocated /\ pool.paused =>
                    /\ noGain
                    /\ pool'.params = pool.params
                    /\ pool'.oracle_nonce = pool.oracle_nonce
  <1>1. ASSUME TypeOK, [Next]_vars PROVE [A]_vars
    <2> SUFFICES ASSUME Next, Allocated, pool.paused
                 PROVE  /\ noGain
                        /\ pool'.params = pool.params
                        /\ pool'.oracle_nonce = pool.oracle_nonce
      BY <1>1
    <2>1. pool'.params = pool.params /\ pool'.oracle_nonce = pool.oracle_nonce
      BY <1>1, PoolStepCases
    <2>2. /\ base \in [Holders -> Nat] /\ quote \in [Holders -> Nat]
          /\ Vault \notin Keys /\ Keys \subseteq Holders /\ Amounts \subseteq Nat
      BY <1>1, PoolConstants DEF TypeOK, Holders
    <2>3. ASSUME UNCHANGED balances PROVE noGain
      BY <2>2, <2>3 DEF balances
    <2>4. ASSUME NEW k \in Signers, NEW b \in Amounts, NEW c \in Amounts,
                 AdminWithdrawInventory(k, b, c)
          PROVE  noGain
      BY <2>2, <2>4 DEF AdminWithdrawInventory, AdminSigns, Moved
    <2>5. ASSUME NEW k \in Signers, NEW b \in Amounts, NEW c \in Amounts, Deposit(k, b, c)
          PROVE  noGain
      BY <2>2, <2>5 DEF Deposit, Moved, Signers
    <2>6. ASSUME NEW u \in Signers, NEW side \in Sides, NEW x \in Amounts,
                 NEW min \in MinOutputs,
                 CurveSwap(u, side, x, min) \/ \E q \in Quotes : RfqSwap(u, side, x, min, q)
          PROVE  FALSE
      BY <2>6 DEF CurveSwap, RfqSwap, SwapOpen
    <2>7. noGain \/ UNCHANGED balances
      BY <2>4, <2>5, <2>6
      DEF Next, InitPool, UpdateOracle, CloseExpiredNonce, SetPaused, RotateOracleSigner,
          RotateQuoteSigner, RotateAdmin, ProposeAdmin, AcceptAdmin, CancelAdminProposal,
          Tick, ForkRollback
    <2> QED  BY <2>1, <2>3, <2>7
  <1>2. TypeOK /\ [Next]_vars => [A]_vars  BY <1>1
  <1> QED  BY <1>2, TypeCorrect, PTL DEF Spec, KillSwitch

----------------------------------------------------------------------------
(* Stale proposals.                                                        *)

(* Who made the standing proposal: the admin of now, until the admin       *)
(* changes; from then on a key that has lost the role at least once.       *)
ProposalHistory ==
    \A r \in proposal :
        /\ Allocated
        /\ IF adminMoved THEN r.proposed_by \in formerAdmins ELSE r.proposed_by = pool.admin

(* Every step keeps that history. *)
LEMMA HistoryStep == TypeOK /\ ProposalHistory /\ [Next]_vars => ProposalHistory'
  <1> SUFFICES ASSUME TypeOK, ProposalHistory, [Next]_vars PROVE ProposalHistory'
    OBVIOUS
  <1>0. CASE UNCHANGED vars  BY <1>0 DEF vars, ProposalHistory, Allocated
  <1> SUFFICES ASSUME Next PROVE ProposalHistory'  BY <1>0
  <1>1. Allocated => /\ pool \in PoolStates /\ pool' \in PoolStates
                     /\ Allocated'
    BY PoolStepCases, PoolAllocated DEF TypeOK, Allocated
  <1>2. ASSUME proposal' = {} PROVE ProposalHistory'  BY <1>2 DEF ProposalHistory
  <1>3. ASSUME UNCHANGED <<proposal, adminMoved, formerAdmins>>,
               Allocated => pool'.admin = pool.admin
        PROVE  ProposalHistory'
    BY <1>1, <1>3 DEF ProposalHistory
  <1>4. ASSUME UNCHANGED <<pool, proposal, adminHist>> PROVE ProposalHistory'
    BY <1>3, <1>4 DEF adminHist
  <1>5. ASSUME NEW new \in Keys, Allocated, RecordHandover(new), UNCHANGED proposal,
               pool' = [pool EXCEPT !.admin = new]
        PROVE  ProposalHistory'
    <2>1. pool'.admin = new  BY <1>1, <1>5 DEF PoolStates
    <2> QED  BY <1>1, <1>5, <2>1 DEF ProposalHistory, RecordHandover
  <1>6. ASSUME NEW k \in Signers, NEW o \in NewKeys, NEW s \in NewKeys,
               NEW p \in ParamInputs, NEW ttl \in TtlInputs, InitPool(k, o, s, p, ttl)
        PROVE  ProposalHistory'
    BY <1>6 DEF InitPool, ProposalHistory
  <1>7. ASSUME NEW k \in Signers, NEW new \in NewKeys, RotateAdmin(k, new)
        PROVE  ProposalHistory'
    BY <1>5, <1>7, PoolConstants DEF RotateAdmin, AdminSigns
  <1>8. ASSUME NEW k \in Signers, NEW new \in NewKeys, ProposeAdmin(k, new)
        PROVE  ProposalHistory'
    BY <1>1, <1>8 DEF ProposeAdmin, AdminSigns, ProposalHistory
  <1>9. ASSUME NEW k \in Signers, AcceptAdmin(k) \/ CancelAdminProposal(k)
        PROVE  ProposalHistory'
    BY <1>2, <1>9 DEF AcceptAdmin, CancelAdminProposal
  <1>10. ASSUME NEW k \in Signers, NEW p \in ParamInputs, NEW n \in 0 .. MaxNonce,
                NEW ttl \in TtlInputs, UpdateOracle(k, p, n, ttl)
         PROVE  ProposalHistory'
    <2>1. pool'.admin = pool.admin  BY <1>1, <1>10 DEF UpdateOracle, PoolStates
    <2> QED  BY <1>3, <1>10, <2>1 DEF UpdateOracle, adminHist
  <1>11. ASSUME NEW k \in Signers, NEW p \in BOOLEAN, SetPaused(k, p) PROVE ProposalHistory'
    <2>1. pool'.admin = pool.admin  BY <1>1, <1>11 DEF SetPaused, AdminSigns, PoolStates
    <2> QED  BY <1>3, <1>11, <2>1 DEF SetPaused, adminHist
  <1>12. ASSUME NEW k \in Signers, NEW new \in NewKeys,
                RotateOracleSigner(k, new) \/ RotateQuoteSigner(k, new)
         PROVE  ProposalHistory'
    <2>1. pool'.admin = pool.admin
      BY <1>1, <1>12 DEF RotateOracleSigner, RotateQuoteSigner, AdminSigns, PoolStates
    <2> QED  BY <1>3, <1>12, <2>1 DEF RotateOracleSigner, RotateQuoteSigner, adminHist
  <1>13. ASSUME \/ \E u \in Signers, side \in Sides, x \in Amounts, min \in MinOutputs :
                      CurveSwap(u, side, x, min) \/ \E q \in Quotes : RfqSwap(u, side, x, min, q)
                \/ \E m \in markers : CloseExpiredNonce(m)
                \/ \E k \in Signers, b, c \in Amounts :
                      AdminWithdrawInventory(k, b, c) \/ Deposit(k, b, c)
                \/ Tick \/ ForkRollback
         PROVE  ProposalHistory'
    BY <1>4, <1>13 DEF CurveSwap, RfqSwap, CloseExpiredNonce, AdminWithdrawInventory, Deposit,
                       Tick, ForkRollback
  <1> QED
    BY <1>6, <1>7, <1>8, <1>9, <1>10, <1>11, <1>12, <1>13 DEF Next

(* A proposal that outlived its admin is accepted only if the key that     *)
(* made it lost the role and holds it again.                               *)
THEOREM StaleProposalsRejected == Spec => StaleOnlyAfterReturn
  <1>1. Init => ProposalHistory  BY DEF Init, ProposalHistory
  <1>2. Spec => []ProposalHistory  BY <1>1, HistoryStep, TypeCorrect, PTL DEF Spec
  <1> DEFINE A == \A k \in Signers :
                     AcceptAdmin(k) /\ adminMoved => pool.admin \in formerAdmins
  <1>3. ProposalHistory /\ [Next]_vars => [A]_vars
    BY DEF ProposalHistory, AcceptAdmin, ProposalStands
  <1> QED  BY <1>2, <1>3, PTL DEF Spec, StaleOnlyAfterReturn

----------------------------------------------------------------------------
(* The pool implements the settlement desk.                                *)

(* One transfer of the pool is one shift of the desk. *)
LEMMA MovedIsShift ==
    ASSUME NEW bal \in [Holders -> Nat], NEW from \in Holders, NEW to \in Holders,
           from # to, NEW amount \in Nat
    PROVE  LET newBal == Moved(bal, from, to, amount)
           IN  /\ Desk!Shift(bal, newBal, from, to)
               /\ bal[from] - newBal[from] = amount
               /\ newBal[to] - bal[to] = amount
  <1> DEFINE newBal == Moved(bal, from, to, amount)
  <1>1. /\ newBal[from] = bal[from] - amount /\ newBal[to] = bal[to] + amount
        /\ bal[from] \in Nat /\ bal[to] \in Nat
    BY DEF Moved
  <1>2. newBal = [bal EXCEPT ![from] = @ - amount, ![to] = @ + amount]  BY DEF Moved
  <1> HIDE DEF newBal
  <1>3. bal[from] - newBal[from] = amount /\ newBal[to] - bal[to] = amount  BY <1>1
  <1>4. Desk!Shift(bal, newBal, from, to)
    <2>1. newBal = [bal EXCEPT ![from] = @ - (bal[from] - newBal[from]),
                               ![to] = @ + (bal[from] - newBal[from])]
      BY <1>2, <1>3
    <2>2. 0 <= bal[from] - newBal[from]  BY <1>3
    <2> QED  BY <2>1, <2>2 DEF Desk!Shift
  <1> QED  BY <1>3, <1>4 DEF newBal

(* A settlement is an exchange of the input for the output at the price.   *)
LEMMA SettleIsExchange ==
    ASSUME TypeOK, NEW user \in Keys, NEW side \in Sides, NEW input \in Nat,
           NEW min_output \in Nat, NEW price \in Nat,
           Settle(user, side, input, min_output, price)
    PROVE  /\ Desk!Exchange(user, side)
           /\ Desk!Pays(user, side) = input
           /\ Desk!Receives(user, side) = OutputAmount(side, input, price)
  <1>1. /\ user \in Holders /\ Vault \in Holders /\ user # Vault
        /\ base \in [Holders -> Nat] /\ quote \in [Holders -> Nat]
    BY PoolConstants DEF Holders, TypeOK
  <1> DEFINE out == OutputAmount(side, input, price)
  <1>2. out \in Nat  BY OutputBounds DEF Settle, OutputOk, Sides
  <1> HIDE DEF out
  <1>3. CASE side = "Buy"
    <2>1. quote' = Moved(quote, user, Vault, input) /\ base' = Moved(base, Vault, user, out)
      BY <1>3 DEF Settle, out
    <2>2. Desk!Shift(quote, quote', user, Vault) /\ quote[user] - quote'[user] = input
      BY <1>1, <2>1, MovedIsShift
    <2>3. Desk!Shift(base, base', Vault, user) /\ base'[user] - base[user] = out
      BY <1>1, <1>2, <2>1, MovedIsShift
    <2> QED  BY <1>3, <2>2, <2>3 DEF Desk!Exchange, Desk!Pays, Desk!Receives, out
  <1>4. CASE side = "Sell"
    <2>1. base' = Moved(base, user, Vault, input) /\ quote' = Moved(quote, Vault, user, out)
      BY <1>4 DEF Settle, out
    <2>2. Desk!Shift(base, base', user, Vault) /\ base[user] - base'[user] = input
      BY <1>1, <2>1, MovedIsShift
    <2>3. Desk!Shift(quote, quote', Vault, user) /\ quote'[user] - quote[user] = out
      BY <1>1, <1>2, <2>1, MovedIsShift
    <2> QED  BY <1>4, <2>2, <2>3 DEF Desk!Exchange, Desk!Pays, Desk!Receives, out
  <1> QED  BY <1>3, <1>4 DEF Sides

(* Every step of the pool is a step of the desk or leaves it as it is.     *)
LEMMA DeskStep ==
    ASSUME ReplayInv, [Next]_vars
    PROVE  [Desk!Next]_(Desk!vars)
  <1> USE PoolConstants
  <1> DEFINE halted == Allocated /\ pool.paused
             operator == IF Allocated THEN pool.admin ELSE ZeroKey
             still == UNCHANGED <<fillCount, halted, operator, slot>>
  <1>0. TypeOK /\ TypeOK'  BY TypeStep DEF ReplayInv
  <1>1. /\ base \in [Holders -> Nat] /\ quote \in [Holders -> Nat]
        /\ Vault \in Holders /\ Vault \notin Keys /\ Keys \subseteq Holders
        /\ operator \in Keys /\ operator' \in Keys
    BY <1>0 DEF TypeOK, Holders, Allocated, PoolStates
  <1>2. ASSUME NEW u \in Signers, NEW side \in Sides, NEW x \in Amounts,
               NEW min \in MinOutputs, CurveSwap(u, side, x, min)
        PROVE  Desk!Next
    <2> DEFINE price == Evaluate(pool.params, side, x, base[Vault], quote[Vault])
    <2>1. price \in Nat  BY <1>0, <1>2, CurvePriceType DEF CurveSwap, SwapOpen
    <2>2. Settle(u, side, x, min, price) /\ u \in Keys /\ x \in Nat /\ min \in Nat
      BY <1>2 DEF CurveSwap, Signers
    <2> HIDE DEF price
    <2>3. Desk!Exchange(u, side) /\ Desk!Pays(u, side) = x
      BY <1>0, <2>1, <2>2, SettleIsExchange
    <2>4. ~halted /\ x > 0  BY <1>2, <2>2 DEF CurveSwap, SwapOpen
    <2>5. still  BY <1>2 DEF CurveSwap, clock, Allocated
    <2>6. Desk!Trade(u, side)  BY <2>3, <2>4, <2>5 DEF Desk!Trade
    <2> QED  BY <2>2, <2>6 DEF Desk!Next, Desk!Sides, Sides
  <1>3. ASSUME NEW u \in Signers, NEW side \in Sides, NEW x \in Amounts,
               NEW min \in MinOutputs, NEW q \in Quotes, RfqSwap(u, side, x, min, q)
        PROVE  Desk!Next
    <2>1. /\ q.price \in Nat /\ u \in Keys /\ x \in Nat /\ min \in Nat
          /\ Settle(u, side, x, min, q.price)
      BY <1>3 DEF RfqSwap, SignedQuotes, Signers
    <2>2. q.user = u /\ q.direction = side /\ q.input_amount = x /\ slot <= q.expiry_slot
      BY <1>3 DEF RfqSwap, QuoteValid
    <2>3. /\ Desk!Exchange(u, side) /\ Desk!Pays(u, side) = x
          /\ Desk!Receives(u, side) = OutputAmount(side, x, q.price)
      BY <1>0, <2>1, SettleIsExchange
    <2>4. fillCount[q] = 0 /\ fillCount' = [fillCount EXCEPT ![q] = 1]
      <3>1. fillCount[q] = 0  BY <1>3, FirstFill
      <3> QED  BY <1>3, <3>1 DEF RfqSwap
    <2>5. ~halted /\ UNCHANGED <<halted, operator, slot>>
      BY <1>3 DEF RfqSwap, SwapOpen, clock, Allocated
    <2>6. Desk!OutputAmount(side, x, q.price) = OutputAmount(side, x, q.price)
      BY DEF OutputAmount, Desk!OutputAmount, MulDivFloor, Desk!MulDivFloor
    <2>7. Desk!Honour(q)  BY <2>2, <2>3, <2>4, <2>5, <2>6 DEF Desk!Honour
    <2> QED  BY <2>7 DEF Desk!Next
  <1>4. ASSUME NEW k \in Signers, NEW b \in Amounts, NEW c \in Amounts,
               AdminWithdrawInventory(k, b, c)
        PROVE  Desk!Next
    <2>1. /\ base' = Moved(base, Vault, operator, b) /\ quote' = Moved(quote, Vault, operator, c)
          /\ b \in Nat /\ c \in Nat
      BY <1>4 DEF AdminWithdrawInventory, AdminSigns
    <2>2. still  BY <1>4 DEF AdminWithdrawInventory, clock, Allocated
    <2> HIDE DEF operator
    <2>3. /\ Desk!Shift(base, base', Vault, operator)
          /\ Desk!Shift(quote, quote', Vault, operator)
      BY <1>1, <2>1, MovedIsShift
    <2>4. Desk!Carry(Vault, operator)  BY <2>2, <2>3 DEF Desk!Carry, operator
    <2> QED  BY <2>4 DEF Desk!Next, operator
  <1>5. ASSUME NEW k \in Signers, NEW b \in Amounts, NEW c \in Amounts, Deposit(k, b, c)
        PROVE  Desk!Next
    <2>1. /\ base' = Moved(base, k, Vault, b) /\ quote' = Moved(quote, k, Vault, c)
          /\ b \in Nat /\ c \in Nat /\ k \in Keys
      BY <1>5 DEF Deposit, Signers
    <2>2. Desk!Shift(base, base', k, Vault) /\ Desk!Shift(quote, quote', k, Vault)
      BY <1>1, <2>1, MovedIsShift
    <2>3. still  BY <1>5 DEF Deposit, clock, Allocated
    <2>4. Desk!Carry(k, Vault)  BY <2>2, <2>3 DEF Desk!Carry
    <2> QED  BY <2>1, <2>4 DEF Desk!Next
  <1>6. ASSUME Tick \/ ForkRollback PROVE Desk!Next
    <2>1. slot' \in Nat  BY <1>0, CurveConstants DEF TypeOK
    <2>2. UNCHANGED <<base, quote, fillCount, halted, operator>>
      BY <1>6 DEF Tick, ForkRollback, balances, Allocated
    <2> QED  BY <2>1, <2>2 DEF Desk!Next
  <1>7. ASSUME UNCHANGED <<balances, fillCount, clock>> PROVE Desk!Next
    <2>1. halted' \in BOOLEAN
      BY <1>0 DEF TypeOK, Allocated, PoolStates
    <2> HIDE DEF halted, operator
    <2>2. UNCHANGED <<base, quote, fillCount, slot>>  BY <1>7 DEF balances, clock
    <2> QED  BY <1>1, <2>1, <2>2 DEF Desk!Next, halted, operator
  <1>8. CASE UNCHANGED vars
    BY <1>8 DEF vars, Desk!vars, Allocated
  <1>9. CASE \/ \E k \in Signers, o, s \in NewKeys, p \in ParamInputs, ttl \in TtlInputs :
                   InitPool(k, o, s, p, ttl)
             \/ \E k \in Signers, p \in ParamInputs, n \in 0 .. MaxNonce, ttl \in TtlInputs :
                   UpdateOracle(k, p, n, ttl)
             \/ \E m \in markers : CloseExpiredNonce(m)
             \/ \E k \in Signers :
                   \/ \E p \in BOOLEAN : SetPaused(k, p)
                   \/ \E new \in NewKeys :
                         \/ RotateOracleSigner(k, new) \/ RotateQuoteSigner(k, new)
                         \/ RotateAdmin(k, new) \/ ProposeAdmin(k, new)
                   \/ AcceptAdmin(k) \/ CancelAdminProposal(k)
    BY <1>7, <1>9
    DEF InitPool, UpdateOracle, CloseExpiredNonce, SetPaused, RotateOracleSigner,
        RotateQuoteSigner, RotateAdmin, ProposeAdmin, AcceptAdmin, CancelAdminProposal
  <1> HIDE DEF still, halted, operator
  <1> QED  BY <1>2, <1>3, <1>4, <1>5, <1>6, <1>8, <1>9 DEF Next

(* The pool implements the settlement desk: exchanges are whole, none      *)
(* happens while halted, a quote is honoured once, on its own terms, and   *)
(* inventory leaves only to the operator.                                  *)
THEOREM PoolImplementsDesk == Spec => ImplementsSettlement
  <1>1. Init => Desk!Init
    BY PoolConstants DEF Init, Desk!Init, Holders, Allocated
  <1>2. ReplayInv /\ [Next]_vars => [Desk!Next]_(Desk!vars)  BY DeskStep
  <1> QED  BY <1>1, <1>2, ReplayInvariant, PTL DEF Spec, ImplementsSettlement, Desk!Spec
----------------------------------------------------------------------------
(* The admin pages.                                                        *)

(* The buttons of the two pages.                                           *)
LEMMA KindsAre ==
    Kinds \subseteq {"set_paused", "rotate_oracle_signer", "rotate_quote_signer",
                     "rotate_admin", "propose_admin", "accept_admin",
                     "cancel_admin_proposal", "withdraw", "deposit"}
  BY DEF Kinds, Ops

(* What an operation of each kind carries.                                 *)
LEMMA OpsAre ==
    ASSUME NEW op \in Ops
    PROVE  /\ op[1] \in Kinds /\ op[2] \in Signers
           /\ op[1] = "set_paused" => op[3] \in BOOLEAN
           /\ op[1] \in {"rotate_oracle_signer", "rotate_quote_signer", "rotate_admin",
                        "propose_admin"} => op[3] \in NewKeys
           /\ op[1] \in {"withdraw", "deposit"} => op[3] \in Moves
  BY DEF Ops, Kinds

(* What the pages submit is an instruction of the program.                 *)
LEMMA RunIsNext == ASSUME NEW op \in Ops, Run(op) PROVE Next
  <1>1. op[2] \in Signers  BY OpsAre
  <1>2. CASE op[1] = "set_paused"  BY <1>1, <1>2, OpsAre DEF Run, Next
  <1>3. CASE op[1] \in {"rotate_oracle_signer", "rotate_quote_signer", "rotate_admin",
                        "propose_admin"}
    BY <1>1, <1>3, OpsAre DEF Run, Next
  <1>4. CASE op[1] \in {"accept_admin", "cancel_admin_proposal"}
    BY <1>1, <1>4 DEF Run, Next
  <1>5. CASE op[1] \in {"withdraw", "deposit"}
    <2>1. op[3].base \in Amounts /\ op[3].quote \in Amounts  BY <1>5, OpsAre DEF Moves
    <2> QED  BY <1>1, <1>5, <2>1 DEF Run, Next
  <1> QED  BY <1>2, <1>3, <1>4, <1>5, OpsAre, KindsAre

(* An instruction that runs meets the checks of Accepts.                   *)
LEMMA RunIsAccepted == ASSUME NEW op \in Ops, Run(op) PROVE Takes(op)
  <1>1. CASE op[1] = "set_paused"
    BY <1>1 DEF Run, Takes, Accepts, chain, SetPaused, AdminSigns, Allocated
  <1>2. CASE op[1] = "rotate_oracle_signer"
    BY <1>2 DEF Run, Takes, Accepts, chain, RotateOracleSigner, AdminSigns, Allocated
  <1>3. CASE op[1] = "rotate_quote_signer"
    BY <1>3 DEF Run, Takes, Accepts, chain, RotateQuoteSigner, AdminSigns, Allocated
  <1>4. CASE op[1] = "rotate_admin"
    BY <1>4 DEF Run, Takes, Accepts, chain, RotateAdmin, AdminSigns, Allocated
  <1>5. CASE op[1] = "propose_admin"
    BY <1>5 DEF Run, Takes, Accepts, chain, ProposeAdmin, AdminSigns, Allocated
  <1>6. CASE op[1] = "accept_admin"
    BY <1>6 DEF Run, Takes, Accepts, chain, AcceptAdmin, ProposalStands, Allocated
  <1>7. CASE op[1] = "cancel_admin_proposal"
    BY <1>7 DEF Run, Takes, Accepts, chain, CancelAdminProposal, AdminSigns, Allocated
  <1>8. CASE op[1] = "withdraw"
    BY <1>8 DEF Run, Takes, Accepts, chain, AdminWithdrawInventory, AdminSigns, Allocated
  <1>9. CASE op[1] = "deposit"
    BY <1>9 DEF Run, Takes, Accepts, chain, Deposit, Allocated
  <1> QED
    BY <1>1, <1>2, <1>3, <1>4, <1>5, <1>6, <1>7, <1>8, <1>9, OpsAre, KindsAre

(* Any instruction leaves at most one proposal, of one key for another.    *)
LEMMA ProposalStep ==
    ASSUME TypeOK, TypeOK', WellProposed(proposal), NEW op \in Ops, Run(op)
    PROVE  WellProposed(proposal')
  <1>1. CASE proposal' \in {proposal, {}}
    BY <1>1 DEF WellProposed
  <1>2. CASE op[1] = "propose_admin"
    BY <1>2 DEF Run, ProposeAdmin, AdminSigns, WellProposed, TypeOK
  <1>3. CASE op[1] # "propose_admin"
    <2>1. proposal' \in {proposal, {}}
      BY <1>3 DEF Run, SetPaused, RotateOracleSigner, RotateQuoteSigner, RotateAdmin,
                  AcceptAdmin, CancelAdminProposal, AdminWithdrawInventory, Deposit
    <2> QED  BY <1>1, <2>1
  <1> QED  BY <1>2, <1>3

(* What a closure builds is an operation of the kind it was opened for.    *)
LEMMA BuiltIsOp ==
    ASSUME NEW d, WellAsked(d), d.kind = "set_paused" => d.paused # None
    PROVE  /\ Built(d) \in Ops
           /\ Built(d)[1] = d.kind /\ Built(d)[2] = d.wallet
           /\ d.kind = "set_paused" => Built(d)[3] = ~d.paused
           /\ d.kind # "set_paused" => Built(d)[3] = d.arg
  <1>1. d.kind \in Kinds /\ d.wallet \in Signers /\ d.arg \in Typed(d.kind)
    BY DEF WellAsked, Closures
  <1>2. CASE d.kind = "set_paused"
    <2>1. d.paused \in BOOLEAN  BY <1>2 DEF WellAsked, Closures
    <2>2. PICK b \in BOOLEAN : b = ~d.paused  OBVIOUS
    <2>3. Built(d) = <<"set_paused", d.wallet, b>>  BY <1>2, <2>2, Zenon DEF Built
    <2>4. <<"set_paused", d.wallet, b>> \in Ops  BY <1>1 DEF Ops
    <2>5. Built(d)[3] = ~d.paused  BY <2>2, <2>3
    <2> QED  BY <1>2, <2>3, <2>4, <2>5
  <1>3. CASE d.kind # "set_paused"
    <2>1. Built(d) = <<d.kind, d.wallet, d.arg>>  BY <1>3 DEF Built
    <2>2. d.kind \in {"rotate_oracle_signer", "rotate_quote_signer", "rotate_admin",
                      "propose_admin", "accept_admin", "cancel_admin_proposal",
                      "withdraw", "deposit"}
      BY <1>1, <1>3, KindsAre
    <2>3. <<d.kind, d.wallet, d.arg>> \in Ops
      BY <1>1, <2>2 DEF Typed, Ops
    <2> QED  BY <1>3, <2>1, <2>3
  <1> QED  BY <1>2, <1>3

(* Running what a closure built does what its dialog announced.            *)
LEMMA RunAnnounced ==
    ASSUME TypeOK, Allocated, NEW d, WellAsked(d),
           d.kind = "set_paused" => d.paused # None, Run(Built(d))
    PROVE  Announced(d)
  <1> DEFINE op == Built(d)
  <1>1. /\ op[1] = d.kind /\ op[2] = d.wallet
        /\ d.kind = "set_paused" => op[3] = ~d.paused
        /\ d.kind # "set_paused" => op[3] = d.arg
    BY BuiltIsOp
  <1>2. d.kind \in Kinds /\ d.wallet \in Signers /\ d.arg \in Typed(d.kind)
    BY DEF WellAsked, Closures
  <1>3. pool \in PoolStates  BY DEF TypeOK, Allocated
  <1>4. Run(op)  OBVIOUS
  <1> HIDE DEF op
  <1>5. CASE d.kind = "set_paused"
    <2>1. pool' = [pool EXCEPT !.paused = op[3]]  BY <1>1, <1>4, <1>5 DEF Run, SetPaused
    <2>2. pool'.paused = op[3]  BY <1>3, <2>1 DEF PoolStates
    <2>3. d.paused \in BOOLEAN  BY <1>5 DEF WellAsked, Closures
    <2>4. op[3] = ~d.paused  BY <1>1, <1>5
    <2>5. pool'.paused # d.paused  BY <2>2, <2>3, <2>4, Zenon
    <2> QED  BY <1>5, <2>5 DEF Announced
  <1>6. CASE d.kind \in {"rotate_oracle_signer", "rotate_quote_signer", "rotate_admin"}
    BY <1>1, <1>3, <1>4, <1>6
    DEF Run, RotateOracleSigner, RotateQuoteSigner, RotateAdmin, Announced, PoolStates
  <1>7. CASE d.kind = "propose_admin"
    BY <1>1, <1>4, <1>7 DEF Run, ProposeAdmin, Announced
  <1>8. CASE d.kind = "accept_admin"
    <2>1. pool'.admin = d.wallet
      BY <1>1, <1>3, <1>4, <1>8 DEF Run, AcceptAdmin, PoolStates
    <2> QED  BY <1>8, <2>1 DEF Announced, WellAsked
  <1>9. CASE d.kind = "cancel_admin_proposal"
    BY <1>1, <1>4, <1>9 DEF Run, CancelAdminProposal, Announced
  <1>10. CASE d.kind \in {"withdraw", "deposit"}
    <2>1. d.arg \in Moves  BY <1>2, <1>10 DEF Typed
    <2>2. d.arg.base \in Nat /\ d.arg.quote \in Nat  BY <2>1, PoolConstants DEF Moves
    <2>3. /\ base \in [Holders -> Nat] /\ quote \in [Holders -> Nat]
          /\ Vault \in Holders /\ d.wallet \in Holders /\ d.wallet # Vault
      BY <1>2, PoolConstants DEF TypeOK, Holders, Signers
    <2>4. CASE d.kind = "withdraw"
      <3>1. /\ base' = Moved(base, Vault, d.wallet, d.arg.base)
            /\ quote' = Moved(quote, Vault, d.wallet, d.arg.quote)
        BY <1>1, <1>4, <2>4 DEF Run, AdminWithdrawInventory
      <3>2. /\ base'[Vault] = base[Vault] - d.arg.base
            /\ quote'[Vault] = quote[Vault] - d.arg.quote
        BY <2>2, <2>3, <3>1 DEF Moved
      <3> QED  BY <2>4, <3>2 DEF Announced
    <2>5. CASE d.kind = "deposit"
      <3>1. /\ base' = Moved(base, d.wallet, Vault, d.arg.base)
            /\ quote' = Moved(quote, d.wallet, Vault, d.arg.quote)
        BY <1>1, <1>4, <2>5 DEF Run, Deposit
      <3>2. /\ base'[Vault] = base[Vault] + d.arg.base
            /\ quote'[Vault] = quote[Vault] + d.arg.quote
        BY <2>2, <2>3, <3>1 DEF Moved
      <3> QED  BY <2>5, <3>2 DEF Announced
    <2> QED  BY <1>10, <2>4, <2>5
  <1> QED  BY <1>2, <1>5, <1>6, <1>7, <1>8, <1>9, <1>10, KindsAre

(* Another instruction on chain, or none.                                  *)
LEMMA ChainStep ==
    ASSUME PagesInv, (\E op \in Ops : Run(op)) \/ UNCHANGED vars
    PROVE  TypeOK' /\ Allocated' /\ WellProposed(proposal')
  <1>1. CASE UNCHANGED vars
    BY <1>1, TypeStep DEF PagesInv, vars, Allocated
  <1>2. ASSUME NEW op \in Ops, Run(op)
        PROVE  TypeOK' /\ Allocated' /\ WellProposed(proposal')
    <2>1. TypeOK /\ Allocated /\ WellProposed(proposal)  BY DEF PagesInv
    <2>2. Next  BY <1>2, RunIsNext
    <2>3. TypeOK'  BY <2>1, <2>2, TypeStep
    <2>4. pool' \in PoolStates  BY <2>1, <2>2, PoolStepCases
    <2> QED  BY <1>2, <2>1, <2>3, <2>4, ProposalStep, PoolAllocated DEF Allocated
  <1> QED  BY <1>1, <1>2

(* What one sequence followed by another is.                               *)
LEMMA ConcatFacts ==
    ASSUME NEW S, NEW s \in Seq(S), NEW t \in Seq(S)
    PROVE  /\ s \o t \in Seq(S) /\ Len(s \o t) = Len(s) + Len(t)
           /\ \A i \in 1 .. Len(s) : (s \o t)[i] = s[i]
           /\ \A i \in 1 .. Len(t) : (s \o t)[Len(s) + i] = t[i]
  OBVIOUS

(* Taking one element out of a sequence leaves elements of it.             *)
LEMMA RemoveAtFacts ==
    ASSUME NEW S, NEW s \in Seq(S), NEW i \in DOMAIN s
    PROVE  /\ RemoveAt(s, i) \in Seq(S)
           /\ \A j \in DOMAIN RemoveAt(s, i) : \E k \in DOMAIN s : RemoveAt(s, i)[j] = s[k]
  <1> DEFINE r == RemoveAt(s, i)
             head == SubSeq(s, 1, i - 1)
             rest == SubSeq(s, i + 1, Len(s))
  <1>1. /\ Len(s) \in Nat /\ i \in 1 .. Len(s)
        /\ head \in Seq(S) /\ Len(head) = i - 1
        /\ rest \in Seq(S) /\ Len(rest) = Len(s) - i
        /\ \A j \in 1 .. i - 1 : head[j] = s[j]
        /\ \A j \in 1 .. Len(s) - i : rest[j] = s[i + j]
    OBVIOUS
  <1>2. r = head \o rest  BY DEF RemoveAt
  <1> HIDE DEF head, rest, r
  <1> DEFINE m == Len(head)
             n == Len(rest)
  <1>3. /\ r \in Seq(S) /\ Len(r) = m + n
        /\ \A j \in 1 .. m : r[j] = head[j]
        /\ \A j \in 1 .. n : r[m + j] = rest[j]
    <2>1. head \in Seq(S) /\ rest \in Seq(S)  BY <1>1
    <2>2. /\ head \o rest \in Seq(S) /\ Len(head \o rest) = m + n
          /\ \A j \in 1 .. m : (head \o rest)[j] = head[j]
          /\ \A j \in 1 .. n : (head \o rest)[m + j] = rest[j]
      BY <2>1, ConcatFacts
    <2> HIDE DEF m, n
    <2> QED  BY <1>2, <2>2, Zenon
  <1>4. ASSUME NEW j \in DOMAIN r PROVE \E k \in DOMAIN s : r[j] = s[k]
    <2>1. /\ DOMAIN s = 1 .. Len(s) /\ Len(s) \in Nat /\ i \in 1 .. Len(s)
          /\ m = i - 1 /\ n = Len(s) - i
      BY <1>1
    <2>2. j \in 1 .. m + n  BY <1>3, <1>4
    <2> HIDE DEF m, n
    <2>3. CASE j <= m
      <3>1. j \in 1 .. m /\ j \in 1 .. i - 1 /\ j \in DOMAIN s  BY <2>1, <2>2, <2>3
      <3>2. r[j] = head[j] /\ head[j] = s[j]  BY <1>1, <1>3, <3>1, Zenon
      <3> QED  BY <3>1, <3>2
    <2>4. CASE j > m
      <3> DEFINE l == j - m
      <3>1. /\ l \in 1 .. n /\ l \in 1 .. Len(s) - i /\ j = m + l
            /\ i + l \in DOMAIN s
        BY <2>1, <2>2, <2>4
      <3> HIDE DEF l
      <3>2. r[m + l] = rest[l] /\ rest[l] = s[i + l]  BY <1>1, <1>3, <3>1, Zenon
      <3>3. r[j] = s[i + l]  BY <3>1, <3>2, Zenon
      <3> QED  BY <3>1, <3>3, Zenon
    <2> QED  BY <2>1, <2>2, <2>3, <2>4
  <1> QED  BY <1>3, <1>4 DEF r

(* The chain moves under pages that rest.                                  *)
LEMMA PagesFrame ==
    ASSUME PagesInv, (\E op \in Ops : Run(op)) \/ UNCHANGED vars,
           UNCHANGED <<reads, browser, sent>>
    PROVE  PagesInv'
  <1>1. TypeOK' /\ Allocated' /\ WellProposed(proposal)'  BY ChainStep
  <1> QED  BY <1>1 DEF PagesInv, reads, browser, sent, WellProposed, WellAsked, WellBuilt

(* A transaction that is dropped, or that moves to where it is forgotten.  *)
LEMMA PagesSettled ==
    ASSUME PagesInv, Settled, UNCHANGED <<vars, view, polls, shown, wallet>>,
           late' \in {late, Append(late, tx)}, late' # late => tx # None
    PROVE  PagesInv'
  <1>1. TypeOK' /\ Allocated' /\ WellProposed(proposal)'  BY ChainStep
  <1>2. /\ late' \in Seq(Transactions)
        /\ \A i \in DOMAIN late' : WellBuilt(late'[i])
    <2>1. CASE late' = late  BY <2>1 DEF PagesInv
    <2>2. CASE late' # late
      <3>1. late' = Append(late, tx) /\ tx \in Transactions /\ WellBuilt(tx)
        BY <2>2 DEF PagesInv
      <3> QED  BY <3>1 DEF PagesInv
    <2> QED  BY <2>1, <2>2
  <1> QED
    BY <1>1, <1>2 DEF PagesInv, Settled, WellProposed, WellAsked, WellBuilt

(* Opening a dialog, or sending a form that asks no one.                   *)
LEMMA PagesOpen ==
    ASSUME PagesInv, NEW kind \in Kinds, NEW arg \in Typed(kind), Open(kind, arg)
    PROVE  PagesInv'
  <1> DEFINE d == Closure(kind, arg)
  <1>1. UNCHANGED vars /\ UNCHANGED <<view, polls, shown, wallet, late>>  BY DEF Open
  <1>2. TypeOK' /\ Allocated' /\ WellProposed(proposal)'  BY <1>1, ChainStep
  <1>3. d \in Closures
    <2>1. arg \in Moves \cup NewKeys \cup {None}  BY DEF Typed
    <2>2. (IF view = None THEN None ELSE view.paused) \in BOOLEAN \cup {None}
      BY DEF PagesInv, PoolStates
    <2>3. (IF shown = None THEN {} ELSE {r.proposed_by : r \in shown}) \in SUBSET Keys
      BY DEF PagesInv, WellProposed, Proposals
    <2>4. wallet \in Signers  BY DEF PagesInv
    <2> QED  BY <2>1, <2>2, <2>3, <2>4, Zenon DEF Closure, Closures
  <1>4. /\ d.kind = kind /\ d.arg = arg /\ d.wallet = wallet
        /\ d.paused = (IF view = None THEN None ELSE view.paused)
        /\ d.proposers = (IF shown = None THEN {} ELSE {r.proposed_by : r \in shown})
    BY DEF Closure
  <1>5. WellAsked(d)
    <2>1. ASSUME kind = "accept_admin" PROVE wallet \notin d.proposers
      <3>1. Offered("accept_admin")  BY <2>1 DEF Open
      <3>2. shown # None /\ \E r \in shown : r.new_admin = wallet
        BY <3>1 DEF Offered
      <3> QED  BY <1>4, <3>2 DEF PagesInv, WellProposed
    <2> QED  BY <1>3, <1>4, <2>1 DEF WellAsked
  <1>6. CASE Asks(kind)
    <2>1. dialog' = d /\ tx' = tx  BY <1>6 DEF Open
    <2> HIDE DEF d
    <2> QED  BY <1>1, <1>2, <1>5, <2>1 DEF PagesInv, WellProposed, WellAsked, WellBuilt
  <1>7. CASE ~Asks(kind)
    <2>1. /\ tx' = [at |-> "built", op |-> Built(d), said |-> d]
          /\ dialog' = dialog
      BY <1>7 DEF Open
    <2>2. d.kind # "set_paused"  BY <1>4, <1>7 DEF Asks
    <2> HIDE DEF d
    <2>3. Built(d) \in Ops  BY <1>5, <2>2, BuiltIsOp
    <2>4. tx' \in Transactions  BY <1>3, <2>1, <2>3 DEF Transactions
    <2>5. WellBuilt(tx')  BY <1>5, <2>1, <2>2 DEF WellBuilt
    <2> QED
      BY <1>1, <1>2, <2>1, <2>4, <2>5 DEF PagesInv, WellProposed, WellAsked
  <1> QED  BY <1>6, <1>7

(* The transaction under way, from the click to the block.                 *)
LEMMA PagesTx ==
    ASSUME PagesInv, Confirm \/ Send \/ Lands
    PROVE  PagesInv'
  <1>1. CASE Confirm
    <2>1. /\ dialog # None /\ dialog.paused # None /\ UNCHANGED <<vars, dialog>>
          /\ tx' = [at |-> "built", op |-> Built(dialog), said |-> dialog]
          /\ UNCHANGED <<view, polls, shown, wallet, late>>
      BY <1>1 DEF Confirm, browser
    <2>2. WellAsked(dialog) /\ dialog \in Closures  BY <2>1 DEF PagesInv, WellAsked
    <2>3. Built(dialog) \in Ops  BY <2>1, <2>2, BuiltIsOp
    <2>4. tx' \in Transactions  BY <2>1, <2>2, <2>3 DEF Transactions
    <2>5. WellBuilt(tx')  BY <2>1, <2>2 DEF WellBuilt
    <2>6. TypeOK' /\ Allocated' /\ WellProposed(proposal)'  BY <2>1, ChainStep
    <2> QED
      BY <2>1, <2>2, <2>4, <2>5, <2>6 DEF PagesInv, WellProposed, WellAsked
  <1>2. CASE Send
    <2>1. CASE Refused
      BY <2>1, PagesSettled DEF Refused
    <2>2. CASE ~Refused
      <3>1. /\ tx # None /\ tx.at = "built" /\ Accepts(chain, tx.op)
            /\ tx' = [at |-> "sent", op |-> tx.op, said |-> tx.said, saw |-> chain]
            /\ UNCHANGED <<vars, reads, browser, late>>
        BY <1>2, <2>2 DEF Send, Takes
      <3>2. chain \in ChainStates
        BY DEF PagesInv, TypeOK, Allocated, WellProposed, chain, ChainStates
      <3>3. tx \in Transactions /\ WellBuilt(tx)  BY <3>1 DEF PagesInv
      <3>4. tx' \in Transactions  BY <3>1, <3>2, <3>3 DEF Transactions
      <3>5. WellBuilt(tx') /\ Accepts(tx'.saw, tx'.op)  BY <3>1, <3>3 DEF WellBuilt
      <3>6. TypeOK' /\ Allocated' /\ WellProposed(proposal)'  BY <3>1, ChainStep
      <3> QED
        BY <3>1, <3>4, <3>5, <3>6
        DEF PagesInv, reads, browser, WellProposed, WellAsked
    <2> QED  BY <2>1, <2>2
  <1>3. CASE Lands
    <2>1. tx # None /\ tx.at = "sent" /\ UNCHANGED <<reads, browser, late>>
      BY <1>3 DEF Lands
    <2>2. /\ tx \in Transactions /\ WellBuilt(tx) /\ Accepts(tx.saw, tx.op)
          /\ tx.op \in Ops
      BY <2>1 DEF PagesInv, Transactions
    <2>3. /\ Run(tx.op) \/ UNCHANGED vars
          /\ \/ tx' = [tx EXCEPT !.at = "executed"]
             \/ tx' = [tx EXCEPT !.at = "overtaken"]
      BY <1>3, <2>2 DEF Lands, Takes
    <2>4. tx' \in Transactions /\ WellBuilt(tx') /\ tx'.at # "sent"
      BY <2>1, <2>2, <2>3 DEF Transactions, WellBuilt
    <2>5. TypeOK' /\ Allocated' /\ WellProposed(proposal)'
      BY <2>2, <2>3, ChainStep
    <2> QED
      BY <2>1, <2>4, <2>5 DEF PagesInv, reads, browser, WellProposed, WellAsked
  <1> QED  BY <1>1, <1>2, <1>3

(* Every step of the pages, of the chain and of the other admins.          *)
LEMMA PagesStep == PagesInv /\ [PagesNext]_pageVars => PagesInv'
  <1> SUFFICES ASSUME PagesInv, [PagesNext]_pageVars PROVE PagesInv'  OBVIOUS
  <1>1. CASE Others
    BY <1>1, PagesFrame DEF Others
  <1>2. CASE \E w \in Signers : SwitchWallet(w)
    <2>1. UNCHANGED vars  BY <1>2 DEF SwitchWallet
    <2> QED
      BY <1>2, <2>1, ChainStep DEF PagesInv, SwitchWallet, sent, WellProposed, WellAsked
  <1>3. CASE PollPool
    <2>1. UNCHANGED vars  BY <1>3 DEF PollPool
    <2> QED
      BY <1>3, <2>1, ChainStep
      DEF PagesInv, PollPool, browser, sent, WellProposed, WellAsked, TypeOK, Allocated
  <1>4. ASSUME NEW a \in polls, PollAnswered(a) \/ PollFails(a) PROVE PagesInv'
    <2>1. UNCHANGED vars  BY <1>4 DEF PollAnswered, PollFails
    <2> QED
      BY <1>4, <2>1, ChainStep
      DEF PagesInv, PollAnswered, PollFails, browser, sent, WellProposed, WellAsked
  <1>5. CASE ReadProposal
    <2>1. UNCHANGED vars  BY <1>5 DEF ReadProposal
    <2> QED
      BY <1>5, <2>1, ChainStep
      DEF PagesInv, ReadProposal, browser, sent, WellProposed, WellAsked
  <1>6. CASE \E kind \in Kinds : \E arg \in Typed(kind) : Open(kind, arg)
    BY <1>6, PagesOpen
  <1>7. CASE Close
    <2>1. UNCHANGED vars  BY <1>7 DEF Close
    <2> QED
      BY <1>7, <2>1, ChainStep DEF PagesInv, Close, sent, WellProposed, WellAsked
  <1>8. CASE Confirm \/ Send \/ Lands  BY <1>8, PagesTx
  <1>9. CASE Confirmed  BY <1>9, PagesSettled DEF Confirmed
  <1>10. CASE Fails  BY <1>10, PagesSettled DEF Fails
  <1>11. ASSUME NEW i \in DOMAIN late, LandsLate(i) PROVE PagesInv'
    <2>1. late \in Seq(Transactions) /\ WellBuilt(late[i])  BY DEF PagesInv
    <2>2. late[i] \in Transactions  BY <2>1
    <2>3. Run(late[i].op) \/ UNCHANGED vars  BY <1>11 DEF LandsLate
    <2>4. late[i].op \in Ops  BY <2>2 DEF Transactions
    <2>5. TypeOK' /\ Allocated' /\ WellProposed(proposal)'  BY <2>3, <2>4, ChainStep
    <2>6. late' = RemoveAt(late, i) /\ UNCHANGED <<reads, browser, tx>>
      BY <1>11 DEF LandsLate
    <2>7. /\ late' \in Seq(Transactions)
          /\ \A j \in DOMAIN late' : \E k \in DOMAIN late : late'[j] = late[k]
      BY <2>1, <2>6, RemoveAtFacts
    <2>8. \A j \in DOMAIN late' : WellBuilt(late'[j])  BY <2>7 DEF PagesInv
    <2> QED
      BY <2>5, <2>6, <2>7, <2>8
      DEF PagesInv, reads, browser, WellProposed, WellAsked, WellBuilt
  <1>12. CASE UNCHANGED pageVars
    BY <1>12, PagesFrame DEF pageVars
  <1> QED
    BY <1>1, <1>2, <1>3, <1>4, <1>5, <1>6, <1>7, <1>8, <1>9, <1>10, <1>11, <1>12
    DEF PagesNext

(* The pages start empty in front of a pool.                               *)
LEMMA PagesStart == PagesInit => PagesInv
  <1> SUFFICES ASSUME PagesInit PROVE PagesInv  OBVIOUS
  <1> USE DEF PagesInit
  <1>1. pool \in PoolStates
    <2>1. PICK p \in ParamInputs, ttl \in TtlInputs :
            /\ OracleArgsOK(p, ttl)
            /\ pool = [admin |-> FirstAdmin, authorized_oracle_signer |-> FirstAdmin,
                       authorized_quote_signer |-> FirstAdmin, params |-> p,
                       last_oracle_update_slot |-> 0, oracle_nonce |-> 0,
                       current_mode_ttl |-> ttl, paused |-> FALSE]
      OBVIOUS
    <2> QED  BY <2>1, AdminPagesConstants, PoolConstants DEF PoolStates, Signers, OracleArgsOK
  <1>2. TypeOK
    <2>1. base \in [Holders -> Nat] /\ quote \in [Holders -> Nat]
      BY PoolConstants DEF Holders
    <2>2. 0 \in 0 .. MaxSlot  BY PoolConstants, CurveConstants
    <2> QED  BY <1>1, <2>1, <2>2 DEF TypeOK
  <1>3. wallet \in Signers  BY <1>1, AdminPagesConstants DEF Signers
  <1>4. WellProposed(proposal) /\ Allocated
    BY <1>1, PoolAllocated DEF WellProposed, Allocated
  <1>5. late = << >> /\ << >> \in Seq(Transactions)  OBVIOUS
  <1> QED  BY <1>1, <1>2, <1>3, <1>4, <1>5 DEF PagesInv

(* The inductive invariant of the admin pages.                             *)
THEOREM PagesInvariant == PagesSpec => []PagesInv
  BY PagesStart, PagesStep, PTL DEF PagesSpec

(* DoesWhatItSaid: what the dialog or the form announced is what happens   *)
(* on chain, however the views move in between and however late the        *)
(* transaction lands.                                                      *)
THEOREM PagesDoWhatTheySaid == PagesSpec => DoesWhatItSaid
  <1> DEFINE A == /\ Lands => UNCHANGED chain \/ Announced(tx.said)
                  /\ \A i \in DOMAIN late :
                        LandsLate(i) => UNCHANGED chain \/ Announced(late[i].said)
  <1>1. PagesInv /\ [PagesNext]_pageVars => [A]_pageVars
    <2> SUFFICES ASSUME PagesInv PROVE A  OBVIOUS
    <2>1. ASSUME NEW t \in Transactions, WellBuilt(t), Run(t.op) PROVE Announced(t.said)
      BY <2>1, RunAnnounced DEF WellBuilt, PagesInv
    <2>2. UNCHANGED vars => UNCHANGED chain  BY DEF vars, chain
    <2>3. ASSUME Lands PROVE UNCHANGED chain \/ Announced(tx.said)
      BY <2>1, <2>2, <2>3 DEF Lands, PagesInv
    <2>4. ASSUME NEW i \in DOMAIN late, LandsLate(i)
          PROVE  UNCHANGED chain \/ Announced(late[i].said)
      <3>1. late[i] \in Transactions /\ WellBuilt(late[i])  BY DEF PagesInv
      <3> QED  BY <2>1, <2>2, <2>4, <3>1 DEF LandsLate
    <2> QED  BY <2>3, <2>4
  <1>2. PagesSpec => [][A]_pageVars  BY <1>1, PagesInvariant, PTL DEF PagesSpec
  <1> QED  BY <1>2 DEF DoesWhatItSaid

(* SuccessUnlessOvertaken: a transaction whose "succeeded" is untrue was   *)
(* overtaken by another one: what the node's trial run passed would have   *)
(* passed in the same state again.                                         *)
THEOREM SuccessIsTrueUnlessOvertaken == PagesSpec => SuccessUnlessOvertaken
  <1> DEFINE A == Confirmed => tx.at \in {"executed", "overtaken"}
  <1>1. PagesInv /\ [PagesNext]_pageVars => [A]_pageVars
    BY DEF PagesInv, Confirmed, Transactions
  <1>2. PagesSpec => [][A]_pageVars  BY <1>1, PagesInvariant, PTL DEF PagesSpec
  <1> QED  BY <1>2 DEF SuccessUnlessOvertaken

(* NothingLocked: with views up to date there is a button for whatever the *)
(* program would take from the wallet connected.                           *)
THEOREM PagesLockNothing == PagesSpec => []NothingLocked
  <1>1. PagesInv => NothingLocked
    <2> SUFFICES ASSUME PagesInv, view = pool, shown = proposal,
                        NEW op \in Ops, op[2] = wallet, Takes(op)
                 PROVE  Offered(op[1])
      BY DEF NothingLocked
    <2>1. pool \in PoolStates /\ proposal \in SUBSET Proposals
      BY DEF PagesInv, TypeOK, Allocated
    <2>2. view # None /\ shown # None  BY <2>1, AdminPagesConstants
    <2>3. CASE op[1] = "propose_admin"
      BY <2>2, <2>3 DEF Takes, Accepts, chain, Offered
    <2>4. CASE op[1] = "accept_admin"
      BY <2>2, <2>4 DEF Takes, Accepts, chain, Offered
    <2>5. CASE op[1] = "cancel_admin_proposal"
      BY <2>2, <2>5 DEF Takes, Accepts, chain, Offered
    <2>6. CASE op[1] \notin {"propose_admin", "accept_admin", "cancel_admin_proposal"}
      BY <2>2, <2>6 DEF Offered
    <2> QED  BY <2>3, <2>4, <2>5, <2>6
  <1> QED  BY <1>1, PagesInvariant, PTL
=============================================================================
