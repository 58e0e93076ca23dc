-------------------------- MODULE PriceFeedProofs --------------------------
(***************************************************************************)
(* For any staleness limit, delays and TTLs, and any number of polls,      *)
(* events and transactions under way: the age of the price a curve trades  *)
(* at is bounded, and the stream never takes the cached price back.        *)
(***************************************************************************)
EXTENDS PriceFeed, TLAPS

----------------------------------------------------------------------------
(* Time. *)

(* A saturated age grows by at most one, and by one below its cap.         *)
LEMMA AgedBy ==
    ASSUME NEW n \in Nat, NEW cap \in Nat
    PROVE  /\ Aged(n, cap) \in Nat
           /\ n <= Aged(n, cap) /\ Aged(n, cap) <= n + 1
           /\ n < cap => Aged(n, cap) = n + 1
           /\ n >= cap => Aged(n, cap) = n
  BY DEF Aged

(* Ageing keeps the order of two ages.                                     *)
LEMMA AgedMonotone ==
    ASSUME NEW n \in Nat, NEW m \in Nat, NEW cap \in Nat, n >= m
    PROVE  Aged(n, cap) >= Aged(m, cap)
  BY DEF Aged

(* A reading stays one as it ages.                                         *)
LEMMA OlderReadingType ==
    ASSUME NEW r \in Readings
    PROVE  /\ OlderReading(r) \in Readings
           /\ OlderReading(r).age = Aged(r.age, StaleAge)
           /\ StaleAge \in Nat
  <1>1. StaleAge \in Nat  BY FeedConstants DEF StaleAge
  <1>2. Aged(r.age, StaleAge) \in Nat  BY <1>1, AgedBy DEF Readings
  <1> QED  BY <1>1, <1>2 DEF OlderReading, Readings

(* Every bound the ages are compared with is a number.                     *)
LEMMA BoundType == PriceAgeBound(MaxTtl) + MaxRollback + 1 \in Nat
  BY FeedConstants DEF PriceAgeBound

(* A price in the pipeline ages by one at most.                            *)
LEMMA OlderPriceBy ==
    ASSUME NEW n \in Nat
    PROVE  OlderPrice(n) \in Nat /\ OlderPrice(n) <= n + 1
  <1> DEFINE cap == PriceAgeBound(MaxTtl) + MaxRollback + 1
  <1>1. cap \in Nat  BY BoundType
  <1> HIDE DEF cap
  <1>2. Aged(n, cap) \in Nat /\ Aged(n, cap) <= n + 1  BY <1>1, AgedBy
  <1> QED  BY <1>2 DEF OlderPrice, cap

(* A transaction and the update on chain, as TypeOK has them.              *)
TxType == [age : Nat, life : Int, ttl : 0 .. MaxTtl, lost : Nat]
UpdateType == [age : Nat, since : Int, ttl : 0 .. MaxTtl, lost : Nat]

(* A transaction under way ages by one with the slot.                      *)
LEMMA OlderTxBy ==
    ASSUME NEW tx \in TxType
    PROVE  /\ OlderTx(tx) \in TxType
           /\ OlderTx(tx).age \in Nat /\ OlderTx(tx).age <= tx.age + 1
           /\ OlderTx(tx).life = tx.life + 1 /\ OlderTx(tx).lost = tx.lost
  <1>1. tx.age \in Nat /\ tx.life \in Int  BY DEF TxType
  <1>2. OlderPrice(tx.age) \in Nat /\ OlderPrice(tx.age) <= tx.age + 1
    BY <1>1, OlderPriceBy
  <1> QED  BY <1>1, <1>2 DEF OlderTx, TxType

(* A slot lost takes one from the slots a transaction has been under way.  *)
LEMMA SlotLostFrom ==
    ASSUME NEW tx \in TxType
    PROVE  /\ SlotLost(tx) \in TxType /\ SlotLost(tx).age = tx.age
           /\ SlotLost(tx).life = tx.life - 1 /\ SlotLost(tx).lost = tx.lost + 1
  BY DEF SlotLost, TxType

(* The update on chain ages, until nothing can make it young again.        *)
LEMMA OracleTick ==
    ASSUME oracle \in UpdateType, Tick
    PROVE  /\ oracle' \in UpdateType
           /\ \/ /\ oracle'.age <= oracle.age + 1
                 /\ oracle'.since = oracle.since + 1 /\ oracle'.lost = oracle.lost
              \/ oracle' = Outdated
  <1>1. oracle.age \in Nat /\ oracle.since \in Int  BY DEF UpdateType
  <1>2. OlderPrice(oracle.age) \in Nat /\ OlderPrice(oracle.age) <= oracle.age + 1
    BY <1>1, OlderPriceBy
  <1>3. \/ oracle' = [age |-> OlderPrice(oracle.age), since |-> oracle.since + 1,
                      ttl |-> oracle.ttl, lost |-> oracle.lost]
        \/ oracle' = Outdated
    BY DEF Tick
  <1>4. Outdated \in UpdateType  BY FeedConstants DEF Outdated, LongAgo, UpdateType
  <1> QED  BY <1>1, <1>2, <1>3, <1>4 DEF UpdateType

----------------------------------------------------------------------------
(* Types. *)

(* Every entry of the wire is a reading, also after a chunk has been read. *)
LEMMA ReadType ==
    ASSUME TypeOK, NEW n \in 1 .. Len(wire)
    PROVE  /\ wire[n] \in Readings
           /\ SubSeq(wire, n + 1, Len(wire)) \in Seq(Readings)
           /\ Len(SubSeq(wire, n + 1, Len(wire))) = Len(wire) - n
           /\ \A i \in 1 .. Len(wire) - n :
                SubSeq(wire, n + 1, Len(wire))[i] = wire[n + i]
  BY DEF TypeOK

(* One slot later everything is as old as it was, plus one at most.        *)
LEMMA TickType == TypeOK /\ Tick => TypeOK'
  <1> SUFFICES ASSUME TypeOK, Tick PROVE TypeOK'  OBVIOUS
  <1> USE FeedConstants
  <1>1. tick' \in Readings \cup {None}
    BY OlderReadingType DEF Tick, TypeOK
  <1>2. polls' \in [Requests -> Readings \cup {None}]
    BY OlderReadingType DEF Tick, TypeOK
  <1>3. wire' \in Seq(Readings)
    <2>1. \A i \in 1 .. Len(wire) : OlderReading(wire[i]) \in Readings
      BY OlderReadingType DEF TypeOK
    <2>2. Len(wire) \in Nat  BY DEF TypeOK
    <2> QED  BY <2>1, <2>2 DEF Tick
  <1>4. feed' \in Readings  BY OlderReadingType DEF Tick, TypeOK
  <1>5. push' \in [age : Nat, wait : Nat] \cup {None}
    <2>1. CASE push = None  BY <2>1 DEF Tick
    <2>2. CASE push # None
      <3>1. push.age \in Nat /\ push.wait \in Nat /\ push \in [age : Nat, wait : Nat]
        BY <2>2 DEF TypeOK
      <3>2. OlderPrice(push.age) \in Nat /\ push.wait + 1 \in Nat
        BY <3>1, OlderPriceBy
      <3>3. push' = [age |-> OlderPrice(push.age), wait |-> push.wait + 1]
        BY <2>2 DEF Tick
      <3> QED  BY <3>2, <3>3
    <2> QED  BY <2>1, <2>2
  <1>6. inflight' \subseteq TxType
    <2>1. \A tx \in inflight : OlderTx(tx) \in TxType
      BY OlderTxBy DEF TypeOK, TxType
    <2> QED  BY <2>1 DEF Tick
  <1>7. oracle' \in UpdateType  BY OracleTick DEF TypeOK, UpdateType
  <1> QED  BY <1>1, <1>2, <1>3, <1>4, <1>5, <1>6, <1>7 DEF Tick, TypeOK, TxType, UpdateType

(* A rollback takes one from every count of slots.                         *)
LEMMA RollbackType == TypeOK /\ Rollback => TypeOK'
  <1> SUFFICES ASSUME TypeOK, Rollback PROVE TypeOK'  OBVIOUS
  <1>1. \A tx \in inflight : SlotLost(tx) \in TxType
    BY SlotLostFrom DEF TypeOK, TxType
  <1>2. inflight' \subseteq TxType  BY <1>1 DEF Rollback
  <1>3. oracle' \in UpdateType  BY DEF Rollback, TypeOK, UpdateType
  <1> QED  BY <1>2, <1>3 DEF Rollback, TypeOK, TxType, UpdateType, adapter

(* Every step keeps the types.                                             *)
LEMMA TypeStep == TypeOK /\ [Next]_vars => TypeOK'
  <1> SUFFICES ASSUME TypeOK, [Next]_vars PROVE TypeOK'  OBVIOUS
  <1> USE FeedConstants
  <1>1. CASE Start  BY <1>1 DEF Start, TypeOK, chain
  <1>2. CASE PollSend  BY <1>2 DEF PollSend, TypeOK, chain
  <1>3. ASSUME NEW r \in Requests, PollAnswer(r) PROVE TypeOK'
    <2>1. polls[r] \in Readings  BY <1>3 DEF PollAnswer, TypeOK
    <2>2. /\ tick' \in Readings
          /\ polls' \in [Requests -> Readings \cup {None}]
      BY <1>3, <2>1 DEF PollAnswer, TypeOK
    <2>3. /\ stream' \in {"off", "connecting", "open", "dead", "backoff"}
          /\ stream' # "off" => source' = "running" /\ transport' = "sse"
      BY <1>3 DEF PollAnswer, Started, TypeOK
    <2> QED  BY <1>3, <2>2, <2>3 DEF PollAnswer, Started, TypeOK, chain
  <1>4. ASSUME NEW r \in Requests, PollFails(r) PROVE TypeOK'
    <2>1. CASE source = "starting"
      BY <1>4, <2>1 DEF PollFails, Off, NoPolls, TypeOK, chain
    <2>2. CASE source # "starting"
      BY <1>4, <2>2 DEF PollFails, TypeOK, chain
    <2> QED  BY <2>1, <2>2
  <1>5. CASE Connect  BY <1>5 DEF Connect, TypeOK, chain
  <1>6. CASE StreamSend
    <2>1. wire' \in Seq(Readings)  BY <1>6 DEF StreamSend, TypeOK
    <2> QED  BY <1>6, <2>1 DEF StreamSend, TypeOK, chain
  <1>7. CASE StreamRead
    <2>1. wire' \in Seq(Readings) /\ tick' \in Readings
      BY <1>7, ReadType DEF StreamRead
    <2> QED  BY <1>7, <2>1 DEF StreamRead, TypeOK, chain
  <1>8. CASE StreamDies  BY <1>8 DEF StreamDies, TypeOK, chain
  <1>9. CASE StreamEnds  BY <1>9 DEF StreamEnds, TypeOK, chain
  <1>10. CASE Reconnect  BY <1>10 DEF Reconnect, TypeOK, chain
  <1>11. CASE Crash  BY <1>11 DEF Crash, Off, NoPolls, TypeOK, chain
  <1>12. CASE ReadTick
    BY <1>12 DEF ReadTick, Fresh, TypeOK, Readings, chain, adapter
  <1>13. CASE SendTx
    <2>1. push \in [age : Nat, wait : Nat]  BY <1>13 DEF SendTx, TypeOK
    <2> QED  BY <1>13, <2>1 DEF SendTx, TypeOK, adapter
  <1>14. CASE PushFails  BY <1>14 DEF PushFails, TypeOK, chain, adapter
  <1>15. ASSUME NEW tx \in inflight, Land(tx) PROVE TypeOK'
    BY <1>15 DEF Land, TypeOK, adapter
  <1>16. ASSUME NEW tx \in inflight, Dropped(tx) PROVE TypeOK'
    BY <1>16 DEF Dropped, TypeOK, adapter
  <1>17. CASE Publish  BY <1>17 DEF Publish, TypeOK, Readings, chain, adapter
  <1>18. CASE Calm  BY <1>18 DEF Calm, TypeOK, chain, adapter
  <1>19. CASE Tick  BY <1>19, TickType
  <1>20. CASE UNCHANGED vars  BY <1>20 DEF vars, TypeOK, chain, adapter
  <1>21. ASSUME NEW r \in Requests, PollLost(r) PROVE TypeOK'
    BY <1>21 DEF PollLost, TypeOK, chain
  <1>22. CASE Rollback  BY <1>22, RollbackType
  <1> QED
    BY <1>21, <1>22, <1>1, <1>2, <1>3, <1>4, <1>5, <1>6, <1>7, <1>8, <1>9, <1>10, <1>11, <1>12,
       <1>13, <1>14, <1>15, <1>16, <1>17, <1>18, <1>19, <1>20 DEF Next

(* The states of the adapter, the pipeline and the chain are well formed   *)
(* for every limit and delay.                                              *)
THEOREM TypeCorrect == Spec => []TypeOK
  <1>1. Init => TypeOK
    <2> SUFFICES ASSUME Init PROVE TypeOK  OBVIOUS
    <2>1. polls \in [Requests -> Readings \cup {None}]  BY DEF Init, NoPolls
    <2>2. feed \in Readings  BY DEF Init, Readings
    <2>3. oracle \in [age : Nat, since : Int, ttl : 0 .. MaxTtl, lost : Nat]
      BY FeedConstants DEF Init, Outdated, LongAgo
    <2>4. wire \in Seq(Readings) /\ inflight = {}  BY DEF Init
    <2> QED  BY <2>1, <2>2, <2>3, <2>4 DEF Init, TypeOK
  <1> QED  BY <1>1, TypeStep, PTL DEF Spec

----------------------------------------------------------------------------
(* The age of a price. *)

(* A slot adds one to the age of a price and one to the time it has spent  *)
(* at its stage; each stage ends within its delay.                         *)
LEMMA PriceTick == TypeOK /\ PriceInv /\ Tick => PriceInv'
  <1> SUFFICES ASSUME TypeOK, PriceInv, Tick PROVE PriceInv'  OBVIOUS
  <1> USE FeedConstants
  <1>1. ASSUME push' # None
        PROVE  push'.wait <= RpcDelay /\ push'.age <= MaxStaleness + push'.wait
    <2>1. push # None  BY <1>1 DEF Tick
    <2>2. push.age \in Nat /\ push.wait \in Nat  BY <2>1 DEF TypeOK
    <2>3. push.wait < RpcDelay /\ push.age <= MaxStaleness + push.wait
      BY <2>1 DEF PriceInv, Tick
    <2>4. push'.age = OlderPrice(push.age) /\ push'.wait = push.wait + 1
      BY <2>1 DEF Tick
    <2>5. push'.age \in Nat /\ push'.age <= push.age + 1  BY <2>2, <2>4, OlderPriceBy
    <2> QED  BY <2>2, <2>3, <2>4, <2>5
  <1>2. ASSUME NEW new \in inflight'
        PROVE  /\ new.life <= BlockhashLife /\ new.lost <= MaxRollback
               /\ new.age <= MaxStaleness + RpcDelay + new.life + new.lost
    <2>1. PICK tx \in inflight : new = OlderTx(tx)  BY <1>2 DEF Tick
    <2>2. tx \in TxType  BY DEF TypeOK, TxType
    <2>3. tx.age \in Nat /\ tx.life \in Int /\ tx.lost \in Nat  BY <2>2 DEF TxType
    <2>4. /\ tx.life < BlockhashLife /\ tx.lost <= MaxRollback
          /\ tx.age <= MaxStaleness + RpcDelay + tx.life + tx.lost
      BY DEF PriceInv, Tick
    <2>5. /\ new.age \in Nat /\ new.age <= tx.age + 1
          /\ new.life = tx.life + 1 /\ new.lost = tx.lost
      BY <2>1, <2>2, OlderTxBy
    <2> QED  BY <2>3, <2>4, <2>5
  <1>3. /\ \/ oracle'.age <= PriceAgeBound(oracle'.since) + oracle'.lost
           \/ oracle'.since + oracle'.lost > MaxTtl + MaxRollback
        /\ oracle'.lost <= MaxRollback
    <2>1. oracle \in UpdateType /\ oracle' \in UpdateType
      BY OracleTick DEF TypeOK, UpdateType
    <2>2. /\ oracle.age \in Nat /\ oracle.since \in Int /\ oracle.lost \in Nat
          /\ oracle'.age \in Nat
      BY <2>1 DEF UpdateType
    <2>3. CASE oracle' = Outdated  BY <2>3 DEF Outdated, LongAgo
    <2>4. CASE /\ oracle'.age <= oracle.age + 1
               /\ oracle'.since = oracle.since + 1 /\ oracle'.lost = oracle.lost
      BY <2>2, <2>4 DEF PriceInv, PriceAgeBound
    <2> QED  BY <2>1, <2>3, <2>4, OracleTick
  <1> QED  BY <1>1, <1>2, <1>3 DEF PriceInv

(* A slot lost is taken from the time spent and added to the slots lost.   *)
LEMMA PriceRollback == TypeOK /\ PriceInv /\ Rollback => PriceInv'
  <1> SUFFICES ASSUME TypeOK, PriceInv, Rollback PROVE PriceInv'  OBVIOUS
  <1> USE FeedConstants
  <1>1. ASSUME NEW new \in inflight'
        PROVE  /\ new.life <= BlockhashLife /\ new.lost <= MaxRollback
               /\ new.age <= MaxStaleness + RpcDelay + new.life + new.lost
    <2>1. PICK tx \in inflight : new = SlotLost(tx)  BY <1>1 DEF Rollback
    <2>2. tx \in TxType  BY DEF TypeOK, TxType
    <2>3. tx.age \in Nat /\ tx.life \in Int /\ tx.lost \in Nat  BY <2>2 DEF TxType
    <2>4. /\ tx.life <= BlockhashLife /\ tx.lost < MaxRollback
          /\ tx.age <= MaxStaleness + RpcDelay + tx.life + tx.lost
      BY DEF PriceInv, Rollback
    <2>5. /\ new.age = tx.age /\ new.life = tx.life - 1 /\ new.lost = tx.lost + 1
      BY <2>1, <2>2, SlotLostFrom
    <2> QED  BY <2>3, <2>4, <2>5
  <1>2. /\ \/ oracle'.age <= PriceAgeBound(oracle'.since) + oracle'.lost
           \/ oracle'.since + oracle'.lost > MaxTtl + MaxRollback
        /\ oracle'.lost <= MaxRollback
    <2>1. oracle.age \in Nat /\ oracle.since \in Int /\ oracle.lost \in Nat
      BY DEF TypeOK
    <2>2. /\ oracle'.age = oracle.age /\ oracle'.since = oracle.since - 1
          /\ oracle'.lost = oracle.lost + 1 /\ oracle.lost < MaxRollback
      BY DEF Rollback, TypeOK
    <2> QED  BY <2>1, <2>2 DEF PriceInv, PriceAgeBound
  <1>3. push' = push  BY DEF Rollback
  <1> QED  BY <1>1, <1>2, <1>3 DEF PriceInv

(* Only a fresh tick enters the pipeline, and no step inside it makes a    *)
(* price younger.                                                          *)
LEMMA PriceStep == TypeOK /\ PriceInv /\ [Next]_vars => PriceInv'
  <1> SUFFICES ASSUME TypeOK, PriceInv, [Next]_vars PROVE PriceInv'  OBVIOUS
  <1> USE FeedConstants
  <1> DEFINE frame == UNCHANGED <<push, inflight, oracle>>
  <1>1. ASSUME frame PROVE PriceInv'  BY <1>1 DEF PriceInv
  <1>2. ASSUME push' = None, UNCHANGED <<inflight, oracle>> PROVE PriceInv'
    BY <1>2 DEF PriceInv
  <1>3. CASE ReadTick
    <2>1. tick.age \in Nat /\ tick.age <= MaxStaleness
      BY <1>3 DEF ReadTick, Fresh, TypeOK, Readings
    <2>2. push' = [age |-> tick.age, wait |-> 0]  BY <1>3 DEF ReadTick
    <2> QED  BY <1>3, <2>1, <2>2 DEF ReadTick, PriceInv, chain
  <1>4. CASE SendTx
    <2>1. /\ push.age \in Nat /\ push.wait \in Nat
          /\ push.wait <= RpcDelay /\ push.age <= MaxStaleness + push.wait
      BY <1>4 DEF SendTx, TypeOK, PriceInv
    <2>2. PICK ttl \in Ttls :
            inflight' = inflight \cup
                {[age |-> push.age, life |-> 0, ttl |-> ttl, lost |-> 0]}
      BY <1>4 DEF SendTx
    <2>3. \A tx \in inflight' :
            /\ tx.life <= BlockhashLife /\ tx.lost <= MaxRollback
            /\ tx.age <= MaxStaleness + RpcDelay + tx.life + tx.lost
      BY <2>1, <2>2 DEF PriceInv
    <2> QED  BY <1>4, <2>3 DEF SendTx, PriceInv
  <1>5. ASSUME NEW tx \in inflight, Land(tx) PROVE PriceInv'
    <2>1. /\ tx.age \in Nat /\ tx.life \in Int /\ tx.lost \in Nat
          /\ tx.life <= BlockhashLife /\ tx.lost <= MaxRollback
          /\ tx.age <= MaxStaleness + RpcDelay + tx.life + tx.lost
      BY DEF TypeOK, PriceInv
    <2>2. /\ oracle'.age <= PriceAgeBound(oracle'.since) + oracle'.lost
          /\ oracle'.lost <= MaxRollback
      BY <1>5, <2>1 DEF Land, PriceAgeBound
    <2> QED  BY <1>5, <2>2 DEF Land, PriceInv
  <1>6. ASSUME NEW tx \in inflight, Dropped(tx) PROVE PriceInv'
    BY <1>6 DEF Dropped, PriceInv
  <1>7. CASE Tick  BY <1>7, PriceTick
  <1>8. CASE PushFails  BY <1>8, <1>2 DEF PushFails, chain
  <1>9. CASE Crash  BY <1>9, <1>2 DEF Crash, chain
  <1>10. CASE Start \/ PollSend  BY <1>10, <1>1 DEF Start, PollSend, chain
  <1>11. ASSUME NEW r \in Requests, PollAnswer(r) \/ PollFails(r) PROVE PriceInv'
    BY <1>11, <1>1 DEF PollAnswer, PollFails, chain
  <1>12. CASE Connect \/ StreamSend \/ StreamRead
    BY <1>12, <1>1 DEF Connect, StreamSend, StreamRead, chain
  <1>13. CASE StreamDies \/ StreamEnds \/ Reconnect
    BY <1>13, <1>1 DEF StreamDies, StreamEnds, Reconnect, chain
  <1>14. CASE Publish \/ Calm  BY <1>14, <1>1 DEF Publish, Calm, chain
  <1>15. CASE UNCHANGED vars  BY <1>15, <1>1 DEF vars, chain
  <1>16. ASSUME NEW r \in Requests, PollLost(r) PROVE PriceInv'
    BY <1>16, <1>1 DEF PollLost, chain
  <1>17. CASE Rollback  BY <1>17, PriceRollback
  <1> QED
    BY <1>16, <1>17, <1>3, <1>4, <1>5, <1>6, <1>7, <1>8, <1>9, <1>10, <1>11, <1>12, <1>13, <1>14,
       <1>15 DEF Next

(* The stage-by-stage bound on ages holds in every state.                  *)
THEOREM PriceInvariant == Spec => []PriceInv
  <1>1. Init => PriceInv
    BY FeedConstants DEF Init, PriceInv, Outdated, LongAgo
  <1>2. TypeOK /\ PriceInv /\ [Next]_vars => PriceInv'  BY PriceStep
  <1> QED  BY <1>1, <1>2, TypeCorrect, PTL DEF Spec

(* A taker is never served by the curve a price older than the staleness   *)
(* limit, the two delays to the chain, the TTL and the slots lost to forks *)
(* together.                                                               *)
THEOREM CurvePricesAreYoung == Spec => []CurvePriceAge
  <1>1. TypeOK /\ PriceInv => CurvePriceAge
    <2> SUFFICES ASSUME TypeOK, PriceInv, CurveFresh
                 PROVE  oracle.age <= PriceAgeBound(oracle.ttl) + oracle.lost
      BY DEF CurvePriceAge
    <2>1. /\ oracle.age \in Nat /\ oracle.since \in Int /\ oracle.lost \in Nat
          /\ oracle.ttl \in Nat /\ oracle.ttl <= MaxTtl
          /\ oracle.since <= oracle.ttl
      BY FeedConstants DEF TypeOK, CurveFresh
    <2>2. oracle.lost <= MaxRollback  BY DEF PriceInv
    <2>3. oracle.age <= PriceAgeBound(oracle.since) + oracle.lost
      BY <2>1, <2>2, FeedConstants DEF PriceInv
    <2> QED  BY <2>1, <2>3, FeedConstants DEF PriceAgeBound
  <1> QED  BY <1>1, TypeCorrect, PriceInvariant, PTL

----------------------------------------------------------------------------
(* The order of prices. *)

(* A chunk moves the tick to its last event; what stays on the wire is     *)
(* younger still.                                                          *)
LEMMA OrderRead == TypeOK /\ OrderInv /\ StreamRead => OrderInv'
  <1> SUFFICES ASSUME TypeOK, OrderInv, StreamRead PROVE OrderInv'  OBVIOUS
  <1>1. PICK n \in 1 .. Len(wire) :
          tick' = wire[n] /\ wire' = SubSeq(wire, n + 1, Len(wire))
    BY DEF StreamRead
  <1>2. /\ Len(wire') = Len(wire) - n
        /\ \A i \in 1 .. Len(wire) - n : wire'[i] = wire[n + i]
    BY <1>1, ReadType
  <1>3. source = "running" /\ transport = "sse"  BY DEF StreamRead, TypeOK
  <1>4. UNCHANGED <<transport, source, polls, feed>>  BY DEF StreamRead, chain
  <1>5. Len(wire) \in Nat  BY DEF TypeOK
  <1>6. \A i \in 1 .. Len(wire') : n + i \in 1 .. Len(wire) /\ n < n + i
    BY <1>2, <1>5
  <1>7. \A i \in 1 .. Len(wire') : wire'[i] = wire[n + i]  BY <1>2
  <1>8. \A i \in 1 .. Len(wire') : wire'[i].age >= feed'.age
    BY <1>3, <1>4, <1>6, <1>7 DEF OrderInv
  <1>9. \A i \in 1 .. Len(wire') : tick'.age >= wire'[i].age
    BY <1>1, <1>3, <1>6, <1>7 DEF OrderInv
  <1>10. ASSUME NEW i \in 1 .. Len(wire'), NEW j \in 1 .. Len(wire'), i < j
         PROVE  wire'[i].age >= wire'[j].age
    <2>1. n + i < n + j  BY <1>10, <1>2, <1>5
    <2> QED  BY <2>1, <1>3, <1>6, <1>7 DEF OrderInv
  <1>11. tick'.age >= feed'.age  BY <1>1, <1>3, <1>4 DEF OrderInv
  <1> QED  BY <1>3, <1>4, <1>8, <1>9, <1>10, <1>11 DEF OrderInv

(* An event put on the wire is the feed itself, the youngest there is.     *)
LEMMA OrderSend == TypeOK /\ OrderInv /\ StreamSend => OrderInv'
  <1> SUFFICES ASSUME TypeOK, OrderInv, StreamSend PROVE OrderInv'  OBVIOUS
  <1>1. source = "running" /\ transport = "sse"  BY DEF StreamSend, TypeOK
  <1>2. UNCHANGED <<transport, source, tick, polls, feed>>  BY DEF StreamSend, chain
  <1>3. /\ Len(wire') = Len(wire) + 1 /\ Len(wire) \in Nat
        /\ \A i \in 1 .. Len(wire) : wire'[i] = wire[i]
        /\ wire'[Len(wire) + 1] = feed
    BY DEF StreamSend, TypeOK
  <1>4. feed.age \in Nat  BY DEF TypeOK, Readings
  <1>5. \A i \in 1 .. Len(wire') : i \in 1 .. Len(wire) \/ i = Len(wire) + 1
    BY <1>3
  <1>6. \A i \in 1 .. Len(wire') : wire'[i].age >= feed'.age
    BY <1>1, <1>2, <1>3, <1>4, <1>5 DEF OrderInv
  <1>7. ASSUME NEW i \in 1 .. Len(wire'), NEW j \in 1 .. Len(wire'), i < j
        PROVE  wire'[i].age >= wire'[j].age
    <2>1. i \in 1 .. Len(wire)  BY <1>7, <1>3
    <2>2. CASE j \in 1 .. Len(wire)  BY <1>1, <1>3, <1>7, <2>1, <2>2 DEF OrderInv
    <2>3. CASE j = Len(wire) + 1
      BY <1>1, <1>2, <1>3, <2>1, <2>3 DEF OrderInv
    <2> QED  BY <1>5, <2>2, <2>3
  <1>8. ASSUME tick' # None
        PROVE  /\ tick'.age >= feed'.age
               /\ \A i \in 1 .. Len(wire') : tick'.age >= wire'[i].age
    BY <1>1, <1>2, <1>3, <1>5, <1>8 DEF OrderInv
  <1> QED  BY <1>1, <1>2, <1>6, <1>7, <1>8 DEF OrderInv

(* Ageing keeps every order.                                               *)
LEMMA OrderTick == TypeOK /\ OrderInv /\ Tick => OrderInv'
  <1> SUFFICES ASSUME TypeOK, OrderInv, Tick PROVE OrderInv'  OBVIOUS
  <1> USE FeedConstants
  <1>1. \A r, s \in Readings :
          r.age >= s.age => OlderReading(r).age >= OlderReading(s).age
    <2> SUFFICES ASSUME NEW r \in Readings, NEW s \in Readings, r.age >= s.age
                 PROVE  OlderReading(r).age >= OlderReading(s).age
      OBVIOUS
    <2>1. r.age \in Nat /\ s.age \in Nat  BY DEF Readings
    <2>2. StaleAge \in Nat  BY DEF StaleAge
    <2> QED  BY <2>1, <2>2, AgedMonotone DEF OlderReading
  <1>2. UNCHANGED <<transport, source>>  BY DEF Tick
  <1>3. /\ feed \in Readings /\ feed' = OlderReading(feed)
        /\ tick # None => tick \in Readings
        /\ tick' = IF tick = None THEN None ELSE OlderReading(tick)
    BY DEF TypeOK, Tick
  <1>4. /\ Len(wire) \in Nat /\ Len(wire') = Len(wire)
        /\ wire = <<>> => wire' = <<>>
        /\ \A i \in 1 .. Len(wire) :
              wire[i] \in Readings /\ wire'[i] = OlderReading(wire[i])
    BY DEF TypeOK, Tick
  <1>5. \A r \in Requests :
          /\ polls[r] # None => polls[r] \in Readings
          /\ polls'[r] = IF polls[r] = None THEN None ELSE OlderReading(polls[r])
    BY DEF TypeOK, Tick
  <1>6. polls = NoPolls => polls' = NoPolls  BY DEF Tick, NoPolls
  <1>7. source' # "running" => tick' = None /\ wire' = <<>>
    BY <1>2, <1>3, <1>4 DEF OrderInv
  <1>8. ASSUME transport' = "sse"
        PROVE  /\ \A r, s \in Requests : polls'[r] # None /\ polls'[s] # None => r = s
               /\ \A r \in Requests : polls'[r] # None => polls'[r].age >= feed'.age
    BY <1>1, <1>2, <1>3, <1>5, <1>8 DEF OrderInv
  <1>9. ASSUME transport' = "sse"
        PROVE  /\ \A i \in 1 .. Len(wire') : wire'[i].age >= feed'.age
               /\ \A i, j \in 1 .. Len(wire') : i < j => wire'[i].age >= wire'[j].age
    BY <1>1, <1>2, <1>3, <1>4, <1>9 DEF OrderInv
  <1>10. ASSUME transport' = "sse", tick' # None
         PROVE  /\ tick'.age >= feed'.age
                /\ \A i \in 1 .. Len(wire') : tick'.age >= wire'[i].age
    BY <1>1, <1>2, <1>3, <1>4, <1>10 DEF OrderInv
  <1> QED  BY <1>2, <1>6, <1>7, <1>8, <1>9, <1>10 DEF OrderInv

(* The stream begins after the poll, and an adapter that is off holds      *)
(* nothing.                                                                *)
LEMMA OrderStep == TypeOK /\ OrderInv /\ [Next]_vars => OrderInv'
  <1> SUFFICES ASSUME TypeOK, OrderInv, [Next]_vars PROVE OrderInv'  OBVIOUS
  <1> USE FeedConstants
  <1> DEFINE frame == UNCHANGED <<transport, source, tick, polls, wire, feed>>
  <1>1. ASSUME frame PROVE OrderInv'  BY <1>1 DEF OrderInv
  <1>2. ASSUME Off, UNCHANGED <<transport, feed>> PROVE OrderInv'
    <2>1. /\ source' # "running" /\ tick' = None /\ wire' = <<>>
          /\ polls' = NoPolls /\ \A r \in Requests : polls'[r] = None
      BY <1>2 DEF Off, NoPolls
    <2>2. Len(wire') = 0  BY <2>1
    <2> QED  BY <1>2, <2>1, <2>2 DEF OrderInv, Off
  <1>3. ASSUME wire' = <<>>, UNCHANGED <<transport, source, tick, polls, feed>>
        PROVE  OrderInv'
    <2>1. Len(wire') = 0  BY <1>3
    <2> QED  BY <1>3, <2>1 DEF OrderInv
  <1>4. CASE Start
    <2>1. PICK q \in Requests : polls' = [polls EXCEPT ![q] = feed]
      BY <1>4 DEF Start
    <2>2. /\ source' = "starting"
          /\ UNCHANGED <<transport, tick, wire, feed>>
      BY <1>4 DEF Start, chain
    <2>3. tick = None /\ wire = <<>>  BY <1>4 DEF Start, OrderInv
    <2>4. transport = "sse" => \A r \in Requests : polls[r] = None
      BY <1>4 DEF Start, OrderInv, NoPolls
    <2>5. transport = "sse" =>
            \A r \in Requests : polls'[r] # None => r = q /\ polls'[r] = feed
      BY <2>1, <2>4 DEF TypeOK
    <2>6. feed.age \in Nat /\ Len(wire) = 0  BY <2>3 DEF TypeOK, Readings
    <2> QED  BY <2>2, <2>3, <2>5, <2>6 DEF OrderInv
  <1>5. CASE PollSend
    <2>1. transport = "poll" /\ transport' = "poll" /\ source' = "running"
      BY <1>5 DEF PollSend
    <2> QED  BY <2>1 DEF OrderInv
  <1>6. ASSUME NEW q \in Requests, PollAnswer(q) PROVE OrderInv'
    <2>1. source' = "running" /\ UNCHANGED <<transport, wire, feed>>
      BY <1>6 DEF PollAnswer, Started
    <2>2. CASE transport = "poll"  BY <2>1, <2>2 DEF OrderInv
    <2>3. CASE transport = "sse"
      <3>1. polls[q] # None /\ polls[q].age >= feed.age /\ tick' = polls[q]
        BY <1>6, <2>3 DEF PollAnswer, OrderInv
      <3>2. source # "running"  BY <3>1, <2>3 DEF OrderInv, NoPolls
      <3>3. wire = <<>> /\ Len(wire) = 0  BY <3>2 DEF OrderInv
      <3>4. polls' = NoPolls
        BY <1>6, <2>3, <3>1 DEF PollAnswer, OrderInv, NoPolls, TypeOK
      <3> QED  BY <2>1, <2>3, <3>1, <3>3, <3>4 DEF OrderInv, NoPolls
    <2> QED  BY <2>2, <2>3 DEF TypeOK
  <1>7. ASSUME NEW q \in Requests, PollFails(q) PROVE OrderInv'
    <2>1. CASE source = "starting"  BY <1>7, <2>1, <1>2 DEF PollFails, chain
    <2>2. CASE source # "starting"
      <3>1. /\ polls' = [polls EXCEPT ![q] = None]
            /\ UNCHANGED <<transport, source, tick, wire, feed>>
        BY <1>7, <2>2 DEF PollFails
      <3>2. transport = "sse" => polls' = NoPolls
        BY <2>2, <3>1 DEF OrderInv, NoPolls
      <3>3. \A r \in Requests : polls'[r] # None => polls'[r] = polls[r]
        BY <3>1 DEF TypeOK
      <3> QED  BY <3>1, <3>2, <3>3 DEF OrderInv
    <2> QED  BY <2>1, <2>2
  <1>8. CASE Crash  BY <1>8, <1>2 DEF Crash, chain
  <1>9. CASE StreamDies \/ StreamEnds
    BY <1>9, <1>3 DEF StreamDies, StreamEnds, chain
  <1>10. CASE StreamSend  BY <1>10, OrderSend
  <1>11. CASE StreamRead  BY <1>11, OrderRead
  <1>12. CASE Tick  BY <1>12, OrderTick
  <1>13. CASE Publish
    <2>1. /\ feed'.age = 0
          /\ UNCHANGED <<transport, source, tick, polls, wire>>
      BY <1>13 DEF Publish, adapter
    <2>2. \A r \in Readings : r.age >= 0  BY DEF Readings
    <2>3. /\ \A i \in 1 .. Len(wire) : wire[i] \in Readings
          /\ tick # None => tick \in Readings
          /\ \A r \in Requests : polls[r] # None => polls[r] \in Readings
      BY DEF TypeOK
    <2> QED  BY <2>1, <2>2, <2>3 DEF OrderInv
  <1>14. CASE Connect \/ Reconnect
    BY <1>14, <1>1 DEF Connect, Reconnect, chain
  <1>15. CASE ReadTick \/ SendTx \/ PushFails \/ Calm
    BY <1>15, <1>1 DEF ReadTick, SendTx, PushFails, Calm, adapter, chain
  <1>16. ASSUME NEW tx \in inflight, Land(tx) \/ Dropped(tx) PROVE OrderInv'
    BY <1>16, <1>1 DEF Land, Dropped, adapter
  <1>17. CASE UNCHANGED vars  BY <1>17, <1>1 DEF vars, adapter
  <1>18. ASSUME NEW q \in Requests, PollLost(q) PROVE OrderInv'
    <2>1. /\ polls' = [polls EXCEPT ![q] = None]
          /\ UNCHANGED <<transport, source, tick, wire, feed>>
      BY <1>18 DEF PollLost
    <2>2. polls = NoPolls => polls' = NoPolls  BY <2>1 DEF NoPolls
    <2>3. \A r \in Requests : polls'[r] # None => polls'[r] = polls[r]
      BY <2>1 DEF TypeOK
    <2> QED  BY <2>1, <2>2, <2>3 DEF OrderInv
  <1>19. CASE Rollback  BY <1>19, <1>1 DEF Rollback, adapter
  <1> QED
    BY <1>18, <1>19, <1>4, <1>5, <1>6, <1>7, <1>8, <1>9, <1>10, <1>11, <1>12, <1>13, <1>14, <1>15,
       <1>16, <1>17 DEF Next

(* Tick, wire and feed follow one another in age in every state.           *)
THEOREM OrderInvariant == Spec => []OrderInv
  <1>1. Init => OrderInv
    <2> SUFFICES ASSUME Init PROVE OrderInv  OBVIOUS
    <2>1. /\ source # "running" /\ tick = None /\ wire = <<>> /\ Len(wire) = 0
          /\ polls = NoPolls /\ \A r \in Requests : polls[r] = None
      BY DEF Init, NoPolls
    <2> QED  BY <2>1 DEF OrderInv, Init
  <1>2. TypeOK /\ OrderInv /\ [Next]_vars => OrderInv'  BY OrderStep
  <1> QED  BY <1>1, <1>2, TypeCorrect, PTL DEF Spec

(* Over the event stream no step takes the cached price back in time.      *)
THEOREM StreamKeepsOrder == Spec => StreamInOrder
  <1> DEFINE Forward ==
        transport = "sse" /\ tick # None /\ tick' # None
          => tick'.age <= tick.age \/ Tick
  <1>1. TypeOK /\ OrderInv /\ [Next]_vars => [Forward]_vars
    <2> SUFFICES ASSUME TypeOK, OrderInv, Next, transport = "sse", tick # None,
                        tick' # None, ~Tick
                 PROVE  tick'.age <= tick.age
      BY DEF vars
    <2>1. tick.age \in Nat /\ source = "running" /\ polls = NoPolls
      BY DEF TypeOK, OrderInv, Readings
    <2>2. CASE UNCHANGED tick  BY <2>1, <2>2
    <2>3. CASE StreamRead
      <3>1. PICK n \in 1 .. Len(wire) : tick' = wire[n]  BY <2>3 DEF StreamRead
      <3>2. wire[n].age \in Nat  BY ReadType DEF Readings
      <3> QED  BY <2>1, <3>1, <3>2 DEF OrderInv
    <2>4. ASSUME NEW q \in Requests, PollAnswer(q) PROVE FALSE
      BY <2>1, <2>4 DEF PollAnswer, NoPolls
    <2>5. ASSUME NEW q \in Requests, PollFails(q) PROVE FALSE
      BY <2>1, <2>5 DEF PollFails, NoPolls
    <2>6. CASE Crash  BY <2>6 DEF Crash, Off
    <2> QED
      BY <2>2, <2>3, <2>4, <2>5, <2>6
         DEF Next, Start, PollSend, PollLost, Connect, StreamSend, StreamDies, StreamEnds,
             Rollback, Reconnect, ReadTick, SendTx, PushFails, Land, Dropped, Publish, Calm, adapter
  <1> QED  BY <1>1, TypeCorrect, OrderInvariant, PTL DEF Spec, StreamInOrder
=============================================================================
