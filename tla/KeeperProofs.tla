---------------------------- MODULE KeeperProofs ----------------------------
(***************************************************************************)
(* The single writer: for any dwell times, resync schedule, number of      *)
(* faults, crashes and pauses, prices reach the chain in order and without *)
(* gaps until a push that the paused pool refused is taken for a success.  *)
(***************************************************************************)
EXTENDS Keeper, TLAPS

----------------------------------------------------------------------------
(* Types. *)

(* decideMode answers with a mode.                                         *)
LEMMA NextModeType == TypeOK => NextMode \in ModeNames
  BY DEF TypeOK, NextMode, DecideMode, MaxMode, Reactive, Markets, ModeNames, ModeOrder

(* The TTL of a mode is one that update_oracle takes.                      *)
LEMMA TtlType == \A m \in ModeNames : ModeToTtl[m] \in 0 .. MaxTtl
  BY ModesConstants DEF ModeNames, ModeOrder, ModeToTtl

(* The window of a stale source is a time.                                 *)
LEMMA NoteFailureType ==
    ASSUME TypeOK, NEW kind, NoteFailure(kind)
    PROVE  /\ staleFor' \in Nat \cup {None}
           /\ currentMode' \in ModeNames
           /\ sinceChange' \in Nat /\ sinceMode' \in Nat
  BY DEF TypeOK, NoteFailure, StaleSince, ModeNames, ModeOrder

(* Where the worker goes after a push.                                     *)
LEMMA AfterPushType ==
    ASSUME NEW kind, NEW n, AfterPush(kind, n)
    PROVE  pc' \in {"resync", "idle"}
  BY DEF AfterPush

(* A push, sent or skipped, keeps the types.                               *)
LEMMA PushType ==
    ASSUME TypeOK, pc # "sent", NEW mode \in ModeNames,
           NEW kind \in {"boot", "change", "repeat"}, PushOracle(mode, kind),
           lastPushedNonce' = lastPushedNonce, sinceTrigger' \in Nat,
           UNCHANGED <<pool, market>>
    PROVE  TypeOK'
  <1>1. CASE SendPush(mode, kind)
    <2>1. /\ lastPushedNonce + 1 \in Nat /\ sent + 1 \in Nat /\ faults + 1 \in Nat
          /\ ModeToTtl[mode] \in 0 .. MaxTtl
      BY TtlType DEF TypeOK
    <2>2. PICK obs \in {0, sent + 1} :
            push' = [mode |-> mode, kind |-> kind, nonce |-> lastPushedNonce + 1,
                     obs |-> obs, landed |-> FALSE]
      BY <1>1 DEF SendPush
    <2>3. obs \in Nat  BY <2>1
    <2>4. push' \in Pushes  BY <2>1, <2>2, <2>3, Zenon DEF Pushes
    <2>5. pc' = "sent"  BY <1>1 DEF SendPush
    <2>6. inflight' \subseteq Transactions /\ sent' \in Nat
      BY <1>1, <2>1 DEF SendPush, TypeOK, Transactions
    <2>7. faults' \in Nat  BY <1>1, <2>1 DEF SendPush, Fault, TypeOK
    <2> QED
      BY <1>1, <2>4, <2>5, <2>6, <2>7, KeeperConstants
         DEF SendPush, TypeOK, decision, pool
  <1>2. CASE SkipPush(kind)
    <2>1. /\ staleFor' \in Nat \cup {None} /\ currentMode' \in ModeNames
          /\ sinceChange' \in Nat /\ sinceMode' \in Nat
      BY <1>2, NoteFailureType DEF SkipPush
    <2>2. pc' \in {"resync", "idle"}  BY <1>2, AfterPushType DEF SkipPush
    <2> QED  BY <1>2, <2>1, <2>2 DEF SkipPush, TypeOK, pool
  <1> QED  BY <1>1, <1>2 DEF PushOracle

(* Every step keeps the types.                                             *)
LEMMA TypeStep == TypeOK /\ [Next]_vars => TypeOK'
  <1> SUFFICES ASSUME TypeOK, [Next]_vars PROVE TypeOK'  OBVIOUS
  <1> USE KeeperConstants DEF pool
  <1>1. CASE Boot
    BY <1>1 DEF Boot, Fault, TypeOK, Transactions, ModeNames, ModeOrder
  <1>2. CASE InitialPush
    BY <1>2, PushType DEF InitialPush, TypeOK
  <1>3. CASE ChangeMode
    <2>1. sinceTrigger' \in Nat  BY <1>3 DEF ChangeMode, TypeOK
    <2> QED  BY <1>3, <2>1, NextModeType, PushType DEF ChangeMode
  <1>4. CASE RepeatPush
    BY <1>4, PushType DEF RepeatPush, TypeOK
  <1>5. CASE SleepCycle
    <2>1. pc' \in {"resync", "idle"}  BY <1>5, AfterPushType DEF SleepCycle
    <2> QED  BY <1>5, <2>1 DEF SleepCycle, TypeOK, clocks
  <1>6. CASE PushConfirmed
    <2>1. push \in Pushes  BY <1>6 DEF PushConfirmed, TypeOK
    <2>2. pc' \in {"resync", "idle"}  BY <1>6, AfterPushType DEF PushConfirmed
    <2> QED  BY <1>6, <2>1, <2>2 DEF PushConfirmed, TypeOK, Pushes
  <1>7. CASE PushFailed
    <2>1. /\ staleFor' \in Nat \cup {None} /\ currentMode' \in ModeNames
          /\ sinceChange' \in Nat /\ sinceMode' \in Nat
      BY <1>7, NoteFailureType DEF PushFailed
    <2>2. pc' \in {"resync", "idle"}  BY <1>7, AfterPushType DEF PushFailed
    <2>3. failures' \in Nat  BY <1>7 DEF PushFailed, OneMore, TypeOK
    <2> QED  BY <1>7, <2>1, <2>2, <2>3 DEF PushFailed, Fault, TypeOK
  <1>8. CASE ResyncNonceFromChain
    BY <1>8 DEF ResyncNonceFromChain, Fault, TypeOK, clocks, Transactions
  <1>9. CASE Crash
    BY <1>9 DEF Crash, Fault, TypeOK, clocks
  <1>10. ASSUME NEW tx \in inflight, Land(tx) PROVE TypeOK'
    <2>1. push' \in Pushes \cup {None} /\ (push' # None <=> push # None)
      BY <1>10 DEF Land, TypeOK, Pushes, Awaited
    <2>2. oracle' \in Transactions /\ inflight' \subseteq Transactions
      BY <1>10 DEF Land, TypeOK
    <2>3. misled' \in BOOLEAN  BY <1>10 DEF Land, TypeOK
    <2> QED  BY <1>10, <2>1, <2>2, <2>3 DEF Land, TypeOK, clocks
  <1>11. ASSUME NEW tx \in inflight, Expire(tx) PROVE TypeOK'
    BY <1>11 DEF Expire, Fault, TypeOK, clocks
  <1>12. CASE SetPaused
    BY <1>12 DEF SetPaused, Fault, TypeOK, clocks
  <1>13. CASE MarketMoves
    BY <1>13 DEF MarketMoves, TypeOK, clocks
  <1>14. CASE Tick
    <2>1. /\ ModeMinDwell \in Nat /\ StaleHoldoff + 1 \in Nat
          /\ LongestQuiet + 1 \in Nat
      BY ModesConstants DEF LongestQuiet
    <2>2. \A n \in Nat : \A cap \in Nat : Aged(n, cap) \in Nat  BY DEF Aged
    <2> QED  BY <1>14, <2>1, <2>2 DEF Tick, TypeOK
  <1>15. CASE UNCHANGED vars
    BY <1>15 DEF vars, TypeOK
  <1> QED
    BY <1>1, <1>2, <1>3, <1>4, <1>5, <1>6, <1>7, <1>8, <1>9, <1>10, <1>11, <1>12,
       <1>13, <1>14, <1>15 DEF Next

(* The initial states are typed.                                           *)
LEMMA InitType == Init => TypeOK
  <1> SUFFICES ASSUME Init PROVE TypeOK  OBVIOUS
  <1>1. paused \in BOOLEAN /\ misled \in BOOLEAN  BY Zenon DEF Init
  <1>2. oracle \in Transactions
    BY ModesConstants DEF Init, Transactions
  <1>3. currentMode \in ModeNames  BY DEF Init, ModeNames, ModeOrder
  <1> QED  BY <1>1, <1>2, <1>3 DEF Init, TypeOK

(* Every reachable state is typed, and every TTL sent is acceptable.       *)
THEOREM KeeperTypeCorrect == Spec => []TypeOK
  <1>1. Init => TypeOK  BY InitType
  <1> QED  BY <1>1, TypeStep, PTL DEF Spec

----------------------------------------------------------------------------
(* The single writer. *)

(* A new transaction is at most one ahead of the chain and carries a       *)
(* reading that none before it has.                                        *)
LEMMA PushWriter ==
    ASSUME WriterInv, TypeOK', NEW mode, NEW kind, PushOracle(mode, kind),
           push = None, lastPushedNonce' = lastPushedNonce, UNCHANGED pool
    PROVE  WriterInv'
  <1>1. CASE SendPush(mode, kind)
    <2>1. /\ push'.nonce = lastPushedNonce + 1 /\ push'.landed = FALSE
          /\ push'.obs \in {0, sent + 1}
          /\ sent' = sent \/ (sent' = sent + 1 /\ push'.obs = sent + 1)
          /\ push'.obs <= sent'
      BY <1>1 DEF SendPush, WriterInv, TypeOK
    <2>2. ASSUME NEW tx \in inflight'
          PROVE  \/ tx \in inflight
                 \/ /\ tx.nonce = push'.nonce /\ tx.obs = push'.obs
                    /\ tx.obs = sent + 1 /\ sent' = sent + 1
      BY <1>1, <2>2 DEF SendPush
    <2>3. /\ oracle.nonce \in Nat /\ oracle.obs \in Nat /\ sent \in Nat
          /\ lastPushedNonce \in Nat
          /\ \A tx \in inflight : tx.nonce \in Nat /\ tx.obs \in Nat
      BY DEF WriterInv, TypeOK, Transactions
    <2>4. SingleWriter'
      BY <2>1, <2>2, <2>3 DEF WriterInv, SingleWriter, pool
    <2>5. \A tx \in inflight : tx.obs <= sent /\ (tx.obs # 0)
      BY <2>3 DEF WriterInv
    <2>6. \A tx \in inflight' : tx.obs = push'.obs => tx.nonce = push'.nonce
      BY <2>1, <2>2, <2>3, <2>5
    <2>7. \A tx \in inflight' : tx.obs <= sent' /\ tx.obs # 0
      BY <2>1, <2>2, <2>3, <2>5
    <2>8. oracle'.obs <= sent'  BY <2>1, <2>3 DEF WriterInv, pool
    <2> QED  BY <2>1, <2>4, <2>6, <2>7, <2>8 DEF WriterInv
  <1>2. CASE SkipPush(kind)
    BY <1>2 DEF SkipPush, WriterInv, SingleWriter, pool
  <1> QED  BY <1>1, <1>2 DEF PushOracle

(* Until the worker was misled, a transaction that lands moves the nonce   *)
(* by one, to a later reading.                                             *)
LEMMA LandingWriter ==
    ASSUME WriterInv, NEW tx \in inflight, Land(tx), oracle' # oracle, ~misled
    PROVE  /\ oracle' = tx
           /\ oracle'.nonce = oracle.nonce + 1
           /\ oracle'.obs > oracle.obs
  <1>1. oracle' = tx /\ tx.nonce > oracle.nonce
    BY DEF Land, Executes, NonceAdvances
  <1>2. /\ oracle.nonce \in Nat /\ tx.nonce \in Nat
        /\ tx.nonce <= oracle.nonce + 1
        /\ tx.nonce = oracle.nonce + 1 => tx.obs > oracle.obs
    BY DEF WriterInv, TypeOK, Transactions, SingleWriter
  <1> QED  BY <1>1, <1>2

(* A landing keeps the invariant: if the awaited transaction landed and    *)
(* the worker is not misled, the chain has reached its nonce.              *)
LEMMA LandStep ==
    ASSUME WriterInv, TypeOK', NEW tx \in inflight, Land(tx)
    PROVE  WriterInv'
  <1>1. /\ inflight' \subseteq inflight /\ sent' = sent
        /\ oracle' \in {oracle, tx} /\ lastPushedNonce' = lastPushedNonce
        /\ ~misled' => ~misled
    BY DEF Land
  <1>2. /\ oracle.nonce \in Nat /\ lastPushedNonce \in Nat
        /\ \A t \in inflight : t.nonce \in Nat
    BY DEF WriterInv, TypeOK, Transactions
  <1>3. oracle'.nonce >= oracle.nonce
    <2>1. CASE Executes(tx)
      BY <1>2, <2>1 DEF Land, Executes, NonceAdvances
    <2>2. CASE ~Executes(tx)
      BY <1>2, <2>2 DEF Land
    <2> QED  BY <2>1, <2>2
  <1>4. SingleWriter'
    <2> SUFFICES ASSUME ~misled'
                 PROVE  /\ lastPushedNonce' <= oracle'.nonce
                        /\ \A t \in inflight' :
                             /\ t.nonce <= oracle'.nonce + 1
                             /\ t.nonce = oracle'.nonce + 1 => t.obs > oracle'.obs
      BY DEF SingleWriter
    <2>1. ~misled  BY <1>1
    <2>2. CASE oracle' = oracle
      BY <1>1, <2>1, <2>2 DEF WriterInv, SingleWriter
    <2>3. CASE oracle' # oracle
      <3>1. oracle'.nonce = oracle.nonce + 1  BY <2>1, <2>3, LandingWriter
      <3>2. \A t \in inflight' : t.nonce <= oracle.nonce + 1
        BY <1>1, <2>1 DEF WriterInv, SingleWriter
      <3>3. lastPushedNonce <= oracle.nonce
        BY <2>1 DEF WriterInv, SingleWriter
      <3> QED  BY <1>1, <1>2, <3>1, <3>2, <3>3
    <2> QED  BY <2>2, <2>3
  <1>5. oracle'.obs <= sent' /\ \A t \in inflight' : t.obs <= sent' /\ t.obs # 0
    BY <1>1 DEF WriterInv
  <1>6. ASSUME push' # None
        PROVE  /\ push'.obs <= sent'
               /\ \A t \in inflight' : t.obs = push'.obs => t.nonce = push'.nonce
               /\ push'.landed /\ ~misled' => push'.nonce <= oracle'.nonce
    <2>1. /\ push # None /\ push \in Pushes
          /\ push'.obs = push.obs /\ push'.nonce = push.nonce
      BY <1>6 DEF Land, Awaited, WriterInv, TypeOK, Pushes
    <2>2. ASSUME push'.landed, ~misled' PROVE push'.nonce <= oracle'.nonce
      <3>1. CASE push.landed
        <4>1. push.nonce <= oracle.nonce
          BY <1>1, <2>1, <2>2, <3>1 DEF WriterInv
        <4> QED  BY <1>1, <1>2, <1>3, <2>1, <4>1 DEF Pushes
      <3>2. CASE ~push.landed
        <4>1. Awaited(tx)  BY <2>2, <3>2 DEF Land
        <4>2. tx.nonce = push.nonce  BY <2>1, <4>1 DEF Awaited, WriterInv
        <4>3. ~(paused /\ NonceAdvances(tx))  BY <2>2, <4>1 DEF Land
        <4>4. CASE Executes(tx)
          BY <1>2, <2>1, <4>2, <4>4 DEF Land
        <4>5. CASE ~Executes(tx)
          <5>1. ~(tx.nonce > oracle.nonce)  BY <4>3, <4>5 DEF Executes, NonceAdvances
          <5> QED  BY <1>2, <2>1, <4>2, <4>5, <5>1 DEF Land
        <4> QED  BY <4>4, <4>5
      <3> QED  BY <3>1, <3>2
    <2> QED  BY <1>1, <2>1, <2>2 DEF WriterInv
  <1> QED  BY <1>4, <1>5, <1>6 DEF WriterInv

(* Every step keeps the invariant.                                         *)
LEMMA WriterStep == WriterInv /\ [Next]_vars => WriterInv'
  <1> SUFFICES ASSUME WriterInv, [Next]_vars PROVE WriterInv'  OBVIOUS
  <1> USE DEF pool
  <1>0. TypeOK /\ TypeOK'  BY TypeStep DEF WriterInv
  <1>1. CASE Boot
    BY <1>0, <1>1 DEF Boot, WriterInv, SingleWriter, TypeOK, Transactions
  <1>2. CASE InitialPush
    BY <1>0, <1>2, PushWriter DEF InitialPush, TypeOK
  <1>3. CASE ChangeMode
    BY <1>0, <1>3, PushWriter DEF ChangeMode, TypeOK
  <1>4. CASE RepeatPush
    BY <1>0, <1>4, PushWriter DEF RepeatPush, TypeOK
  <1>5. CASE SleepCycle
    BY <1>0, <1>5 DEF SleepCycle, WriterInv, SingleWriter
  <1>6. CASE PushConfirmed
    <2>1. /\ lastPushedNonce' = push.nonce /\ push # None
          /\ ~misled => push.nonce <= oracle.nonce
      BY <1>0, <1>6 DEF PushConfirmed, WriterInv, TypeOK
    <2> QED
      BY <1>0, <1>6, <2>1 DEF PushConfirmed, WriterInv, SingleWriter, TypeOK, Transactions
  <1>7. CASE PushFailed
    BY <1>0, <1>7 DEF PushFailed, WriterInv, SingleWriter
  <1>8. CASE ResyncNonceFromChain
    BY <1>0, <1>8
       DEF ResyncNonceFromChain, WriterInv, SingleWriter, TypeOK, Transactions
  <1>9. CASE Crash
    BY <1>0, <1>9 DEF Crash, WriterInv, SingleWriter
  <1>10. ASSUME NEW tx \in inflight, Land(tx) PROVE WriterInv'
    BY <1>0, <1>10, LandStep
  <1>11. ASSUME NEW tx \in inflight, Expire(tx) PROVE WriterInv'
    BY <1>0, <1>11 DEF Expire, WriterInv, SingleWriter
  <1>12. CASE SetPaused
    BY <1>0, <1>12 DEF SetPaused, WriterInv, SingleWriter
  <1>13. CASE MarketMoves
    BY <1>0, <1>13 DEF MarketMoves, WriterInv, SingleWriter
  <1>14. CASE Tick
    BY <1>0, <1>14 DEF Tick, WriterInv, SingleWriter
  <1>15. CASE UNCHANGED vars
    BY <1>0, <1>15 DEF vars, WriterInv, SingleWriter
  <1> QED
    BY <1>1, <1>2, <1>3, <1>4, <1>5, <1>6, <1>7, <1>8, <1>9, <1>10, <1>11, <1>12,
       <1>13, <1>14, <1>15 DEF Next

(* The inductive invariant of the single writer.                           *)
THEOREM WriterInvariant == Spec => []WriterInv
  <1>1. Init => TypeOK  BY InitType
  <1>2. Init => WriterInv
    BY <1>1 DEF Init, WriterInv, SingleWriter
  <1> QED  BY <1>2, WriterStep, PTL DEF Spec

(* Until it is misled, the worker never runs ahead of the chain.           *)
THEOREM NeverAheadOfChain == Spec => []SingleWriter
  <1>1. WriterInv => SingleWriter  BY DEF WriterInv
  <1> QED  BY <1>1, WriterInvariant, PTL

(* Through retries, refusals, late landings, crashes and stale reads of    *)
(* the nonce, prices reach the chain in order and the nonce has no gaps,   *)
(* until a refusal by the paused pool is taken for a success.              *)
THEOREM PricesLandInOrder == Spec => OrderedWithoutGaps
  <1> DEFINE Step == oracle' # oracle /\ ~misled =>
                       oracle'.nonce = oracle.nonce + 1 /\ oracle'.obs > oracle.obs
  <1>1. WriterInv /\ [Next]_vars => [Step]_vars
    <2> SUFFICES ASSUME WriterInv, Next, oracle' # oracle, ~misled PROVE Step
      BY DEF vars
    <2>1. CASE \E tx \in inflight : Land(tx)
      BY <2>1, LandingWriter
    <2>2. CASE ~(\E tx \in inflight : Land(tx))
      BY <2>2 DEF Next, pool, Boot, InitialPush, ChangeMode, RepeatPush, SleepCycle,
                  PushConfirmed, PushFailed, ResyncNonceFromChain, Crash, Expire,
                  SetPaused, MarketMoves, Tick
    <2> QED  BY <2>1, <2>2
  <1> QED  BY <1>1, WriterInvariant, PTL DEF Spec, OrderedWithoutGaps

----------------------------------------------------------------------------
(* The dwell time. *)

(* A transition under way was decided after the dwell time, any other push *)
(* keeps the mode; and a window of failures opened no earlier than the     *)
(* last change of mode, or that is long ago.                               *)
DwellInv ==
    /\ TypeOK
    /\ sinceChange <= sinceMode
    /\ push # None =>
        IF push.kind = "change" THEN sinceChange >= ModeMinDwell
                                ELSE push.mode = currentMode
    /\ staleFor # None /\ currentMode # "C" =>
        staleFor <= sinceMode \/ sinceMode >= ModeMinDwell

(* A step changes the mode no sooner than the dwell time after the last    *)
(* change, or is a boot.                                                   *)
Dwells == currentMode' # currentMode => sinceMode >= ModeMinDwell \/ pc = "off"

(* A failed push leaves the mode, or gives up on a source that has failed  *)
(* for longer than the dwell time.                                         *)
LEMMA FailureDwells ==
    ASSUME ModeMinDwell <= StaleHoldoff + 1, DwellInv, NEW kind, NoteFailure(kind)
    PROVE  /\ Dwells
           /\ sinceChange' <= sinceMode'
           /\ staleFor' # None /\ currentMode' # "C" =>
                staleFor' <= sinceMode' \/ sinceMode' >= ModeMinDwell
  <1> DEFINE since == StaleSince(staleFor, None)
  <1>1. /\ sinceChange \in Nat /\ sinceMode \in Nat /\ staleFor \in Nat \cup {None}
        /\ sinceChange <= sinceMode /\ ModeMinDwell \in Nat /\ StaleHoldoff \in Nat
    BY ModesConstants DEF DwellInv, TypeOK
  <1>2. since \in Nat
        /\ (currentMode # "C" => since <= sinceMode \/ sinceMode >= ModeMinDwell)
    BY <1>1 DEF DwellInv, StaleSince
  <1>3. staleFor' = since /\ (ForceModeC(since, currentMode) => since > StaleHoldoff)
    BY DEF NoteFailure, ForceModeC
  <1>4. CASE ForceModeC(since, currentMode)
    <2>1. currentMode' = "C" /\ sinceMode' = 0 /\ sinceChange' = 0
      BY <1>4 DEF NoteFailure
    <2>2. sinceMode >= ModeMinDwell
      BY <1>1, <1>2, <1>3, <1>4 DEF ForceModeC
    <2> QED  BY <2>1, <2>2 DEF Dwells
  <1>5. CASE ~ForceModeC(since, currentMode)
    <2>1. /\ currentMode' = currentMode /\ sinceMode' = sinceMode
          /\ sinceChange' \in {0, sinceChange}
      BY <1>5 DEF NoteFailure
    <2> QED  BY <1>1, <1>2, <1>3, <2>1 DEF Dwells
  <1> QED  BY <1>4, <1>5

(* A push keeps the invariant when a change of mode was due.               *)
LEMMA PushDwells ==
    ASSUME ModeMinDwell <= StaleHoldoff + 1, DwellInv, TypeOK', push = None,
           NEW mode, NEW kind, PushOracle(mode, kind),
           IF kind = "change" THEN sinceChange >= ModeMinDwell ELSE mode = currentMode
    PROVE  DwellInv' /\ Dwells
  <1>1. CASE SendPush(mode, kind)
    <2>1. UNCHANGED decision /\ push'.mode = mode /\ push'.kind = kind
      BY <1>1 DEF SendPush
    <2> QED  BY <2>1 DEF DwellInv, Dwells, decision
  <1>2. CASE SkipPush(kind)
    <2>1. NoteFailure(kind) /\ push' = None  BY <1>2 DEF SkipPush
    <2> QED  BY <2>1, FailureDwells DEF DwellInv
  <1> QED  BY <1>1, <1>2 DEF PushOracle

(* A transition is decided only after the dwell time.                      *)
LEMMA DecidedAfterDwell ==
    ASSUME TypeOK, NextMode # currentMode PROVE sinceChange >= ModeMinDwell
  BY ModesConstants DEF NextMode, DecideMode, TypeOK

(* Every step keeps the dwell time.                                        *)
LEMMA DwellStep ==
    ASSUME ModeMinDwell <= StaleHoldoff + 1, DwellInv, [Next]_vars
    PROVE  DwellInv' /\ Dwells
  <1>0. TypeOK /\ TypeOK'  BY TypeStep DEF DwellInv
  <1>1. CASE Boot
    BY <1>0, <1>1 DEF Boot, DwellInv, Dwells
  <1>2. CASE InitialPush
    BY <1>0, <1>2, PushDwells DEF InitialPush, TypeOK
  <1>3. CASE ChangeMode
    BY <1>0, <1>3, DecidedAfterDwell, PushDwells DEF ChangeMode, TypeOK
  <1>4. CASE RepeatPush
    BY <1>0, <1>4, PushDwells DEF RepeatPush, TypeOK
  <1>5. CASE SleepCycle
    BY <1>0, <1>5 DEF SleepCycle, DwellInv, Dwells, clocks
  <1>6. CASE PushConfirmed
    <2>1. /\ push # None /\ push' = None /\ staleFor' = None
          /\ currentMode' = push.mode
      BY <1>0, <1>6 DEF PushConfirmed, TypeOK
    <2>2. /\ sinceChange \in Nat /\ sinceMode \in Nat /\ ModeMinDwell \in Nat
          /\ sinceChange <= sinceMode
      BY <1>0, ModesConstants DEF DwellInv, TypeOK
    <2>3. CASE push.kind = "change"
      <3>1. sinceMode >= ModeMinDwell  BY <2>1, <2>2, <2>3 DEF DwellInv
      <3>2. sinceChange' = 0 /\ sinceMode' \in {0, sinceMode}
        BY <1>6, <2>3 DEF PushConfirmed
      <3> QED  BY <1>0, <2>1, <2>2, <3>1, <3>2 DEF DwellInv, Dwells
    <2>4. CASE push.kind # "change"
      <3>1. push.mode = currentMode  BY <2>1, <2>4 DEF DwellInv
      <3>2. sinceChange' = sinceChange /\ sinceMode' = sinceMode
        BY <1>6, <2>4, <3>1 DEF PushConfirmed
      <3> QED  BY <1>0, <2>1, <2>2, <3>1, <3>2 DEF DwellInv, Dwells
    <2> QED  BY <2>3, <2>4
  <1>7. CASE PushFailed
    <2>1. NoteFailure(push.kind) /\ push' = None  BY <1>7 DEF PushFailed
    <2> QED  BY <1>0, <2>1, FailureDwells DEF DwellInv
  <1>8. CASE ResyncNonceFromChain
    BY <1>0, <1>8 DEF ResyncNonceFromChain, DwellInv, Dwells, clocks
  <1>9. CASE Crash
    BY <1>0, <1>9 DEF Crash, DwellInv, Dwells, clocks
  <1>10. ASSUME NEW tx \in inflight, Land(tx) PROVE DwellInv' /\ Dwells
    <2>1. /\ push' # None => /\ push # None /\ push'.kind = push.kind
                             /\ push'.mode = push.mode
          /\ UNCHANGED <<currentMode, clocks>>
      BY <1>0, <1>10 DEF Land, Awaited, TypeOK, Pushes
    <2> QED  BY <1>0, <2>1 DEF DwellInv, Dwells, clocks
  <1>11. ASSUME NEW tx \in inflight, Expire(tx) PROVE DwellInv' /\ Dwells
    BY <1>0, <1>11 DEF Expire, DwellInv, Dwells, clocks
  <1>12. CASE SetPaused
    BY <1>0, <1>12 DEF SetPaused, DwellInv, Dwells, clocks
  <1>13. CASE MarketMoves
    BY <1>0, <1>13 DEF MarketMoves, DwellInv, Dwells, clocks
  <1>14. CASE Tick
    <2>1. /\ sinceChange \in Nat /\ sinceMode \in Nat /\ staleFor \in Nat \cup {None}
          /\ ModeMinDwell \in Nat /\ StaleHoldoff \in Nat /\ sinceChange <= sinceMode
      BY <1>0, ModesConstants DEF DwellInv, TypeOK
    <2>2. UNCHANGED <<currentMode, push>>  BY <1>14 DEF Tick
    <2>3. /\ sinceChange' = IF sinceChange < ModeMinDwell THEN sinceChange + 1
                                                          ELSE sinceChange
          /\ sinceMode' = IF sinceMode < ModeMinDwell THEN sinceMode + 1 ELSE sinceMode
          /\ staleFor' # None => staleFor # None
          /\ staleFor # None => staleFor' \in {staleFor, staleFor + 1}
      BY <1>14, <2>1 DEF Tick, Aged
    <2>4. sinceChange' <= sinceMode'  BY <2>1, <2>3
    <2>5. sinceChange >= ModeMinDwell => sinceChange' >= ModeMinDwell  BY <2>1, <2>3
    <2>6. ASSUME staleFor' # None, currentMode' # "C"
          PROVE  staleFor' <= sinceMode' \/ sinceMode' >= ModeMinDwell
      <3>1. staleFor # None /\ (staleFor <= sinceMode \/ sinceMode >= ModeMinDwell)
        BY <2>2, <2>3, <2>6 DEF DwellInv
      <3>2. staleFor \in Nat  BY <2>1, <3>1
      <3> QED  BY <2>1, <2>3, <3>1, <3>2
    <2> QED  BY <1>0, <2>2, <2>4, <2>5, <2>6 DEF DwellInv, Dwells
  <1>15. CASE UNCHANGED vars
    BY <1>0, <1>15 DEF vars, DwellInv, Dwells
  <1> QED
    BY <1>1, <1>2, <1>3, <1>4, <1>5, <1>6, <1>7, <1>8, <1>9, <1>10, <1>11, <1>12,
       <1>13, <1>14, <1>15 DEF Next

(* The operating mode does not flap, the downgrade forced by a stale       *)
(* source included, whatever the dwell times - as long as the stale        *)
(* holdoff is no shorter than the dwell time, as its default is not.       *)
THEOREM ModeNeverFlaps ==
    ASSUME ModeMinDwell <= StaleHoldoff + 1 PROVE Spec => NoFlapping
  <1>1. Init => DwellInv
    BY InitType, ModesConstants DEF Init, DwellInv
  <1>2. DwellInv /\ [Next]_vars => DwellInv'  BY DwellStep
  <1>3. DwellInv /\ [Next]_vars => [Dwells]_vars  BY DwellStep
  <1> QED  BY <1>1, <1>2, <1>3, PTL DEF Spec, NoFlapping, Dwells
=============================================================================
