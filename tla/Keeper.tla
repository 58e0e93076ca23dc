------------------------------- MODULE Keeper -------------------------------
(***************************************************************************)
(* The oracle worker (keeper/src/oracle/worker.ts) and the part of the     *)
(* chain it writes.  The worker is one process with three awaits that      *)
(* matter: the update_oracle transaction, the nonce re-read, the sleep.    *)
(* A transaction lives on its own: it may land after the RPC call that     *)
(* sent it has failed, land when a later one has landed already, or never. *)
(* Landing is not success: update_oracle may refuse in the block what the  *)
(* preflight accepted, and sendAndConfirm of the SDK (sdk/src/program.ts)  *)
(* does not look at the error of the confirmation it awaits.               *)
(* The worker may die at any point and be started again.                   *)
(*                                                                         *)
(* The two source.current() of a cycle return cached values and are one    *)
(* step with what follows.  Sleeps have no length: a cycle may start at    *)
(* any time.  Ages saturate where no decision can tell them apart.         *)
(***************************************************************************)
EXTENDS Modes

CONSTANTS
    BackoffAfter,    \* 3: failures before the backoff branch is entered
    ResyncAt,        \* 5
    ResyncEvery,     \* 10
    None,
    MaxNonce,        \* bound on the nonce of the chain
    MaxSent,         \* bound on the transactions sent
    MaxFaults        \* bound on RPC faults, crashes and pauses of the pool

(* The call of update_oracle being awaited, why it was made, and whether   *)
(* its transaction is in a block.  Its reading is 0 if the preflight       *)
(* refused to broadcast it.                                                *)
Pushes == [mode : ModeNames, kind : {"boot", "change", "repeat"},
           nonce : Nat, obs : Nat, landed : BOOLEAN]

ASSUME KeeperConstants ==
    /\ BackoffAfter \in Nat /\ ResyncAt \in Nat /\ ResyncEvery \in Nat \ {0}
    /\ MaxNonce \in Nat /\ MaxSent \in Nat /\ MaxFaults \in Nat
    /\ None \notin Nat \cup Pushes

(* What a cycle sees of the world: the floor set by the calendar, whether  *)
(* volatility is below the push threshold of mode B, above it, or high     *)
(* enough to be the upgrade signal, and whether the source is fresh.       *)
Markets == [floor : ModeNames, volatility : {"quiet", "active", "signal"},
            fresh : BOOLEAN]

VARIABLES
    pc,                \* "off", "boot", "idle", "sent" or "resync"
    lastPushedNonce,   \* state.lastPushedNonce
    currentMode,       \* state.currentMode
    failures,          \* consecutiveFailures
    staleFor,          \* age of firstStaleObservedAt, or None
    sinceChange,       \* age of lastChangeAt
    sinceTrigger,      \* age of lastUpgradeTriggerAt
    push,              \* the update_oracle call being awaited, or None
    oracle,            \* on chain: nonce, TTL and which reading of the source
    paused,            \* on chain: pool.paused
    inflight,          \* transactions sent that have neither landed nor expired
    market,            \* calendar floor, volatility, freshness of the source
    sent,              \* readings of the source pushed so far
    faults,            \* faults so far
    sinceMode,         \* history: age of the last change of currentMode
    misled             \* history: a push refused by the paused pool was awaited

clocks == <<staleFor, sinceChange, sinceTrigger, sinceMode>>
decision == <<currentMode, staleFor, sinceChange, sinceMode>>
pool == <<oracle, paused, misled>>
vars == <<pc, lastPushedNonce, currentMode, failures, staleFor, sinceChange,
          sinceTrigger, push, oracle, paused, inflight, market, sent, faults,
          sinceMode, misled>>

Init ==
    /\ pc = "off"
    /\ lastPushedNonce = 0
    /\ currentMode = "C"
    /\ failures = 0
    /\ staleFor = None
    /\ sinceChange = 0 /\ sinceTrigger = 0 /\ sinceMode = 0
    /\ push = None
    /\ oracle = [nonce |-> 0, ttl |-> 0, obs |-> 0]
    /\ paused = FALSE
    /\ misled = FALSE
    /\ inflight = {}
    /\ market \in Markets
    /\ sent = 0
    /\ faults = 0

Fault == faults < MaxFaults /\ faults' = faults + 1

----------------------------------------------------------------------------
(* Parts of a cycle. *)

ResyncDue_Never(n) == FALSE

ResyncDue(n) == n >= BackoffAfter /\ (n = ResyncAt \/ n % ResyncEvery = 0)

(* What follows a push that returned, with n consecutive failures: straight *)
(* into the loop after the initial push, else the end of the cycle.        *)
AfterPush(kind, n) == pc' = IF kind # "boot" /\ ResyncDue(n) THEN "resync" ELSE "idle"

(* notePush(false), and lastChangeAt after a mode change was attempted. *)
NoteFailure_NoWindow(kind) ==
    /\ staleFor' = None
    /\ sinceChange' = IF kind = "change" THEN 0 ELSE sinceChange
    /\ UNCHANGED <<currentMode, sinceMode>>

NoteFailure(kind) ==
    LET since == StaleSince(staleFor, None)
        forced == ForceModeC(since, currentMode)
    IN  /\ staleFor' = since
        /\ currentMode' = IF forced THEN "C" ELSE currentMode
        /\ sinceMode' = IF forced THEN 0 ELSE sinceMode
        /\ sinceChange' = IF forced \/ kind = "change" THEN 0 ELSE sinceChange

(* update_oracle takes a transaction: PoolPaused, NonceNotMonotonic. *)
NonceAdvances_Reused(tx) == tx.nonce >= oracle.nonce

NonceAdvances(tx) == tx.nonce > oracle.nonce

Executes(tx) == ~paused /\ NonceAdvances(tx)

(* pushOracle with a fresh tick: preflight, broadcast, await confirmation. *)
(* The node of the preflight may lag behind the chain and let through what *)
(* the chain will refuse.                                                  *)
SendPush(mode, kind) ==
    LET tx == [nonce |-> lastPushedNonce + 1, ttl |-> ModeToTtl[mode], obs |-> sent + 1]
        Await(obs) == push' = [mode |-> mode, kind |-> kind, nonce |-> tx.nonce,
                               obs |-> obs, landed |-> FALSE]
    IN  /\ market.fresh
        /\ oracle.nonce < MaxNonce /\ sent < MaxSent
        /\ \/ /\ IF Executes(tx) THEN UNCHANGED faults ELSE Fault
              /\ sent' = tx.obs
              /\ inflight' = inflight \cup {tx}
              /\ Await(tx.obs)
           \/ /\ ~Executes(tx)
              /\ Await(0)
              /\ UNCHANGED <<inflight, sent, faults>>
        /\ pc' = "sent"
        /\ UNCHANGED <<decision, failures>>

(* pushOracle with any other tick: false, and the failure counter is kept. *)
SkipPush(kind) ==
    /\ ~market.fresh
    /\ NoteFailure(kind)
    /\ AfterPush(kind, failures)
    /\ UNCHANGED <<failures, push, inflight, sent, faults>>

PushOracle(mode, kind) == SendPush(mode, kind) \/ SkipPush(kind)

----------------------------------------------------------------------------
(* The worker's steps. *)

(* runOracle: read the nonce, start in mode C.  An RPC node that lags may  *)
(* return an earlier nonce.                                                *)
Boot ==
    /\ pc = "off"
    /\ \E n \in 0 .. oracle.nonce :
        /\ lastPushedNonce' = n
        /\ IF n = oracle.nonce THEN UNCHANGED faults ELSE Fault
    /\ pc' = "boot"
    /\ currentMode' = "C"
    /\ failures' = 0
    /\ staleFor' = None
    /\ sinceChange' = 0 /\ sinceTrigger' = 0 /\ sinceMode' = 0
    /\ push' = None
    /\ UNCHANGED <<pool, inflight, market, sent>>

InitialPush ==
    /\ pc = "boot"
    /\ PushOracle(currentMode, "boot")
    /\ UNCHANGED <<lastPushedNonce, sinceTrigger, pool, market>>

(* "nextMode > state.currentMode" compares the mode names as strings. *)
StringLater(m, n) == <<m, n>> \in {<<"B", "A">>, <<"C", "A">>, <<"C", "B">>}

NextMode == DecideMode(currentMode, market.volatility = "signal", market.floor,
                       sinceChange, sinceTrigger)

ChangeMode ==
    /\ pc = "idle"
    /\ NextMode # currentMode
    /\ PushOracle(NextMode, "change")
    /\ sinceTrigger' = IF StringLater(NextMode, currentMode) THEN 0 ELSE sinceTrigger
    /\ UNCHANGED <<lastPushedNonce, pool, market>>

PushDue == currentMode = "A" \/ (currentMode = "B" /\ market.volatility # "quiet")

RepeatPush ==
    /\ pc = "idle"
    /\ NextMode = currentMode
    /\ PushDue
    /\ PushOracle(currentMode, "repeat")
    /\ UNCHANGED <<lastPushedNonce, sinceTrigger, pool, market>>

(* A cycle without a push still re-reads the nonce when that is due. *)
SleepCycle ==
    /\ pc = "idle"
    /\ NextMode = currentMode
    /\ ~PushDue
    /\ AfterPush("repeat", failures)
    /\ UNCHANGED <<lastPushedNonce, currentMode, failures, clocks, push, pool,
                   inflight, market, sent, faults>>

Pending == \E tx \in inflight : tx.obs = push.obs

(* One more failure; a count that no resync decision tells from another   *)
(* stands for both.                                                        *)
OneMore(n) == IF n = ResyncAt + ResyncEvery THEN ResyncAt + 1 ELSE n + 1

(* .rpc() returns: the transaction is in a block, executed or refused. *)
PushConfirmed ==
    /\ pc = "sent"
    /\ push.landed
    /\ lastPushedNonce' = push.nonce
    /\ currentMode' = push.mode
    /\ sinceMode' = IF push.mode # currentMode THEN 0 ELSE sinceMode
    /\ failures' = 0
    /\ staleFor' = None
    /\ sinceChange' = IF push.kind = "change" THEN 0 ELSE sinceChange
    /\ AfterPush(push.kind, 0)
    /\ push' = None
    /\ UNCHANGED <<sinceTrigger, pool, inflight, market, sent, faults>>

(* .rpc() throws.  The nonce is kept, so the next push reuses it.  When    *)
(* the transaction is still under way or has landed, this is an RPC fault. *)
PushFailed_AdvancesNonce ==
    /\ pc = "sent"
    /\ IF push.landed \/ Pending THEN Fault ELSE UNCHANGED faults
    /\ lastPushedNonce' = push.nonce
    /\ failures' = OneMore(failures)
    /\ NoteFailure(push.kind)
    /\ AfterPush(push.kind, OneMore(failures))
    /\ push' = None
    /\ UNCHANGED <<sinceTrigger, pool, inflight, market, sent>>

PushFailed ==
    /\ pc = "sent"
    /\ IF push.landed \/ Pending THEN Fault ELSE UNCHANGED faults
    /\ failures' = OneMore(failures)
    /\ NoteFailure(push.kind)
    /\ AfterPush(push.kind, OneMore(failures))
    /\ push' = None
    /\ UNCHANGED <<lastPushedNonce, sinceTrigger, pool, inflight, market, sent>>

(* resyncNonceFromChain; an error is logged and swallowed. *)
ResyncNonceFromChain ==
    /\ pc = "resync"
    /\ \/ \E n \in 0 .. oracle.nonce :
            /\ lastPushedNonce' = n
            /\ IF n = oracle.nonce THEN UNCHANGED faults ELSE Fault
       \/ Fault /\ UNCHANGED lastPushedNonce
    /\ pc' = "idle"
    /\ UNCHANGED <<currentMode, failures, clocks, push, pool, inflight, market, sent>>

(* A crash, or stop(): nothing of the worker's state survives. *)
Crash ==
    /\ pc # "off"
    /\ Fault
    /\ pc' = "off"
    /\ push' = None
    /\ UNCHANGED <<lastPushedNonce, currentMode, failures, clocks, pool, inflight,
                   market, sent>>

----------------------------------------------------------------------------
(* The chain and the world. *)

(* A transaction lands; one that update_oracle refuses leaves no trace.    *)
Awaited(tx) == push # None /\ push.obs = tx.obs

Land(tx) ==
    /\ tx \in inflight
    /\ inflight' = inflight \ {tx}
    /\ oracle' = IF Executes(tx) THEN tx ELSE oracle
    /\ push' = IF Awaited(tx) THEN [push EXCEPT !.landed = TRUE] ELSE push
    /\ misled' = (misled \/ (paused /\ NonceAdvances(tx) /\ Awaited(tx)))
    /\ UNCHANGED <<pc, lastPushedNonce, currentMode, failures, clocks, paused, market,
                   sent, faults>>

(* set_paused by the admin. *)
SetPaused ==
    /\ paused' = ~paused
    /\ IF paused THEN UNCHANGED faults ELSE Fault
    /\ UNCHANGED <<pc, lastPushedNonce, currentMode, failures, clocks, push, oracle,
                   inflight, market, sent, misled>>

(* A transaction is dropped, or its blockhash expires. *)
Expire(tx) ==
    /\ tx \in inflight
    /\ Fault
    /\ inflight' = inflight \ {tx}
    /\ UNCHANGED <<pc, lastPushedNonce, currentMode, failures, clocks, push, pool,
                   market, sent>>

MarketMoves ==
    /\ market' \in Markets
    /\ UNCHANGED <<pc, lastPushedNonce, currentMode, failures, clocks, push, pool,
                   inflight, sent, faults>>

(* Time, up to the age beyond which no decision changes. *)
Aged(n, cap) == IF n < cap THEN n + 1 ELSE n

LongestQuiet == IF QuietAToB > QuietBToC THEN QuietAToB ELSE QuietBToC

Tick ==
    /\ staleFor' = IF staleFor = None THEN None ELSE Aged(staleFor, StaleHoldoff + 1)
    /\ sinceChange' = Aged(sinceChange, ModeMinDwell)
    /\ sinceMode' = Aged(sinceMode, ModeMinDwell)
    /\ sinceTrigger' = Aged(sinceTrigger, LongestQuiet + 1)
    /\ UNCHANGED <<pc, lastPushedNonce, currentMode, failures, push, pool, inflight,
                   market, sent, faults>>

Next ==
    \/ Boot \/ InitialPush
    \/ ChangeMode \/ RepeatPush \/ SleepCycle
    \/ PushConfirmed \/ PushFailed \/ ResyncNonceFromChain
    \/ Crash
    \/ \E tx \in inflight : Land(tx) \/ Expire(tx)
    \/ SetPaused
    \/ MarketMoves
    \/ Tick

Spec == Init /\ [][Next]_vars

(* The event loop always returns to its loop, a supervisor restarts the    *)
(* process, .rpc() and fetch return, a transaction lands or is dropped,    *)
(* and time passes.  Faults are finite in number.                          *)
Fairness ==
    /\ WF_vars(Boot \/ InitialPush)
    /\ WF_vars(ChangeMode \/ RepeatPush \/ SleepCycle)
    /\ WF_vars(PushConfirmed \/ PushFailed)
    /\ WF_vars(ResyncNonceFromChain)
    /\ WF_vars(\E tx \in inflight : Land(tx))
    /\ WF_vars(Tick)

FairSpec == Spec /\ Fairness

----------------------------------------------------------------------------
(* Properties. *)

Transactions == [nonce : Nat, ttl : 0 .. MaxTtl, obs : Nat]

(* Types; every TTL sent is one that update_oracle takes. *)
TypeOK ==
    /\ pc \in {"off", "boot", "idle", "sent", "resync"}
    /\ lastPushedNonce \in Nat
    /\ currentMode \in ModeNames
    /\ failures \in Nat
    /\ staleFor \in Nat \cup {None}
    /\ sinceChange \in Nat /\ sinceTrigger \in Nat /\ sinceMode \in Nat
    /\ push \in Pushes \cup {None}
    /\ pc = "sent" <=> push # None
    /\ oracle \in Transactions
    /\ paused \in BOOLEAN /\ misled \in BOOLEAN
    /\ inflight \subseteq Transactions
    /\ market \in Markets
    /\ sent \in Nat /\ faults \in Nat

(* Prices reach the chain in the order in which the source gave them, and  *)
(* the nonce has no gaps.  Retries, late landings, refusals of a nonce that *)
(* is taken, crashes and stale reads of the nonce must not break this; only *)
(* a push refused by a paused pool and confirmed as landed does.           *)
OrderedWithoutGaps ==
    [][oracle' # oracle /\ ~misled =>
         oracle'.nonce = oracle.nonce + 1 /\ oracle'.obs > oracle.obs]_vars

(* The same without the exception: the comment at worker.ts:200 has the    *)
(* counter advance only with a push that succeeded, and INCIDENT_RESPONSE  *)
(* tells the operator to escalate on "nonce gaps or reuse".                *)
NonceHasNoGaps ==
    [][oracle' # oracle => oracle'.nonce = oracle.nonce + 1]_vars

(* Why: the worker never runs ahead of the chain, so at most one of the    *)
(* transactions under way can still land, and none of those is older than  *)
(* the price it replaces.                                                  *)
SingleWriter ==
    ~misled =>
        /\ lastPushedNonce <= oracle.nonce
        /\ \A tx \in inflight :
            /\ tx.nonce <= oracle.nonce + 1
            /\ tx.nonce = oracle.nonce + 1 => tx.obs > oracle.obs

(* The inductive form: a transaction is identified by its reading, so the  *)
(* one the worker awaits carries the nonce it is about to adopt, and once  *)
(* that has landed the chain has reached it.                               *)
WriterInv ==
    /\ TypeOK
    /\ SingleWriter
    /\ oracle.obs <= sent
    /\ \A tx \in inflight : tx.obs <= sent /\ tx.obs # 0
    /\ push # None =>
        /\ push.obs <= sent
        /\ \A tx \in inflight : tx.obs = push.obs => tx.nonce = push.nonce
        /\ push.landed /\ ~misled => push.nonce <= oracle.nonce

(* "No transition is allowed within modeMinDwellMs of the previous mode    *)
(* change" (CORE.md 1.2), the downgrade forced by a stale source included. *)
NoFlapping == [][currentMode' # currentMode => sinceMode >= ModeMinDwell \/ pc = "off"]_vars

(* With a live source in market hours the keeper keeps publishing,         *)
(* whatever failed before, a pause of the pool included: nonce drift is    *)
(* repaired and mode C is left.                                            *)
KeepsPublishing ==
    <>[](market.fresh /\ market.floor = "A" /\ ~paused)
        => <>(oracle.nonce >= MaxNonce)

(* When the source stays stale, the worker ends in mode C - provided the   *)
(* calendar does not hold it in a quiet mode B, which never tries to push. *)
StaleEndsInModeC ==
    <>[](~market.fresh /\ market.floor # "B") => <>[](currentMode = "C")
=============================================================================
