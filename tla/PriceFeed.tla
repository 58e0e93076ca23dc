----------------------------- MODULE PriceFeed -----------------------------
(***************************************************************************)
(* How old the price is that the curve trades at: the Pyth adapter         *)
(* (keeper/src/sources/pyth.ts), pushOracle of the worker, and the TTL of  *)
(* the program, over time.  A price is known by its age, which saturates   *)
(* where no decision can tell two ages apart; one Tick is one slot.        *)
(*                                                                         *)
(* The adapter refreshes one cached tick, over REST (setInterval: polls    *)
(* overlap and are answered in any order) or over a stream of server-sent  *)
(* events (one connection at a time).  No request has a timeout: one whose *)
(* connection breaks unnoticed is waited for without end.  What is cached  *)
(* is judged when it is read, and then travels to the chain.               *)
(***************************************************************************)
EXTENDS Integers, Sequences, FiniteSets

CONSTANTS
    MaxStaleness,    \* maxStalenessSec
    RpcDelay,        \* assumed: pushOracle has its blockhash within this time
    BlockhashLife,   \* slots in which a transaction may still land
    MaxTtl,          \* MAX_TTL_SLOTS of the program
    Ttls,            \* what modeToTtl returns
    None,
    MaxRollback,     \* bound on the slots lost to forks in the life of a price
    Requests,        \* polls that may be under way at once (a bound)
    MaxWire,         \* bound on the events under way on the stream
    MaxInflight      \* bound on the transactions under way

ASSUME FeedConstants ==
    /\ MaxStaleness \in Nat /\ RpcDelay \in Nat /\ BlockhashLife \in Nat
    /\ MaxTtl \in Nat /\ Ttls \subseteq 0 .. MaxTtl
    /\ MaxRollback \in Nat /\ MaxWire \in Nat /\ MaxInflight \in Nat
    /\ None \notin [usable : BOOLEAN, age : Nat] \cup [age : Nat, wait : Nat]

(* An entry of Hermes: its age, and whether the price is one that can be   *)
(* used (a price <= 0 or a confidence of 0 marks a halted feed).           *)
Readings == [usable : BOOLEAN, age : Nat]

VARIABLES
    transport,   \* "poll" or "sse"
    source,      \* "off", "starting" (in the first pollOnce) or "running"
    tick,        \* current_, None while INITIAL_TICK
    polls,       \* per poll under way what Hermes has answered, else None
    stream,      \* "off", "connecting", "open", "dead" (unnoticed) or "backoff"
    wire,        \* events on the open connection
    push,        \* pushOracle between current() and the blockhash, or None
    inflight,    \* transactions sent: age of the price, slots since, TTL
    oracle,      \* on chain: age of fair_value, slots since the update, TTL
                 \* (and, as a history, the slots lost meanwhile)
    feed,        \* the latest entry of Hermes
    calm         \* the network and the process have stopped failing

adapter == <<source, tick, polls, stream, wire>>
chain == <<inflight, oracle>>
vars == <<transport, adapter, push, chain, feed, calm>>

NoPolls == [r \in Requests |-> None]

Off ==
    /\ source' = "off"
    /\ tick' = None
    /\ polls' = NoPolls
    /\ stream' = "off"
    /\ wire' = <<>>

(* An update that no rollback makes young again: its age is of no matter.  *)
LongAgo == MaxTtl + MaxRollback + 1
Outdated == [age |-> 0, since |-> LongAgo, ttl |-> MaxTtl, lost |-> 0]

Init ==
    /\ transport \in {"poll", "sse"}
    /\ source = "off" /\ tick = None /\ polls = NoPolls
    /\ stream = "off" /\ wire = <<>>
    /\ push = None
    /\ inflight = {}
    /\ oracle = Outdated
    /\ feed \in [usable : BOOLEAN, age : {0}]
    /\ calm = FALSE

----------------------------------------------------------------------------
(* The adapter. *)

Start_StreamFirst ==
    /\ source = "off"
    /\ source' = "starting"
    /\ \E r \in Requests : polls' = [polls EXCEPT ![r] = feed]
    /\ stream' = IF transport = "sse" THEN "connecting" ELSE "off"
    /\ UNCHANGED <<transport, tick, wire, push, chain, feed, calm>>

(* start(): the first poll is awaited. *)
Start ==
    /\ source = "off"
    /\ source' = "starting"
    /\ \E r \in Requests : polls' = [polls EXCEPT ![r] = feed]
    /\ UNCHANGED <<transport, tick, stream, wire, push, chain, feed, calm>>

(* The timer fires, whether or not the previous poll has been answered. *)
PollSend ==
    /\ source = "running" /\ transport = "poll"
    /\ \E r \in Requests :
        polls[r] = None /\ polls' = [polls EXCEPT ![r] = feed]
    /\ UNCHANGED <<transport, source, tick, stream, wire, push, chain, feed, calm>>

(* start() goes on after its poll: under SSE the stream loop begins only now. *)
Started ==
    /\ source' = "running"
    /\ stream' = IF source = "starting" /\ transport = "sse" THEN "connecting" ELSE stream

PollAnswer(r) ==
    /\ polls[r] # None
    /\ tick' = polls[r]
    /\ polls' = [polls EXCEPT ![r] = None]
    /\ Started
    /\ UNCHANGED <<transport, wire, push, chain, feed, calm>>

(* A poll that fails is logged; the one of start() ends the process. *)
PollFails(r) ==
    /\ polls[r] # None /\ ~calm
    /\ IF source = "starting" THEN Off
       ELSE /\ polls' = [polls EXCEPT ![r] = None]
            /\ UNCHANGED <<source, tick, stream, wire>>
    /\ UNCHANGED <<transport, push, chain, feed, calm>>

(* Its connection breaks and nobody tells fetch.  A poll of the timer is   *)
(* forgotten; the one of start() is awaited for ever.                      *)
PollLost(r) ==
    /\ polls[r] # None /\ ~calm
    /\ polls' = [polls EXCEPT ![r] = None]
    /\ UNCHANGED <<transport, source, tick, stream, wire, push, chain, feed, calm>>

(* runSseLoop: connect, read until the stream ends or fails, back off. *)
Connect ==
    /\ stream = "connecting"
    /\ stream' = "open"
    /\ UNCHANGED <<transport, source, tick, polls, wire, push, chain, feed, calm>>

StreamSend ==
    /\ stream = "open"
    /\ Len(wire) < MaxWire
    /\ wire' = Append(wire, feed)
    /\ UNCHANGED <<transport, source, tick, polls, stream, push, chain, feed, calm>>

(* One chunk: parseSseChunk takes its complete events, the last one stays. *)
StreamRead ==
    /\ stream = "open"
    /\ \E n \in 1 .. Len(wire) :
        /\ tick' = wire[n]
        /\ wire' = SubSeq(wire, n + 1, Len(wire))
    /\ UNCHANGED <<transport, source, polls, stream, push, chain, feed, calm>>

(* The connection breaks and nobody tells fetch or the reader. *)
StreamDies ==
    /\ stream \in {"connecting", "open"} /\ ~calm
    /\ stream' = "dead"
    /\ wire' = <<>>
    /\ UNCHANGED <<transport, source, tick, polls, push, chain, feed, calm>>

StreamEnds_LeavesLoop ==
    /\ stream = "dead" \/ (stream \in {"connecting", "open"} /\ ~calm)
    /\ stream' = "off"
    /\ wire' = <<>>
    /\ UNCHANGED <<transport, source, tick, polls, push, chain, feed, calm>>

(* Connecting fails, or read() returns or throws - perhaps at last on a    *)
(* dead connection; what was buffered is lost.                             *)
StreamEnds ==
    /\ stream = "dead" \/ (stream \in {"connecting", "open"} /\ ~calm)
    /\ stream' = "backoff"
    /\ wire' = <<>>
    /\ UNCHANGED <<transport, source, tick, polls, push, chain, feed, calm>>

Reconnect ==
    /\ stream = "backoff"
    /\ stream' = "connecting"
    /\ UNCHANGED <<transport, source, tick, polls, wire, push, chain, feed, calm>>

(* stop(), or the process dies. *)
Crash ==
    /\ source # "off" /\ ~calm
    /\ Off
    /\ push' = None
    /\ UNCHANGED <<transport, chain, feed, calm>>

Fresh_OneLater == tick # None /\ tick.usable /\ tick.age <= MaxStaleness + 1

(* current(): applyStaleness. *)
Fresh == tick # None /\ tick.usable /\ tick.age <= MaxStaleness

----------------------------------------------------------------------------
(* From the worker to the chain. *)

(* pushOracle reads the tick and builds the instruction. *)
ReadTick ==
    /\ source = "running"
    /\ push = None
    /\ Fresh
    /\ push' = [age |-> tick.age, wait |-> 0]
    /\ UNCHANGED <<transport, adapter, chain, feed, calm>>

(* .rpc() has a blockhash and sends.  It may throw at any time after that, *)
(* and the next push may start with this transaction still under way.      *)
SendTx ==
    /\ push # None
    /\ Cardinality(inflight) < MaxInflight
    /\ \E ttl \in Ttls :
        inflight' = inflight \cup {[age |-> push.age, life |-> 0, ttl |-> ttl, lost |-> 0]}
    /\ push' = None
    /\ UNCHANGED <<transport, adapter, oracle, feed, calm>>

(* .rpc() throws before it has sent. *)
PushFails ==
    /\ push # None
    /\ push' = None
    /\ UNCHANGED <<transport, adapter, chain, feed, calm>>

(* update_oracle executes: the price counts as new from this slot on. *)
Land(tx) ==
    /\ inflight' = inflight \ {tx}
    /\ oracle' = [age |-> tx.age, since |-> 0, ttl |-> tx.ttl, lost |-> tx.lost]
    /\ UNCHANGED <<transport, adapter, push, feed, calm>>

(* It is dropped, or refused: NonceNotMonotonic, PoolPaused. *)
Dropped(tx) ==
    /\ inflight' = inflight \ {tx}
    /\ UNCHANGED <<transport, adapter, push, oracle, feed, calm>>

(* execute_swap: curve_fresh; after a rollback the update may be ahead. *)
CurveFresh == oracle.ttl > 0 /\ oracle.since >= 0 /\ oracle.since <= oracle.ttl

----------------------------------------------------------------------------
(* The source and time. *)

Publish ==
    /\ \E usable \in BOOLEAN :
        /\ calm => usable
        /\ feed' = [usable |-> usable, age |-> 0]
    /\ UNCHANGED <<transport, adapter, push, chain, calm>>

(* From now on nothing fails, Hermes answers within a slot and has a usable *)
(* price that is not stale.                                                *)
Calm ==
    /\ ~calm
    /\ calm' = TRUE
    /\ UNCHANGED <<transport, adapter, push, chain, feed>>

Prompt ==
    /\ polls = NoPolls /\ wire = <<>>
    /\ feed.usable /\ feed.age < MaxStaleness

(* A fork is abandoned: the slot and the block height fall back, while the *)
(* accounts written there are still seen, as execute_swap guards for it.   *)
SlotLost(tx) ==
    [age |-> tx.age, life |-> tx.life - 1, ttl |-> tx.ttl, lost |-> tx.lost + 1]

Rollback ==
    /\ oracle.lost < MaxRollback /\ \A tx \in inflight : tx.lost < MaxRollback
    /\ oracle' = [age |-> oracle.age, since |-> oracle.since - 1, ttl |-> oracle.ttl,
                  lost |-> oracle.lost + 1]
    /\ inflight' = {SlotLost(tx) : tx \in inflight}
    /\ UNCHANGED <<transport, adapter, push, feed, calm>>

(* Beyond these ages no decision and no property changes. *)
StaleAge == MaxStaleness + 1

PriceAgeBound(ttl) == MaxStaleness + RpcDelay + BlockhashLife + ttl

Aged(n, cap) == IF n < cap THEN n + 1 ELSE n

OlderReading(r) == [usable |-> r.usable, age |-> Aged(r.age, StaleAge)]

OlderPrice(age) == Aged(age, PriceAgeBound(MaxTtl) + MaxRollback + 1)

OlderTx(tx) ==
    [age |-> OlderPrice(tx.age), life |-> tx.life + 1, ttl |-> tx.ttl, lost |-> tx.lost]

Tick ==
    /\ push # None => push.wait < RpcDelay
    /\ \A tx \in inflight : tx.life < BlockhashLife
    /\ calm => Prompt
    /\ tick' = IF tick = None THEN None ELSE OlderReading(tick)
    /\ polls' = [r \in Requests |-> IF polls[r] = None THEN None
                                    ELSE OlderReading(polls[r])]
    /\ wire' = [i \in 1 .. Len(wire) |-> OlderReading(wire[i])]
    /\ feed' = OlderReading(feed)
    /\ push' = IF push = None THEN None
               ELSE [age |-> OlderPrice(push.age), wait |-> push.wait + 1]
    /\ inflight' = {OlderTx(tx) : tx \in inflight}
    /\ oracle' = IF oracle.since < LongAgo - 1
                 THEN [age |-> OlderPrice(oracle.age), since |-> oracle.since + 1,
                       ttl |-> oracle.ttl, lost |-> oracle.lost]
                 ELSE Outdated
    /\ UNCHANGED <<transport, source, stream, calm>>

Next ==
    \/ Start \/ PollSend
    \/ \E r \in Requests : PollAnswer(r) \/ PollFails(r) \/ PollLost(r)
    \/ Connect \/ StreamSend \/ StreamRead
    \/ StreamDies \/ StreamEnds \/ Reconnect
    \/ Crash
    \/ ReadTick \/ SendTx \/ PushFails
    \/ \E tx \in inflight : Land(tx) \/ Dropped(tx)
    \/ Publish \/ Calm \/ Tick \/ Rollback

Spec == Init /\ [][Next]_vars

(* The supervisor restarts the process, timers fire, fetch and read()      *)
(* return when there is something to return.  That a connection which      *)
(* broke unnoticed is ever reported nobody promises: neither PollLost's    *)
(* poll nor a dead stream has any fairness.                                *)
Fairness ==
    /\ WF_vars(Start \/ PollSend)
    /\ \A r \in Requests : WF_vars(PollAnswer(r) \/ PollFails(r))
    /\ WF_vars(Connect)
    /\ WF_vars(Reconnect)
    /\ WF_vars(StreamSend)
    /\ WF_vars(StreamRead)
    /\ WF_vars(Publish)

FairSpec == Spec /\ Fairness

----------------------------------------------------------------------------
(* Properties. *)

(* Types. *)
TypeOK ==
    /\ transport \in {"poll", "sse"}
    /\ source \in {"off", "starting", "running"}
    /\ tick \in Readings \cup {None}
    /\ polls \in [Requests -> Readings \cup {None}]
    /\ stream \in {"off", "connecting", "open", "dead", "backoff"}
    /\ stream # "off" => source = "running" /\ transport = "sse"
    /\ wire \in Seq(Readings)
    /\ push \in [age : Nat, wait : Nat] \cup {None}
    /\ inflight \subseteq [age : Nat, life : Int, ttl : 0 .. MaxTtl, lost : Nat]
    /\ oracle \in [age : Nat, since : Int, ttl : 0 .. MaxTtl, lost : Nat]
    /\ feed \in Readings
    /\ calm \in BOOLEAN

(* The oldest price a taker can be given by the curve: neither the order   *)
(* in which overlapping polls are answered, nor a transaction that lands   *)
(* long after the worker gave it up, adds to the four delays.  A rollback  *)
(* makes an update young again that was too old, or has it wait for the    *)
(* slot to catch up: that adds the slots lost, and no more.                *)
CurvePriceAge == CurveFresh => oracle.age <= PriceAgeBound(oracle.ttl) + oracle.lost

(* Why: an age is bounded stage by stage, by the time spent there so far;  *)
(* an update old enough stays too old, whatever may still be lost.         *)
PriceInv ==
    /\ push # None =>
        /\ push.wait <= RpcDelay
        /\ push.age <= MaxStaleness + push.wait
    /\ \A tx \in inflight :
        /\ tx.life <= BlockhashLife
        /\ tx.age <= MaxStaleness + RpcDelay + tx.life + tx.lost
    /\ \/ oracle.age <= PriceAgeBound(oracle.since) + oracle.lost
       \/ oracle.since + oracle.lost > MaxTtl + MaxRollback
    /\ oracle.lost <= MaxRollback
    /\ \A tx \in inflight : tx.lost <= MaxRollback

(* Over the event stream the cached price never goes back in time, in      *)
(* spite of the REST poll at start, lost connections and whole chunks of   *)
(* events at once.  (Over REST it may: polls overlap.)                     *)
StreamInOrder ==
    [][transport = "sse" /\ tick # None /\ tick' # None
         => tick'.age <= tick.age \/ Tick]_vars

(* Why: the one poll is over before the stream begins, and the tick, the   *)
(* events on the wire and the feed follow one another in age.              *)
OrderInv ==
    /\ source # "running" => tick = None /\ wire = <<>>
    /\ transport = "sse" =>
        /\ source # "starting" => polls = NoPolls
        /\ \A r, s \in Requests : polls[r] # None /\ polls[s] # None => r = s
        /\ \A r \in Requests : polls[r] # None => polls[r].age >= feed.age
        /\ \A i \in 1 .. Len(wire) : wire[i].age >= feed.age
        /\ \A i, j \in 1 .. Len(wire) : i < j => wire[i].age >= wire[j].age
        /\ tick # None =>
            /\ tick.age >= feed.age
            /\ \A i \in 1 .. Len(wire) : tick.age >= wire[i].age

(* The adapter awaits something that nothing will end but a failure        *)
(* reported at last, or a restart: fetch and read() have no time limit.    *)
Hung == stream = "dead" \/ (source = "starting" /\ polls = NoPolls)

(* "Reconnects on disconnect / network blip ... The keeper outlives any    *)
(* single TCP connection" (pyth.ts): wherever failures have left the poll, *)
(* the loop and the wire, once the network is sound the worker sees fresh  *)
(* prices again and again - unless a connection has broken unnoticed and   *)
(* stays so: then alone the adapter waits, for ever.                       *)
FeedRecovers == <>calm => []<>Fresh \/ <>[]Hung
=============================================================================
