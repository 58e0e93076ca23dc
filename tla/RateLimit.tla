----------------------------- MODULE RateLimit -----------------------------
(***************************************************************************)
(* api/src/rate_limit.ts behind its middleware: a sliding window per       *)
(* client, one bucket for all endpoints, each endpoint counted against a   *)
(* limit of its own, and a timer that sweeps the buckets.  isLimited does  *)
(* not await, so a request is one step.  `served` is history: which        *)
(* requests of a client went through, and when.                            *)
(***************************************************************************)
EXTENDS Integers, Sequences

CONSTANTS
    Clients,                   \* keys: x-forwarded-for, x-real-ip or "unknown"
    quoteLimit, defaultLimit,  \* requests per window, 30 and 60
    WINDOW                     \* RATE_WINDOW_MS, 1_000

ASSUME RateLimitConstants ==
    quoteLimit \in Nat \ {0} /\ defaultLimit \in Nat \ {0} /\ WINDOW \in Nat

Paths == {"/quote", "/swap"}

VARIABLES now, buckets, served

limiterVars == <<now, buckets, served>>

RateLimitInit ==
    /\ now = 0
    /\ buckets = [c \in Clients |-> <<>>]
    /\ served = [c \in Clients |-> <<>>]

Limit(path) == IF path = "/quote" THEN quoteLimit ELSE defaultLimit

(* Hits come in the order of time, so the stale ones are a prefix. *)
Fresh(hits, t) ==
    LET k == CHOOSE n \in 0 .. Len(hits) :
                 /\ \A i \in 1 .. n : hits[i] < t - WINDOW
                 /\ \A i \in n + 1 .. Len(hits) : hits[i] >= t - WINDOW
    IN  SubSeq(hits, k + 1, Len(hits))

IsLimited_OffByOne(c, path) == Len(Fresh(buckets[c], now)) > Limit(path)

IsLimited(c, path) == Len(Fresh(buckets[c], now)) >= Limit(path)

(* A request of c: a refused one leaves no hit, so refusals do not extend  *)
(* the time a client is kept out.                                          *)
Request(c, path) ==
    LET hits == Fresh(buckets[c], now) IN
    IF IsLimited(c, path)
    THEN /\ buckets' = [buckets EXCEPT ![c] = hits]
         /\ UNCHANGED <<now, served>>
    ELSE /\ buckets' = [buckets EXCEPT ![c] = Append(hits, now)]
         /\ served' = [served EXCEPT ![c] = Append(@, [path |-> path, at |-> now])]
         /\ UNCHANGED now

(* The sweep filters every bucket; an empty bucket is as good as none.     *)
Cleanup ==
    /\ buckets' = [c \in Clients |-> Fresh(buckets[c], now)]
    /\ UNCHANGED <<now, served>>

Tick ==
    /\ now' = now + 1
    /\ UNCHANGED <<buckets, served>>

RateLimitNext ==
    (\E c \in Clients, path \in Paths : Request(c, path)) \/ Cleanup \/ Tick

RateLimitSpec == RateLimitInit /\ [][RateLimitNext]_limiterVars

(* Whatever the mix of endpoints, refusals and sweeps: a request goes      *)
(* through only if, counting it, no more than its own limit went through   *)
(* in the window before it, requests to other endpoints included.          *)
WindowRespected ==
    \A c \in Clients : \A m \in 1 .. Len(served[c]) :
        LET L == Limit(served[c][m].path)
        IN  m > L => served[c][m].at - served[c][m - L].at > WINDOW
=============================================================================
