--------------------------- MODULE SwapPageProofs ---------------------------
(***************************************************************************)
(* The rate limiter never lets a client past its limit, whatever the       *)
(* number of clients, the limits, the window and the mix of endpoints; and *)
(* it keeps that promise where the swap page and others use it together.   *)
(*                                                                         *)
(* Inductive invariant: a bucket holds the times of the last requests      *)
(* served, in order, and every request it no longer holds is older than    *)
(* the window.  So a bucket of n hits means that at most n requests were   *)
(* served within the window.                                               *)
(***************************************************************************)
EXTENDS SwapPage, TLAPS, WellFoundedInduction, SequenceTheorems

Entries == [path : Paths, at : Nat]

Ordered(hist, t) ==
    \A i \in 1 .. Len(hist) :
        /\ hist[i].at <= t
        /\ \A j \in i .. Len(hist) : hist[i].at <= hist[j].at

(* hits are the times of the last of hist, and the others are stale at t.  *)
LastOf(hits, hist, t) ==
    /\ Len(hits) <= Len(hist)
    /\ \A i \in 1 .. Len(hits) : hits[i] = hist[Len(hist) - Len(hits) + i].at
    /\ \A i \in 1 .. Len(hist) - Len(hits) : hist[i].at < t - WINDOW

Spaced(hist) ==
    \A m \in 1 .. Len(hist) :
        m > Limit(hist[m].path)
            => hist[m].at - hist[m - Limit(hist[m].path)].at > WINDOW

LimiterInv ==
    /\ now \in Nat
    /\ buckets \in [Clients -> Seq(Nat)]
    /\ served \in [Clients -> Seq(Entries)]
    /\ \A c \in Clients :
        /\ Ordered(served[c], now)
        /\ LastOf(buckets[c], served[c], now)
        /\ Spaced(served[c])

----------------------------------------------------------------------------
(* A set of naturals that is not empty has a least element.                *)
LEMMA LeastElement ==
  ASSUME NEW T, T \subseteq Nat, T # {}
  PROVE  \E n \in T : \A m \in T : n <= m
  <1> DEFINE R == OpToRel(<, Nat)
  <1>1. IsWellFoundedOn(R, Nat)  BY NatLessThanWellFounded, Zenon
  <1>2. \A x, y \in Nat : x < y => <<x, y>> \in R  BY Zenon DEF OpToRel
  <1> HIDE DEF R
  <1>3. PICK x \in T : \A y \in T : ~ (<<y, x>> \in R)  BY WFMin, <1>1
  <1>4. ASSUME NEW m \in T PROVE x <= m
    <2>1. ~ (<<m, x>> \in R)  BY <1>3
    <2>2. x \in Nat /\ m \in Nat  OBVIOUS
    <2>3. ~ (m < x)  BY <1>2, <2>1, <2>2, Zenon
    <2> QED  BY <2>2, <2>3
  <1> QED  BY <1>4

(* Every endpoint serves at least one request.                             *)
LEMMA LimitPositive == \A path \in Paths : Limit(path) \in Nat \ {0}
  BY RateLimitConstants DEF Limit

(* What the history records of a request.                                  *)
LEMMA EntryTypes == \A e \in Entries : e.at \in Nat /\ e.path \in Paths
  BY DEF Entries

(* Fresh drops a prefix of an ordered bucket: there is exactly one place   *)
(* to cut it, the least n after which every hit is within the window.      *)
LEMMA FreshCut ==
  ASSUME NEW hits \in Seq(Nat), NEW t \in Nat,
         \A i \in 1 .. Len(hits) : \A j \in i .. Len(hits) : hits[i] <= hits[j]
  PROVE  \E k \in 0 .. Len(hits) :
            /\ \A i \in 1 .. k : hits[i] < t - WINDOW
            /\ Fresh(hits, t) = SubSeq(hits, k + 1, Len(hits))
  <1> DEFINE Cut(n) == /\ \A i \in 1 .. n : hits[i] < t - WINDOW
                       /\ \A i \in n + 1 .. Len(hits) : hits[i] >= t - WINDOW
             T == {n \in 0 .. Len(hits) :
                      \A i \in n + 1 .. Len(hits) : hits[i] >= t - WINDOW}
             K == CHOOSE n \in 0 .. Len(hits) : Cut(n)
  <1>1. Len(hits) \in Nat /\ WINDOW \in Nat  BY RateLimitConstants
  <1>2. T \subseteq Nat /\ T # {}
    <2>1. Len(hits) \in T  BY <1>1
    <2> QED  BY <2>1, <1>1
  <1>3. PICK k \in T : \A m \in T : k <= m
    <2> HIDE DEF T
    <2> QED  BY <1>2, LeastElement
  <1>4. ASSUME NEW i \in 1 .. k PROVE hits[i] < t - WINDOW
    <2>a. k \in Nat /\ k <= Len(hits)  BY <1>1
    <2>1. i - 1 \notin T
      <3> HIDE DEF T
      <3>1. ~ (k <= i - 1)  BY <2>a
      <3> QED  BY <3>1, <1>3
    <2>2. PICK j \in (i - 1) + 1 .. Len(hits) : ~ (hits[j] >= t - WINDOW)
      BY <2>a, <2>1, <1>1
    <2>3. i \in 1 .. Len(hits) /\ j \in i .. Len(hits)  BY <2>2, <1>1
    <2>4. hits[i] <= hits[j] /\ hits[i] \in Nat /\ hits[j] \in Nat  BY <2>3, <1>1
    <2> QED  BY <2>2, <2>4, <1>1
  <1>5. Cut(k) /\ k \in 0 .. Len(hits)  BY <1>4
  <1>6. K \in 0 .. Len(hits) /\ Cut(K)
    <2> HIDE DEF Cut
    <2> QED  BY <1>5
  <1>7. Fresh(hits, t) = SubSeq(hits, K + 1, Len(hits))  BY DEF Fresh
  <1> QED  BY <1>6, <1>7

(* So what Fresh leaves of a bucket is a bucket still.                     *)
LEMMA FreshIsTail ==
  ASSUME NEW hist \in Seq(Entries), NEW hits \in Seq(Nat), NEW t \in Nat,
         Ordered(hist, t), LastOf(hits, hist, t)
  PROVE  Fresh(hits, t) \in Seq(Nat) /\ LastOf(Fresh(hits, t), hist, t)
  <1>1. Len(hits) \in Nat /\ Len(hist) \in Nat /\ WINDOW \in Nat  BY RateLimitConstants
  <1>2. \A i \in 1 .. Len(hits) : hits[i] = hist[Len(hist) - Len(hits) + i].at
    BY DEF LastOf
  <1>3. ASSUME NEW i \in 1 .. Len(hits), NEW j \in i .. Len(hits)
        PROVE  hits[i] <= hits[j]
    <2> DEFINE d == Len(hist) - Len(hits)
    <2>1. d \in Nat  BY <1>1 DEF LastOf
    <2>2. j \in 1 .. Len(hits)  BY <1>1
    <2>3. d + i \in 1 .. Len(hist) /\ d + j \in (d + i) .. Len(hist)  BY <1>1, <2>1
    <2>4. hist[d + i].at <= hist[d + j].at  BY <2>3 DEF Ordered
    <2> QED  BY <2>4, <2>2, <1>2
  <1>4. PICK k \in 0 .. Len(hits) :
            /\ \A i \in 1 .. k : hits[i] < t - WINDOW
            /\ Fresh(hits, t) = SubSeq(hits, k + 1, Len(hits))
    BY <1>3, FreshCut
  <1> DEFINE f == SubSeq(hits, k + 1, Len(hits))
  <1>5. f \in Seq(Nat) /\ Len(f) = Len(hits) - k  BY <1>1
  <1>6. \A i \in 1 .. Len(f) : f[i] = hits[k + i]  BY <1>1, <1>5
  <1>7. LastOf(f, hist, t)
    <2> HIDE DEF f
    <2>1. Len(f) <= Len(hist)  BY <1>1, <1>5 DEF LastOf
    <2>2. ASSUME NEW i \in 1 .. Len(f)
          PROVE  f[i] = hist[Len(hist) - Len(f) + i].at
      <3>1. k + i \in 1 .. Len(hits)  BY <1>1, <1>5
      <3>2. f[i] = hist[Len(hist) - Len(hits) + (k + i)].at  BY <1>2, <1>6, <3>1
      <3>3. Len(hist) - Len(hits) + (k + i) = Len(hist) - Len(f) + i  BY <1>1, <1>5
      <3> QED  BY <3>2, <3>3
    <2>3. ASSUME NEW i \in 1 .. Len(hist) - Len(f)
          PROVE  hist[i].at < t - WINDOW
      <3> DEFINE d == Len(hist) - Len(hits)
      <3>1. d \in Nat  BY <1>1 DEF LastOf
      <3>2. CASE i <= d
        <4>1. i \in 1 .. Len(hist) - Len(hits)  BY <3>2, <3>1, <1>1, <1>5
        <4> QED  BY <4>1 DEF LastOf
      <3>3. CASE i > d
        <4>1. i - d \in 1 .. k /\ i - d \in 1 .. Len(hits)  BY <3>3, <3>1, <1>1, <1>5
        <4>2. hits[i - d] < t - WINDOW /\ hits[i - d] = hist[d + (i - d)].at
          BY <4>1, <1>2, <1>4
        <4>3. d + (i - d) = i  BY <3>1, <1>1
        <4> QED  BY <4>2, <4>3
      <3> QED  BY <3>2, <3>3, <3>1, <1>1
    <2> QED  BY <2>1, <2>2, <2>3 DEF LastOf
  <1> QED  BY <1>4, <1>5, <1>7

----------------------------------------------------------------------------
(* A request, served or refused, keeps the bucket what it is.              *)
LEMMA RequestKeepsLimiter ==
  ASSUME LimiterInv, NEW c \in Clients, NEW path \in Paths, Request(c, path)
  PROVE  LimiterInv'
  <1> DEFINE hits == Fresh(buckets[c], now)
             hist == served[c]
  <1>1. /\ now \in Nat /\ buckets[c] \in Seq(Nat) /\ hist \in Seq(Entries)
        /\ Ordered(hist, now) /\ LastOf(buckets[c], hist, now) /\ Spaced(hist)
    BY DEF LimiterInv
  <1>2. hits \in Seq(Nat) /\ LastOf(hits, hist, now)  BY <1>1, FreshIsTail
  <1> HIDE DEF hits
  <1>3. CASE IsLimited(c, path)
    <2>1. buckets' = [buckets EXCEPT ![c] = hits] /\ served' = served /\ now' = now
      BY <1>3 DEF Request, hits
    <2> QED  BY <2>1, <1>2 DEF LimiterInv
  <1>4. CASE ~ IsLimited(c, path)
    <2> DEFINE e == [path |-> path, at |-> now]
    <2>1. /\ buckets' = [buckets EXCEPT ![c] = Append(hits, now)]
          /\ served' = [served EXCEPT ![c] = Append(hist, e)]
          /\ now' = now
      BY <1>4 DEF Request, hits
    <2>2. Len(hits) < Limit(path) /\ Limit(path) \in Nat \ {0}
      BY <1>2, <1>4, LimitPositive DEF IsLimited, hits
    <2>3. e \in Entries /\ e.path = path /\ e.at = now  BY <1>1 DEF Entries
    <2> DEFINE h == Append(hist, e)
               b == Append(hits, now)
               n == Len(hist)
    <2>4. /\ n \in Nat /\ Len(hits) \in Nat /\ h \in Seq(Entries) /\ b \in Seq(Nat)
          /\ Len(h) = n + 1 /\ h[n + 1] = e /\ \A i \in 1 .. n : h[i] = hist[i]
          /\ Len(b) = Len(hits) + 1 /\ b[Len(hits) + 1] = now
          /\ \A i \in 1 .. Len(hits) : b[i] = hits[i]
      BY <1>1, <1>2, <2>3
    <2>5. \A i \in 1 .. n : hist[i] \in Entries /\ hist[i].at \in Nat /\ hist[i].path \in Paths
      BY <1>1, EntryTypes
    <2> HIDE DEF h, b, e
    <2>6. Ordered(h, now)
      <3> SUFFICES \A i \in 1 .. n + 1 :
                       h[i].at <= now /\ \A j \in i .. n + 1 : h[i].at <= h[j].at
        BY <2>4 DEF Ordered
      <3> TAKE i \in 1 .. n + 1
      <3>1. CASE i = n + 1  BY <3>1, <1>1, <2>3, <2>4
      <3>2. CASE i \in 1 .. n
        <4>1. h[i].at <= now  BY <3>2, <1>1, <2>4 DEF Ordered
        <4>2. ASSUME NEW j \in i .. n + 1 PROVE h[i].at <= h[j].at
          <5>1. CASE j = n + 1  BY <5>1, <4>1, <2>3, <2>4
          <5>2. CASE j \in i .. n
            <6>1. j \in 1 .. n  BY <3>2, <5>2, <2>4
            <6> QED  BY <3>2, <5>2, <6>1, <1>1, <2>4 DEF Ordered
          <5> QED  BY <5>1, <5>2, <2>4
        <4> QED  BY <4>1, <4>2
      <3> QED  BY <3>1, <3>2, <2>4
    <2>7. LastOf(b, h, now)
      <3>a. n \in Nat /\ Len(hits) \in Nat /\ Len(h) = n + 1 /\ Len(b) = Len(hits) + 1
        BY <2>4
      <3>1. Len(b) <= Len(h)  BY <1>2, <2>4 DEF LastOf
      <3>2. ASSUME NEW i \in 1 .. Len(b) PROVE b[i] = h[Len(h) - Len(b) + i].at
        <4>1. CASE i = Len(hits) + 1
          <5>1. Len(h) - Len(b) + i = n + 1
            <6> HIDE DEF n
            <6> QED  BY <4>1, <3>a
          <5> QED  BY <4>1, <5>1, <2>3, <2>4
        <4>2. CASE i \in 1 .. Len(hits)
          <5>1. Len(h) - Len(b) + i = n - Len(hits) + i  BY <2>4
          <5>2. n - Len(hits) + i \in 1 .. n  BY <4>2, <2>4, <1>2 DEF LastOf
          <5>3. b[i] = hits[i] /\ hits[i] = hist[n - Len(hits) + i].at
            BY <4>2, <2>4, <1>2 DEF LastOf
          <5>4. h[n - Len(hits) + i] = hist[n - Len(hits) + i]  BY <5>2, <2>4
          <5> QED  BY <5>1, <5>3, <5>4
        <4> QED  BY <4>1, <4>2, <2>4
      <3>3. ASSUME NEW i \in 1 .. Len(h) - Len(b) PROVE h[i].at < now - WINDOW
        <4>1. i \in 1 .. n - Len(hits) /\ i \in 1 .. n  BY <2>4
        <4> QED  BY <4>1, <2>4, <1>2 DEF LastOf
      <3> QED  BY <3>1, <3>2, <3>3 DEF LastOf
    <2>8. Spaced(h)
      <3> SUFFICES ASSUME NEW m \in 1 .. n + 1, m > Limit(h[m].path)
                   PROVE  h[m].at - h[m - Limit(h[m].path)].at > WINDOW
        BY <2>4 DEF Spaced
      <3>1. CASE m = n + 1
        <4> DEFINE L == Limit(path)
        <4>a. L \in Nat \ {0} /\ m > L  BY <3>1, <2>2, <2>3, <2>4
        <4>1. h[m] = e /\ Limit(h[m].path) = L  BY <3>1, <2>3, <2>4
        <4>2. m - L \in 1 .. n - Len(hits) /\ m - L \in 1 .. n
          <5> HIDE DEF L
          <5>1. Len(hits) < L  BY <2>2 DEF L
          <5> QED  BY <3>1, <4>a, <5>1, <2>4
        <4>3. h[m - L] = hist[m - L] /\ hist[m - L].at < now - WINDOW
          BY <4>2, <2>4, <1>2 DEF LastOf
        <4>4. hist[m - L].at \in Nat /\ WINDOW \in Nat  BY <4>2, <2>5, RateLimitConstants
        <4> HIDE DEF L
        <4> QED  BY <4>1, <4>3, <4>4, <2>3, <1>1
      <3>2. CASE m \in 1 .. n
        <4> DEFINE L == Limit(hist[m].path)
        <4>1. h[m] = hist[m] /\ L \in Nat \ {0}  BY <3>2, <2>4, <2>5, LimitPositive
        <4>2. m - L \in 1 .. n /\ m > L  BY <3>2, <4>1, <2>4
        <4>3. h[m - L] = hist[m - L]  BY <4>2, <2>4
        <4>4. hist[m].at - hist[m - L].at > WINDOW  BY <3>2, <4>2, <1>1 DEF Spaced
        <4> HIDE DEF L
        <4> QED  BY <4>1, <4>3, <4>4 DEF L
      <3> QED  BY <3>1, <3>2, <2>4
    <2> QED
      <3>1. /\ now' = now
            /\ buckets' \in [Clients -> Seq(Nat)]
            /\ served' \in [Clients -> Seq(Entries)]
        BY <2>1, <2>4 DEF LimiterInv, h, b
      <3>2. ASSUME NEW d \in Clients
            PROVE  /\ Ordered(served'[d], now) /\ LastOf(buckets'[d], served'[d], now)
                   /\ Spaced(served'[d])
        <4>1. CASE d = c
          <5>1. served'[d] = h /\ buckets'[d] = b  BY <4>1, <2>1 DEF LimiterInv, h, b
          <5> QED  BY <5>1, <2>6, <2>7, <2>8
        <4>2. CASE d # c
          <5>1. served'[d] = served[d] /\ buckets'[d] = buckets[d]
            BY <4>2, <2>1 DEF LimiterInv
          <5> QED  BY <5>1 DEF LimiterInv
        <4> QED  BY <4>1, <4>2
      <3> QED  BY <3>1, <3>2, <1>1 DEF LimiterInv
  <1> QED  BY <1>3, <1>4

(* Every step of the limiter keeps its invariant.                          *)
LEMMA LimiterStep == LimiterInv /\ [RateLimitNext]_limiterVars => LimiterInv'
  <1> SUFFICES ASSUME LimiterInv, [RateLimitNext]_limiterVars PROVE LimiterInv'
    OBVIOUS
  <1>1. ASSUME NEW c \in Clients, NEW path \in Paths, Request(c, path) PROVE LimiterInv'
    BY <1>1, RequestKeepsLimiter
  <1>2. CASE Cleanup
    <2>1. \A c \in Clients : /\ Fresh(buckets[c], now) \in Seq(Nat)
                             /\ LastOf(Fresh(buckets[c], now), served[c], now)
      BY FreshIsTail DEF LimiterInv
    <2> QED  BY <1>2, <2>1 DEF Cleanup, LimiterInv
  <1>3. CASE Tick
    <2>1. now' \in Nat /\ now' = now + 1 /\ UNCHANGED <<buckets, served>>
      BY <1>3 DEF Tick, LimiterInv
    <2>2. ASSUME NEW c \in Clients
          PROVE  Ordered(served[c], now + 1) /\ LastOf(buckets[c], served[c], now + 1)
      <3>1. /\ now \in Nat /\ WINDOW \in Nat /\ served[c] \in Seq(Entries)
            /\ buckets[c] \in Seq(Nat)
            /\ Ordered(served[c], now) /\ LastOf(buckets[c], served[c], now)
        BY RateLimitConstants DEF LimiterInv
      <3>2. \A i \in 1 .. Len(served[c]) : served[c][i].at \in Nat
        BY <3>1, EntryTypes
      <3>3. Ordered(served[c], now + 1)  BY <3>1, <3>2 DEF Ordered
      <3>4. \A i \in 1 .. Len(served[c]) - Len(buckets[c]) : i \in 1 .. Len(served[c])
        BY <3>1
      <3>5. \A i \in 1 .. Len(served[c]) - Len(buckets[c]) :
                served[c][i].at < (now + 1) - WINDOW
        <4> SUFFICES ASSUME NEW i \in 1 .. Len(served[c]) - Len(buckets[c])
                     PROVE  served[c][i].at < (now + 1) - WINDOW
          OBVIOUS
        <4>1. served[c][i].at < now - WINDOW  BY <3>1 DEF LastOf
        <4>2. served[c][i].at \in Nat  BY <3>2, <3>4
        <4> QED  BY <4>1, <4>2, <3>1
      <3>6. LastOf(buckets[c], served[c], now + 1)  BY <3>1, <3>5 DEF LastOf
      <3> QED  BY <3>3, <3>6
    <2> QED  BY <2>1, <2>2 DEF LimiterInv
  <1>4. CASE UNCHANGED limiterVars  BY <1>4 DEF limiterVars, LimiterInv
  <1> QED  BY <1>1, <1>2, <1>3, <1>4 DEF RateLimitNext

(* No bucket at first.                                                     *)
LEMMA LimiterInit == RateLimitInit => LimiterInv
  <1> SUFFICES ASSUME RateLimitInit PROVE LimiterInv  OBVIOUS
  <1>1. now = 0 /\ \A c \in Clients : buckets[c] = <<>> /\ served[c] = <<>>
    BY DEF RateLimitInit
  <1>2. buckets \in [Clients -> Seq(Nat)] /\ served \in [Clients -> Seq(Entries)]
    BY DEF RateLimitInit
  <1>3. \A t \in Nat : Ordered(<<>>, t) /\ LastOf(<<>>, <<>>, t) /\ Spaced(<<>>)
    BY DEF Ordered, LastOf, Spaced
  <1> QED  BY <1>1, <1>2, <1>3 DEF LimiterInv

(* The limiter on its own: for every number of clients, every pair of      *)
(* limits and every window, a request goes through only if, with it, no    *)
(* more than its limit went through in the window.                         *)
THEOREM LimiterRespectsWindow == RateLimitSpec => []WindowRespected
  <1>1. LimiterInv => WindowRespected  BY DEF LimiterInv, Spaced, WindowRespected
  <1> QED  BY <1>1, LimiterInit, LimiterStep, PTL DEF RateLimitSpec

(* In the composition every step is a step of the limiter or leaves it     *)
(* alone: page and others reach the buckets only through it.               *)
THEOREM PageImplementsLimiter == Spec => RateLimitSpec
  <1>1. Init => RateLimitInit  BY DEF Init
  <1>2. [Next]_vars => [RateLimitNext]_limiterVars
    <2> SUFFICES ASSUME Next PROVE RateLimitNext \/ UNCHANGED limiterVars
      BY DEF vars, limiterVars
    <2>1. CASE SlotPasses  BY <2>1 DEF SlotPasses, RateLimitNext
    <2>2. ASSUME NEW path \in Paths, OthersRequest(path) PROVE RateLimitNext
      BY <2>2, SwapPageConstants DEF OthersRequest, RateLimitNext
    <2>3. CASE Sweep  BY <2>3 DEF Sweep, RateLimitNext
    <2>4. CASE AskQuote
      <3>1. "/quote" \in Paths /\ Request(ThisClient, "/quote")  BY <2>4 DEF AskQuote, Paths
      <3> QED  BY <3>1, SwapPageConstants DEF RateLimitNext
    <2>5. CASE AskSwap
      <3>1. "/swap" \in Paths /\ Request(ThisClient, "/swap")  BY <2>5 DEF AskSwap, Paths
      <3> QED  BY <3>1, SwapPageConstants DEF RateLimitNext
    <2>6. CASE \/ \E u \in Updates : KeeperPushes(u)
               \/ AdminPauses
               \/ \E v \in VaultChoices : OthersTrade(v)
      BY <2>6 DEF KeeperPushes, AdminPauses, OthersTrade
    <2>7. CASE \/ PollPool \/ PollSlot
               \/ \E a \in polls : PollAnswered(a) \/ PollFails(a)
               \/ \E failed \in VaultFaults : LoadVaults(failed)
               \/ \E f \in Forms : Edit(f)
      BY <2>7 DEF PollPool, PollSlot, PollAnswered, PollFails, LoadVaults, Edit
    <2>8. CASE Click \/ PreFlight \/ Interrupted
      BY <2>8 DEF Click, PreFlight, Interrupted
    <2>9. CASE Confirmed \/ TimesOut \/ \E t \in late : LandsLate(t)
      BY <2>9 DEF Confirmed, TimesOut, LandsLate
    <2> QED  BY <2>1, <2>2, <2>3, <2>4, <2>5, <2>6, <2>7, <2>8, <2>9 DEF Next
  <1> QED  BY <1>1, <1>2, PTL DEF Spec, RateLimitSpec

(* So behind a limiter shared with others the page, too, is never served   *)
(* past the limit.                                                         *)
THEOREM PageRespectsWindow == Spec => []WindowRespected
  BY LimiterRespectsWindow, PageImplementsLimiter, PTL

----------------------------------------------------------------------------
(* The page trades as it was clicked, for every number of clicks.          *)
(* Inductive invariant: the swap in progress and every transaction given   *)
(* up carry what their click was made with, each click has one of these at *)
(* most, and none that has traded has any.                                 *)

IsSeq(s) == \E S : s \in Seq(S)

Carries(r) ==
    /\ r.click \in 1 .. Len(clicked)
    /\ r.side = clicked[r.click].side
    /\ r.input = clicked[r.click].input
    /\ r.min = clicked[r.click].min

Untraded(r) == \A i \in 1 .. Len(trades) : trades[i].click # r.click

ClickFields == {"click", "side", "input", "min", "quote", "at"}

ClickInv ==
    /\ IsSeq(clicked) /\ IsSeq(trades)
    /\ req # None =>
        /\ ClickFields \subseteq DOMAIN req
        /\ Carries(req) /\ Untraded(req)
        /\ \A t \in late : t.click # req.click
    /\ \A t \in late : Carries(t) /\ Untraded(t)
    /\ \A t, u \in late : t.click = u.click => t = u
    /\ \A i \in 1 .. Len(trades) : trades[i].click \in 1 .. Len(clicked)
    /\ TradesAsClicked

(* What appending to a sequence does.                                      *)
LEMMA Appending ==
  ASSUME NEW s, IsSeq(s), NEW e
  PROVE  /\ IsSeq(Append(s, e))
         /\ Len(s) \in Nat
         /\ Len(Append(s, e)) = Len(s) + 1
         /\ \A i \in 1 .. Len(s) : Append(s, e)[i] = s[i]
         /\ Append(s, e)[Len(s) + 1] = e
  <1>1. PICK S : s \in Seq(S)  BY DEF IsSeq
  <1>2. s \in Seq(S \cup {e})  BY <1>1
  <1>3. e \in S \cup {e}  OBVIOUS
  <1>4. Append(s, e) \in Seq(S \cup {e})  BY <1>2, <1>3, AppendProperties
  <1>5. Len(s) \in Nat  BY <1>1
  <1>6. IsSeq(Append(s, e))  BY <1>4 DEF IsSeq
  <1> HIDE DEF IsSeq
  <1> QED  BY <1>2, <1>3, <1>5, <1>6, AppendProperties

(* A swap that only moves on, or is dropped. *)
LEMMA MovesOn ==
  ASSUME ClickInv, UNCHANGED <<clicked, trades, late>>,
         \/ req' = None
         \/ req' = req
         \/ /\ req # None /\ ClickFields \subseteq DOMAIN req'
            /\ req'.click = req.click /\ req'.side = req.side
            /\ req'.input = req.input /\ req'.min = req.min
  PROVE  ClickInv'
  <1>1. CASE req' = None
    BY <1>1 DEF ClickInv, Carries, Untraded, TradesAsClicked
  <1>2. CASE req' = req
    BY <1>2 DEF ClickInv, Carries, Untraded, TradesAsClicked
  <1>3. CASE /\ req # None /\ ClickFields \subseteq DOMAIN req'
             /\ req'.click = req.click /\ req'.side = req.side
             /\ req'.input = req.input /\ req'.min = req.min
    <2>1. Carries(req') /\ Untraded(req')
      BY <1>3 DEF ClickInv, Carries, Untraded
    <2>2. (Carries(req))' /\ (Untraded(req))'  BY <2>1 DEF Carries, Untraded
    <2> QED  BY <1>3, <2>2 DEF ClickInv, Carries, Untraded, TradesAsClicked
  <1> QED  BY <1>1, <1>2, <1>3

(* A transaction of an untraded click runs: if it trades, the new trade is *)
(* the click's only one.                                                   *)
LEMMA Executed ==
  ASSUME ClickInv, NEW t, Carries(t), Untraded(t), Execute(t), UNCHANGED clicked
  PROVE  /\ IsSeq(trades') /\ TradesAsClicked'
         /\ \A i \in 1 .. Len(trades') : trades'[i].click \in 1 .. Len(clicked')
         /\ \A r : Untraded(r) /\ r.click # t.click => (Untraded(r))'
  <1>1. CASE UNCHANGED trades
    BY <1>1 DEF ClickInv, Untraded, TradesAsClicked
  <1>2. CASE \E out : /\ out >= t.min
                      /\ trades' = Append(trades, [click |-> t.click, side |-> t.side,
                                                   input |-> t.input, out |-> out])
    <2>1. PICK out : /\ out >= t.min
                     /\ trades' = Append(trades, [click |-> t.click, side |-> t.side,
                                                  input |-> t.input, out |-> out])
      BY <1>2
    <2> DEFINE e == [click |-> t.click, side |-> t.side, input |-> t.input, out |-> out]
    <2>2. /\ e.click = t.click /\ e.side = t.side /\ e.input = t.input /\ e.out = out
      OBVIOUS
    <2>3. /\ IsSeq(trades') /\ Len(trades) \in Nat /\ Len(trades') = Len(trades) + 1
          /\ \A i \in 1 .. Len(trades) : trades'[i] = trades[i]
          /\ trades'[Len(trades) + 1] = e
      BY <2>1, Appending DEF ClickInv
    <2> HIDE DEF e
    <2>4. \A i \in 1 .. Len(trades') : i \in 1 .. Len(trades) \/ i = Len(trades) + 1
      BY <2>3
    <2>5. \A i \in 1 .. Len(trades) : trades[i].click # t.click  BY DEF Untraded
    <2>6. \A i \in 1 .. Len(trades') :
            LET x == trades'[i]
                c == clicked[x.click]
            IN  x.side = c.side /\ x.input = c.input /\ x.out >= c.min
      BY <2>1, <2>2, <2>3, <2>4 DEF ClickInv, TradesAsClicked, Carries
    <2>7. ASSUME NEW i \in 1 .. Len(trades'), NEW j \in 1 .. Len(trades'),
                 trades'[i].click = trades'[j].click
          PROVE  i = j
      <3>1. \A k, m \in 1 .. Len(trades) : trades[k].click = trades[m].click => k = m
        BY DEF ClickInv, TradesAsClicked
      <3>2. \A k \in 1 .. Len(trades) : trades'[k].click # trades'[Len(trades) + 1].click
        BY <2>2, <2>3, <2>5
      <3>3. CASE i \in 1 .. Len(trades) /\ j \in 1 .. Len(trades)
        BY <2>3, <2>7, <3>1, <3>3
      <3>4. CASE i = Len(trades) + 1 \/ j = Len(trades) + 1
        BY <2>4, <2>7, <3>2, <3>4
      <3> QED  BY <2>4, <3>3, <3>4
    <2>8. \A i \in 1 .. Len(trades') : trades'[i].click \in 1 .. Len(clicked')
      BY <2>2, <2>3, <2>4 DEF ClickInv, Carries
    <2>9. \A r : Untraded(r) /\ r.click # t.click => (Untraded(r))'
      BY <2>2, <2>3, <2>4 DEF Untraded
    <2> QED  BY <2>3, <2>6, <2>7, <2>8, <2>9 DEF TradesAsClicked
  <1> QED  BY <1>1, <1>2 DEF Execute

(* A click starts a swap of its own.                                       *)
LEMMA Clicks == ClickInv /\ Click => ClickInv'
  <1> SUFFICES ASSUME ClickInv, Click PROVE ClickInv'  OBVIOUS
  <1> DEFINE c == [side |-> form.side, input |-> form.input, min |-> MinOutput]
  <1>1. clicked' = Append(clicked, c) /\ req = None /\ UNCHANGED <<trades, late>>
    BY DEF Click, CanSubmit, chain
  <1>2. c.side = form.side /\ c.input = form.input /\ c.min = MinOutput  OBVIOUS
  <1>3. /\ req'.click = Len(clicked') /\ req'.side = form.side
        /\ req'.input = form.input /\ req'.min = MinOutput
        /\ ClickFields \subseteq DOMAIN req'
    BY DEF Click, ClickFields
  <1> HIDE DEF c
  <1>4. /\ IsSeq(clicked') /\ Len(clicked) \in Nat /\ Len(clicked') = Len(clicked) + 1
        /\ \A i \in 1 .. Len(clicked) : clicked'[i] = clicked[i]
        /\ clicked'[Len(clicked) + 1] = c
    BY <1>1, Appending DEF ClickInv
  <1>5. \A r : Carries(r) => (Carries(r))' /\ r.click # Len(clicked')
    BY <1>4 DEF Carries
  <1>6. (Carries(req))'  BY <1>2, <1>3, <1>4 DEF Carries
  <1>7. \A i \in 1 .. Len(trades) : trades[i].click # Len(clicked')
    BY <1>4 DEF ClickInv
  <1>8. (Untraded(req))'  BY <1>1, <1>3, <1>7 DEF Untraded
  <1>9. \A t \in late : (Carries(t))' /\ (Untraded(t))' /\ t.click # Len(clicked')
    BY <1>1, <1>5 DEF ClickInv, Untraded
  <1>10. TradesAsClicked'
    BY <1>1, <1>4 DEF ClickInv, TradesAsClicked
  <1>11. \A i \in 1 .. Len(trades') : trades'[i].click \in 1 .. Len(clicked')
    BY <1>1, <1>4 DEF ClickInv
  <1>12. IsSeq(trades') /\ \A t, u \in late' : t.click = u.click => t = u
    BY <1>1 DEF ClickInv
  <1>13. \A t \in late' : t.click # req'.click  BY <1>1, <1>3, <1>9
  <1>14. \A t \in late' : (Carries(t))' /\ (Untraded(t))'  BY <1>1, <1>9
  <1> QED
    BY <1>3, <1>4, <1>6, <1>8, <1>10, <1>11, <1>12, <1>13, <1>14 DEF ClickInv

(* A transaction carries what the swap in progress carries.                *)
LEMMA TxFields ==
  /\ Tx(req).click = req.click /\ Tx(req).side = req.side
  /\ Tx(req).input = req.input /\ Tx(req).min = req.min
  BY DEF Tx

(* A transaction lands for the page, is given up by it, or lands late.     *)
LEMMA Landings ==
  ASSUME ClickInv, Confirmed \/ TimesOut \/ \E t \in late : LandsLate(t)
  PROVE  ClickInv'
  <1>1. CASE Confirmed
    <2> DEFINE tx == Tx(req)
    <2>1. /\ req # None /\ Execute(tx) /\ req' = None /\ UNCHANGED <<clicked, late>>
      BY <1>1 DEF Confirmed, At
    <2>2. /\ Carries(tx) /\ Untraded(tx) /\ \A t \in late : t.click # tx.click
      BY <2>1, TxFields DEF ClickInv, Carries, Untraded
    <2> HIDE DEF tx
    <2>3. /\ IsSeq(trades') /\ TradesAsClicked'
          /\ \A i \in 1 .. Len(trades') : trades'[i].click \in 1 .. Len(clicked')
          /\ \A r : Untraded(r) /\ r.click # tx.click => (Untraded(r))'
      BY <2>1, <2>2, Executed
    <2>4. \A t \in late : (Carries(t))' /\ (Untraded(t))'
      BY <2>1, <2>2, <2>3 DEF ClickInv, Carries
    <2> QED  BY <2>1, <2>3, <2>4 DEF ClickInv
  <1>2. CASE TimesOut
    <2> DEFINE tx == Tx(req)
    <2>1. /\ req # None /\ req' = None /\ late' = late \cup {tx}
          /\ UNCHANGED <<clicked, trades>>
      BY <1>2 DEF TimesOut, At, Fail, chain
    <2>2. /\ Carries(tx) /\ Untraded(tx) /\ \A t \in late : t.click # tx.click
      BY <2>1, TxFields DEF ClickInv, Carries, Untraded
    <2> HIDE DEF tx
    <2>3. \A t \in late' : (Carries(t))' /\ (Untraded(t))'
      BY <2>1, <2>2 DEF ClickInv, Carries, Untraded
    <2>4. \A t, u \in late' : t.click = u.click => t = u
      BY <2>1, <2>2 DEF ClickInv
    <2> QED  BY <2>1, <2>3, <2>4 DEF ClickInv, TradesAsClicked
  <1>3. ASSUME NEW tx \in late, LandsLate(tx) PROVE ClickInv'
    <2>1. Execute(tx) /\ late' = late \ {tx} /\ UNCHANGED <<req, clicked>>
      BY <1>3 DEF LandsLate
    <2>2. Carries(tx) /\ Untraded(tx)  BY DEF ClickInv
    <2>3. /\ IsSeq(trades') /\ TradesAsClicked'
          /\ \A i \in 1 .. Len(trades') : trades'[i].click \in 1 .. Len(clicked')
          /\ \A r : Untraded(r) /\ r.click # tx.click => (Untraded(r))'
      BY <2>1, <2>2, Executed
    <2>4. \A t \in late' : (Carries(t))' /\ (Untraded(t))'
      BY <2>1, <2>3 DEF ClickInv, Carries
    <2>5. req # None => (Carries(req))' /\ (Untraded(req))'
      <3>1. req # None => req.click # tx.click  BY DEF ClickInv
      <3>2. req # None => Untraded(req) /\ Carries(req)  BY DEF ClickInv
      <3>3. req # None => \A i \in 1 .. Len(trades') : trades'[i].click # req.click
        BY <2>3, <3>1, <3>2 DEF Untraded
      <3> QED  BY <2>1, <3>2, <3>3 DEF Carries, Untraded
    <2> QED  BY <2>1, <2>3, <2>4, <2>5 DEF ClickInv
  <1> QED  BY <1>1, <1>2, <1>3

(* Whatever is edited, polled or pushed between a click and the block, and *)
(* however late a transaction lands: what was clicked is what is traded,   *)
(* at most once.                                                           *)
THEOREM PageTradesAsClicked == Spec => []TradesAsClicked
  <1>1. Init => ClickInv
    <2>1. IsSeq(<<>>)
      <3>1. <<>> \in Seq({})  OBVIOUS
      <3> QED  BY <3>1 DEF IsSeq
    <2> QED  BY <2>1 DEF Init, ClickInv, TradesAsClicked
  <1>2. ClickInv /\ [Next]_vars => ClickInv'
    <2> SUFFICES ASSUME ClickInv, [Next]_vars PROVE ClickInv'  OBVIOUS
    <2>1. CASE \/ \E u \in Updates : KeeperPushes(u)
               \/ AdminPauses
               \/ \E v \in VaultChoices : OthersTrade(v)
               \/ SlotPasses
               \/ \E path \in Paths : OthersRequest(path)
               \/ Sweep
      <3>1. UNCHANGED <<clicked, trades, late, req>>
        BY <2>1 DEF KeeperPushes, AdminPauses, OthersTrade, SlotPasses, OthersRequest,
                    Sweep, chain
      <3> QED  BY <3>1, MovesOn
    <2>2. CASE \/ PollPool \/ PollSlot
               \/ \E a \in polls : PollAnswered(a) \/ PollFails(a)
               \/ \E failed \in VaultFaults : LoadVaults(failed)
               \/ \E f \in Forms : Edit(f)
      <3>1. UNCHANGED <<clicked, trades, late, req>>
        BY <2>2 DEF PollPool, PollSlot, PollAnswered, PollFails, LoadVaults, Edit, chain
      <3> QED  BY <3>1, MovesOn
    <2>3. CASE AskQuote \/ PreFlight \/ AskSwap \/ Interrupted
      <3>1. req # None /\ UNCHANGED <<clicked, trades, late>>
        BY <2>3 DEF AskQuote, PreFlight, AskSwap, Interrupted, At, chain
      <3>2. ClickFields \subseteq DOMAIN req  BY <3>1 DEF ClickInv
      <3>3. \/ req' = None
            \/ \E at : req' = [req EXCEPT !.at = at]
            \/ \E at, q : req' = [req EXCEPT !.at = at, !.quote = q]
        BY <2>3, Zenon DEF AskQuote, PreFlight, AskSwap, Interrupted, Fail
      <3>4. CASE \E at : req' = [req EXCEPT !.at = at]
        <4>1. /\ ClickFields \subseteq DOMAIN req'
              /\ req'.click = req.click /\ req'.side = req.side
              /\ req'.input = req.input /\ req'.min = req.min
          BY <3>2, <3>4 DEF ClickFields
        <4> QED  BY <3>1, <4>1, MovesOn
      <3>5. CASE \E at, q : req' = [req EXCEPT !.at = at, !.quote = q]
        <4>1. /\ ClickFields \subseteq DOMAIN req'
              /\ req'.click = req.click /\ req'.side = req.side
              /\ req'.input = req.input /\ req'.min = req.min
          BY <3>2, <3>5 DEF ClickFields
        <4> QED  BY <3>1, <4>1, MovesOn
      <3>6. CASE req' = None  BY <3>1, <3>6, MovesOn
      <3> QED  BY <3>3, <3>4, <3>5, <3>6
    <2>4. CASE Click  BY <2>4, Clicks
    <2>5. CASE Confirmed \/ TimesOut \/ \E t \in late : LandsLate(t)
      BY <2>5, Landings
    <2>6. CASE UNCHANGED vars
      <3>1. UNCHANGED <<clicked, trades, late, req>>  BY <2>6 DEF vars, chain
      <3> QED  BY <3>1, MovesOn
    <2> QED  BY <2>1, <2>2, <2>3, <2>4, <2>5, <2>6 DEF Next
  <1>3. ClickInv => TradesAsClicked  BY DEF ClickInv
  <1> QED  BY <1>1, <1>2, <1>3, PTL DEF Spec
=============================================================================
