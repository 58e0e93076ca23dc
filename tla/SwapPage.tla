------------------------------ MODULE SwapPage ------------------------------
(***************************************************************************)
(* The swap page of the web app (app/src/app/swap/page.tsx with its hooks) *)
(* between a user, the RFQ service and the pool.  It polls the pool, the   *)
(* vaults and the slot each on its own, simulates the curve on what it     *)
(* holds, and on a click trades on the curve when it thinks the curve is   *)
(* fresh, and otherwise asks /quote, looks at the slot, asks /swap and     *)
(* sends what was signed.  Meanwhile the keeper pushes, the admin pauses,  *)
(* others trade, and every answer may be late, out of order or missing.    *)
(*                                                                         *)
(* The handlers of the service are one step each here (Rfq has them await  *)
(* by await), behind the rate limiter; the program is its swap alone (Pool *)
(* has the rest).  `now` is the slot, and the limiter's clock.             *)
(***************************************************************************)
EXTENDS RateLimit, QuotePricing, SdkCurve, FiniteSets

CONSTANTS
    None,
    ThisClient,             \* the limiter's key for this browser, "unknown" for all
                            \* who come without a proxy's header
    Updates,                \* [p : PriceParams, ttl : Nat], what the keeper may push
    VaultChoices,           \* [base, quote], what others' trades may leave
    Initial, InitialVaults, \* one of each to start with
    Forms,                  \* [side, input, slippage], what the user may enter
    QuoteValidWindowSlots, MmMaxDriftBps,
    VaultFaults,            \* which of the two vault reads may fail together
    SlotLag,                \* how far a node's getSlot may be behind
    RoundingBps,            \* what one unit of price and output is worth, at most
    MaxSlot, MaxClicks, MaxPolls, MaxServed   \* bounds

ASSUME SwapPageConstants ==
    /\ ThisClient \in Clients /\ Initial \in Updates /\ InitialVaults \in VaultChoices
    /\ \A u \in Updates : u.p \in PriceParams /\ ParamsOK(u.p) /\ u.ttl \in Nat
    /\ VaultFaults \subseteq SUBSET {"base", "quote"}
    /\ \A f \in Forms : f.side \in Sides /\ f.input \in Nat \ {0}
                        /\ f.slippage \in 0 .. BPS_DENOMINATOR - 1

VARIABLES
    pool, vaults,            \* on chain
    view, polls,             \* usePoolState: what it holds, answers on their way
    seen, load,              \* the reserves shown, and whether a read is under way
    seen_slot,               \* useCurveFreshness
    form,
    req,                     \* submitSwap in progress: what its closure holds
    late,                    \* sent, given up by the page, not yet landed
    clicked, trades,         \* history: what was clicked, what was traded
    calm                     \* history: nothing stood in the way of the last click

chain == <<pool, vaults, trades>>
page == <<view, polls, seen, load, seen_slot, form>>
vars == <<limiterVars, chain, page, req, late, clicked, calm>>

Init ==
    /\ RateLimitInit
    /\ pool = [p |-> Initial.p, ttl |-> Initial.ttl, updated |-> 0, paused |-> FALSE]
    /\ vaults = InitialVaults
    /\ view = None /\ polls = {} /\ seen = None /\ load = FALSE /\ seen_slot = None
    /\ form \in Forms
    /\ req = None /\ late = {} /\ clicked = <<>> /\ trades = <<>> /\ calm = FALSE

SlotReads == {s \in 0 .. now : now - s <= SlotLag}

(* The bounds of a behaviour: it is over when the last click is settled,   *)
(* and what the page polls matters while there is a click to come.         *)
MayClick == Len(clicked) < MaxClicks
Settling == MayClick \/ req # None \/ late # {}

(* The vault a trade is paid from. *)
Reserve(v, side) == IF side = "Buy" THEN v.base ELSE v.quote

----------------------------------------------------------------------------
(* The chain moves on. *)

KeeperPushes(u) ==
    /\ Settling
    /\ ~pool.paused /\ pool.updated < now
    /\ pool' = [p |-> u.p, ttl |-> u.ttl, updated |-> now, paused |-> FALSE]
    /\ calm' = FALSE
    /\ UNCHANGED <<limiterVars, vaults, trades, page, req, late, clicked>>

AdminPauses ==
    /\ Settling
    /\ pool' = [pool EXCEPT !.paused = ~@]
    /\ calm' = FALSE
    /\ UNCHANGED <<limiterVars, vaults, trades, page, req, late, clicked>>

OthersTrade(v) ==
    /\ Settling
    /\ vaults' = v /\ v # vaults
    /\ calm' = FALSE
    /\ UNCHANGED <<limiterVars, pool, trades, page, req, late, clicked>>

(* A slot passes; the click stays undisturbed while its price source lasts. *)
SlotPasses ==
    /\ Settling
    /\ now < MaxSlot
    /\ Tick
    /\ calm' = (calm /\ req # None
                /\ IF req.path = "curve" THEN CurveFresh(pool.updated, pool.ttl, now')
                   ELSE req.quote # None => now' < req.quote.expiry)
    /\ UNCHANGED <<chain, page, req, late, clicked>>

(* Whoever shares the key, and the sweep of the buckets. *)
OthersRequest(path) ==
    /\ req # None
    /\ Len(served[ThisClient]) < MaxServed
    /\ Request(ThisClient, path)
    /\ UNCHANGED <<chain, page, req, late, clicked, calm>>

Sweep ==
    /\ req # None
    /\ Cleanup
    /\ UNCHANGED <<chain, page, req, late, clicked, calm>>

----------------------------------------------------------------------------
(* What the page holds. *)

PollPool ==
    /\ MayClick
    /\ Cardinality(polls) < MaxPolls
    /\ polls' = polls \cup {pool}
    /\ UNCHANGED <<limiterVars, chain, view, seen, load, seen_slot, form, req, late, clicked, calm>>

(* The last answer to arrive is shown, whenever it was asked for; a new    *)
(* view cancels the read of the vaults under way and starts another.       *)
PollAnswered(a) ==
    /\ MayClick
    /\ polls' = polls \ {a}
    /\ view' = a
    /\ load' = TRUE
    /\ UNCHANGED <<limiterVars, chain, seen, seen_slot, form, req, late, clicked, calm>>

PollFails(a) ==
    /\ MayClick
    /\ polls' = polls \ {a}
    /\ view' = None /\ seen' = None /\ load' = FALSE
    /\ UNCHANGED <<limiterVars, chain, seen_slot, form, req, late, clicked, calm>>

(* Two reads side by side; one that fails counts as an empty vault.  Read  *)
(* and shown in one step: a late answer shows what an early one did before *)
(* the vaults moved.                                                       *)
LoadVaults(failed) ==
    /\ MayClick
    /\ load
    /\ seen' = [k \in {"base", "quote"} |-> IF k \in failed THEN 0 ELSE vaults[k]]
    /\ load' = FALSE
    /\ UNCHANGED <<limiterVars, chain, view, polls, seen_slot, form, req, late, clicked, calm>>

PollSlot ==
    /\ MayClick
    /\ seen_slot' \in SlotReads
    /\ UNCHANGED <<limiterVars, chain, view, polls, seen, load, form, req, late, clicked, calm>>

(* The form stays open while a swap is being submitted. *)
Edit(f) ==
    /\ Settling
    /\ form' = f
    /\ UNCHANGED <<limiterVars, chain, view, polls, seen, load, seen_slot, req, late, clicked, calm>>

----------------------------------------------------------------------------
(* submitSwap *)

IsFresh_Strict ==
    view.ttl > 0 /\ seen_slot # None /\ seen_slot - view.updated < view.ttl

(* A slot behind the last update counts as fresh. *)
IsFresh ==
    view.ttl > 0 /\ seen_slot # None /\ seen_slot - view.updated <= view.ttl

Simulated == SimulateSwap(view.p, form.side, form.input, seen.base, seen.quote)

MinOutput ==
    (Simulated * (BPS_DENOMINATOR - form.slippage)) \div BPS_DENOMINATOR

(* The button. *)
CanSubmit ==
    /\ req = None
    /\ view # None /\ seen # None /\ ~view.paused
    /\ SimulateOk(view.p, form.side, form.input, seen.base, seen.quote)

(* The page is up to date, the slippage covers what the flat price of the  *)
(* RFQ may differ from the curve by, and the vault holds enough.           *)
Unhindered ==
    /\ view = pool /\ seen = vaults /\ seen_slot = now
    /\ form.slippage >= pool.p.max_skew_offset_bps + RoundingBps
    /\ 2 * Simulated <= Reserve(vaults, form.side)

Click ==
    /\ CanSubmit /\ MayClick
    /\ clicked' = Append(clicked, [side |-> form.side, input |-> form.input, min |-> MinOutput])
    /\ req' = [click |-> Len(clicked'), side |-> form.side, input |-> form.input,
               min |-> MinOutput, quote |-> None,
               path |-> IF IsFresh THEN "curve" ELSE "rfq",
               at |-> IF IsFresh THEN "send" ELSE "quote"]
    /\ calm' = Unhindered
    /\ UNCHANGED <<limiterVars, chain, page, late>>

At(step) == req # None /\ req.at = step

(* A service refuses; fetch, wallet or node fail: "Swap failed". *)
Fail == req' = None

(* What both handlers ask of the pool before they look at the quote. *)
Served(s) == ~pool.paused /\ ~ComputeFreshness(pool.updated, pool.ttl, s)

AskQuote ==
    /\ At("quote")
    /\ Request(ThisClient, "/quote")
    /\ \E s \in SlotReads :
        LET price == QuotePrice(pool.p.fair_value, pool.p.spread_bps, req.side) IN
        /\ IF /\ ~IsLimited(ThisClient, "/quote") /\ Served(s) /\ price # 0
              /\ QuoteOut(req.side, req.input, price) <= Reserve(vaults, req.side)
           THEN req' = [req EXCEPT !.at = "slot",
                                   !.quote = [price |-> price, fair |-> pool.p.fair_value,
                                              expiry |-> s + QuoteValidWindowSlots]]
           ELSE Fail
        /\ calm' = (calm /\ s = now /\ ~IsLimited(ThisClient, "/quote"))
    /\ UNCHANGED <<chain, page, late, clicked>>

PreFlight ==
    /\ At("slot")
    /\ \E s \in SlotReads :
        IF req.quote.expiry <= s THEN Fail ELSE req' = [req EXCEPT !.at = "swap"]
    /\ UNCHANGED <<limiterVars, chain, page, late, clicked, calm>>

LastLook(s) ==
    /\ Served(s)
    /\ s < req.quote.expiry
    /\ DriftBps(pool.p.fair_value, req.quote.fair) <= MmMaxDriftBps
    /\ QuoteOut(req.side, req.input, req.quote.price) <= Reserve(vaults, req.side)

AskSwap ==
    /\ At("swap")
    /\ Request(ThisClient, "/swap")
    /\ \E s \in SlotReads :
        /\ IF ~IsLimited(ThisClient, "/swap") /\ LastLook(s)
           THEN req' = [req EXCEPT !.at = "send"]
           ELSE Fail
        /\ calm' = (calm /\ s = now /\ ~IsLimited(ThisClient, "/swap"))
    /\ UNCHANGED <<chain, page, late, clicked>>

(* The wallet says no, a fetch or a node fails, at any await. *)
Interrupted ==
    /\ req # None
    /\ Fail
    /\ calm' = FALSE
    /\ UNCHANGED <<limiterVars, chain, page, late, clicked>>

----------------------------------------------------------------------------
(* The transaction. *)

(* Built from the closure of the render that was clicked, not from the     *)
(* form as it stands by then.                                              *)
Tx_Rerendered(r) == [click |-> r.click, side |-> form.side, input |-> form.input,
                     min |-> r.min, quote |-> r.quote]

Tx(r) == [click |-> r.click, side |-> r.side, input |-> r.input, min |-> r.min,
          quote |-> r.quote]

(* execute_swap: curve first; the quote counts once the curve is stale. *)
Execute(t) ==
    LET fresh == CurveFresh(pool.updated, pool.ttl, now)
        price == IF fresh
                 THEN Evaluate(pool.p, t.side, t.input, vaults.base, vaults.quote)
                 ELSE t.quote.price
        out == OutputAmount(t.side, t.input, price)
        pays == /\ ~pool.paused
                /\ IF fresh
                   THEN EvaluateOk(pool.p, t.side, t.input, vaults.base, vaults.quote)
                   ELSE t.quote # None /\ now <= t.quote.expiry
                /\ OutputOk(t.side, t.input, price)
                /\ out >= t.min
                /\ out <= Reserve(vaults, t.side)
    IN  IF pays
        THEN /\ trades' = Append(trades, [click |-> t.click, side |-> t.side,
                                          input |-> t.input, out |-> out])
             /\ vaults' = IF t.side = "Buy"
                          THEN [base |-> vaults.base - out, quote |-> vaults.quote + t.input]
                          ELSE [base |-> vaults.base + t.input, quote |-> vaults.quote - out]
        ELSE UNCHANGED <<trades, vaults>>

(* Confirmed in time: "Swap submitted", whether it executed or not. *)
Confirmed ==
    /\ At("send")
    /\ Execute(Tx(req))
    /\ req' = None
    /\ UNCHANGED <<limiterVars, pool, page, late, clicked, calm>>

(* confirmTransaction gives up; the transaction does not. *)
TimesOut ==
    /\ At("send")
    /\ late' = late \cup {Tx(req)}
    /\ Fail
    /\ calm' = FALSE
    /\ UNCHANGED <<limiterVars, chain, page, clicked>>

LandsLate(t) ==
    /\ Execute(t)
    /\ late' = late \ {t}
    /\ calm' = FALSE
    /\ UNCHANGED <<limiterVars, pool, page, req, clicked>>

Next ==
    \/ (\E u \in Updates : KeeperPushes(u)) \/ AdminPauses
    \/ (\E v \in VaultChoices : OthersTrade(v)) \/ SlotPasses
    \/ (\E path \in Paths : OthersRequest(path)) \/ Sweep
    \/ PollPool \/ (\E a \in polls : PollAnswered(a) \/ PollFails(a))
    \/ (\E failed \in VaultFaults : LoadVaults(failed))
    \/ PollSlot \/ (\E f \in Forms : Edit(f))
    \/ Click \/ AskQuote \/ PreFlight \/ AskSwap \/ Interrupted
    \/ Confirmed \/ TimesOut \/ (\E t \in late : LandsLate(t))

Spec == Init /\ [][Next]_vars

----------------------------------------------------------------------------
(* Properties. *)

(* A click trades at most once, on the side and for the input that stood   *)
(* in the form when it was made, and pays no less than the page showed     *)
(* then - whatever was edited, polled, pushed or signed in between.        *)
TradesAsClicked ==
    /\ \A i, j \in 1 .. Len(trades) : trades[i].click = trades[j].click => i = j
    /\ \A i \in 1 .. Len(trades) :
        LET t == trades[i]
            c == clicked[t.click]
        IN  t.side = c.side /\ t.input = c.input /\ t.out >= c.min

(* "Routes through the on-chain curve when fresh, or signed RFQ quotes     *)
(* otherwise": a click made with current views, and left alone until its   *)
(* swap is over, trades.  The page, the service and the program each have  *)
(* their own test of freshness, of expiry and of the price; it takes all   *)
(* of them to agree.                                                       *)
NoFailureWithoutCause ==
    [][req # None /\ req' = None /\ calm' => Len(trades') > Len(trades)]_vars
=============================================================================
