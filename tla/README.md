# Verification of the quoting pool

This directory holds the TLA+ model of the proprietary market-making system of
this repository: an on-chain pool whose price an operator keeps moving, and the
off-chain services around it. TLC checks the model on small instances; TLAPS
proves what matters most for every value of the constants.

## The system

| Part | Code | State | Operations |
|---|---|---|---|
| Pool program | `programs/protocol` | `PoolState`, the two vaults, one `QuoteNonceMarker` per filled RFQ quote, at most one `AdminRotationProposal` | twelve instructions, `lib.rs` |
| Quote curve | `programs/protocol/src/math/curve.rs` | none (pure) | `evaluate` |
| SDK | `sdk/src` | none; a second copy of the curve and of every byte layout | a method per instruction, decoders of accounts and events, `evaluateCurve`, `simulateSwap` |
| Keeper | `keeper/src` | last pushed nonce, mode, failure counter, stale-tick window; the cached tick of its source | push loop, nonce resync, mode decision; polls and event stream |
| RFQ API | `api/src` | pending quotes (bounded, TTL), rate-limit buckets, counters | `/quote`, `/swap`, `/freshness` |
| Web app | `app/src` | views polled from the chain, forms and dialogs, the admin session cookie | swap page, admin pages, wallet login |

The keeper reads a price source and writes prices on chain with
`update_oracle`. A swap uses the on-chain curve while the last update is younger
than its TTL; otherwise it needs an RFQ quote, which the API prices from the
same pool account and signs at the last moment. The admin pauses, rotates keys
and takes inventory out, from the keeper's CLI or the web app. The parts share
no memory: they meet only in the accounts of the chain, which any of them may
read late, and speak to the program only through the SDK.

### Components in detail

**Pool program** (`programs/protocol/src`). One `PoolState` account per pair,
written by `init_pool`, `update_oracle`, `set_paused` and the rotations; two
vaults, moved by `execute_swap`, `admin_withdraw_inventory` and by anybody's
deposit; a `QuoteNonceMarker` account per filled RFQ quote, created by
`execute_swap` and closed by `close_expired_nonce`; one `AdminRotationProposal`,
opened by `propose_admin`, closed by `accept_admin` or `cancel_admin_proposal`.
A transaction is atomic; what is hard is that transactions arrive in any order,
late or twice, and that the slot a transaction reads may fall back after a fork.
Correct means: a signed quote fills once, a marker stands for a fill only, prices
never go back, a pause stops trading at once, nobody but the admin takes
inventory, and a proposal does not survive its proposer's term.

**Accounts and wire** (`state`, `safety`, `math/signature.rs`, `events.rs`;
`sdk/src`). Every layout is written twice by hand: Borsh structs, literal offsets
for the hot path of `update_oracle` and event packers in Rust, readers and writers
in TypeScript. `update_oracle` tells accounts apart by length and signer only, and
a quote's signature is found in a sibling instruction through offsets. Correct
means: what a caller meant is what the handler does, what it reads back and hears
from events is what happened, and no sequence of calls leaves an account that is
not one of three whole types at its own address.

**Quote curve** (`math/curve.rs`, `sdk/src/math/curve.ts`). Pure, but a taker may
trade on it repeatedly within one oracle update, and it exists in two languages.
Correct means: no sequence of trades drains the pool beyond the skew cap, the
two sides never cross, larger is never cheaper, no legal parameter makes it fail
with an underflow, and the copies agree to a unit.

**Keeper** (`keeper/src`). A loop with three awaits: the `update_oracle`
transaction, the nonce re-read, the sleep. Its transactions live on after it has
given up on them, or after it died. Correct means: the chain gets prices in the
order of the source, without nonce reuse; the worker recovers from any finite
series of faults; modes do not flap; a dead source ends in mode C, where the
curve is off and every trade needs a quote.

**Pyth price source** (`keeper/src/sources/pyth.ts`). One cached tick, written by
REST polls that a timer starts without waiting for the previous one, or by one
event-stream connection at a time that is re-opened with backoff; no request has
a time limit; the verdict fresh or stale is given at each read. Correct means: a stale price is never
pushed, the price is not too old even after the blockhash and the TTL have let
it wait, a stream does not take a price back, and the source recovers when the
network does, unless it still waits for a connection that broke unnoticed.

**RFQ API** (`api/src`). Requests interleave at their awaits over a shared
bounded cache, and each decides on three reads of a moving chain, behind a
sliding-window limiter shared by endpoints with different limits. Correct means:
one fill per quote, an honest last look, a preview that the program pays
exactly, no quote lost to a failure, and no client past its limit.

**Swap page** (`app/src/app/swap/page.tsx` and its hooks). Pool, vaults and slot
are polled apart; a click simulates the curve on what the page holds, picks curve
or RFQ, and goes through up to five awaits while the form stays open. Correct
means: what was clicked is what is traded, at no less than was shown, and a click
that nothing stood in the way of trades.

**Admin login** (`app/api/auth`, `lib/auth`, `middleware.ts`, `AdminGuard`, login
page). A signed challenge becomes a cookie, after a look at the chain; three places
redirect on three views of one session. Correct means: a session is recent, a
rotated admin is out in the end, and a signed-in browser arrives.

**Admin pages** (`admin/actions`, `admin/inventory`). Buttons open a dialog whose
action is the closure of a past render; then one transaction. Correct means: what
was confirmed is what happens, success is not claimed lightly, nothing the
program would take is out of the page's reach, and the view converges.

## Modules

| Module | Models | State and actions, by the code |
|---|---|---|
| `Curve` | `math/curve.rs`, `output_amount` of `execute_swap.rs` | operators named after the steps of `evaluate`; `EvaluateOk`/`OutputOk` are its error paths, with the u64 range as a constant |
| `SdkCurve` | `sdk/src/math/curve.ts` | the same terms, its own rounding and its own errors |
| `CurveTrades` | the curve path of `execute_swap`, repeated | vaults and a taker's wallet; `Buy`, `Sell` |
| `Pool` | the whole program, on records | one action per instruction of `lib.rs` (`CurveSwap` and `RfqSwap` are the two branches of `execute_swap`), `Deposit`, `Tick`, `ForkRollback` |
| `Settlement` | nothing of the code: the abstract desk | exchanges, each signed quote honoured once; `Pool` implements it |
| `Layouts` | structs, offsets, discriminators and packers of the program; `Reader`/`Writer` of `borsh.ts` | byte strings as functions from `<<offset, width>>` to values |
| `SdkCodecs` | `borsh.ts`, `events.ts`, `program.ts`, `quote.ts` | the SDK's own layouts, argument encoders, account lists with their flags, decoders |
| `Handlers` | every handler with `safety/mod.rs` and `math/signature.rs` | what a handler makes of account bytes: the set of its outcomes, empty on an error |
| `Wire` | a call of an SDK method, down to the bytes and up again | `accounts`, and for the caller `call` and `answer`; one action per method |
| `PoolCalls` | what those methods promise, no bytes in sight: the abstract side | pool, proposal and markers as records; `Wire` implements it |
| `Modes` | `oracle/mode.ts`, `oracle/stale_policy.ts` | pure decisions on ages |
| `Keeper` | `oracle/worker.ts`, `state.ts`, `commands/oracle.ts` | the worker between its awaits (`pc`), transactions in flight, the oracle fields and the pause of the pool |
| `PriceFeed` | `sources/pyth.ts`, with `pushOracle`, `update_oracle` and `curve_fresh` as the way of its prices | the tick, polls under way, the event stream, one push and its transactions; each price known by its age |
| `QuotePricing` | `quote_pricing.ts`, `freshness.ts`, the drift of `swap_service.ts` | pure |
| `Rfq` | `quote_service.ts`, `swap_service.ts`, `cache.ts`, `quote_store.ts` | cache, requests in progress (`req[w].at` is the await a request is at), what was signed and handed out, the pool as others move it |
| `RateLimit` | `rate_limit.ts` and its middleware | buckets per client, a sweep, a history of what was served |
| `SwapPage` | `swap/page.tsx`, `usePoolState`, `useCurveFreshness`, in front of limiter, service and program | the polled views, the form, `submitSwap` between its awaits (`req.at`), transactions given up but alive |
| `AdminSession` | login page, `/api/auth/*`, `session.ts`, `jwt.ts`, `middleware.ts`, `AdminGuard` | clock, admin on chain, wallet, the login at each of its awaits, cookie, page and hook of the browser |
| `AdminPages` | `actions/page.tsx`, `inventory/page.tsx`, in front of `Pool` | views, polls on their way, the dialog's closure, `runIx` between its awaits, late transactions |
| `MC...` | instances for TLC | |
| `...Proofs` | lemmas and theorems | |

One `Curve` serves `Pool`, `CurveTrades`, `SdkCurve`, `QuotePricing` and
`Handlers`, so the price a swap pays, the SDK's price and the RFQ price are
compared on the same definition. `SwapPage` extends `RateLimit`, `QuotePricing`
and `SdkCurve`; `AdminPages` extends `Pool` and runs its actions. `Keeper`, `Rfq`
and `SwapPage` carry the few pool fields they read, moved as freely as `Pool`
allows. There are two refinements: `Pool` instantiates `Settlement` with
`honoured <- fillCount`, `halted <- Allocated /\ pool.paused` and the admin as
`operator`; `Wire` instantiates `PoolCalls` with pool, proposal and markers as the
SDK's decoders return them, so that a field read at the wrong offset is a step the
abstract side does not have.

An instruction is one action and its errors are the action being disabled: the
runtime rolls a failing transaction back. An await in a service or a page ends an
action, whatever follows up to the next await belongs to the next one. Slips are
kept next to the definition they break (`ResyncDue_Never` beside `ResyncDue`):
each property below is known to fail when one of them takes its place.

### What is abstracted

* `Pool` names accounts directly; PDAs, owners, flags, discriminators and
  signature introspection are in `Handlers`. Rent, lamports and compute units are
  in neither. `Quotes` of `Pool` is the set of all quotes signed by anybody;
  forging is left out with the signature bytes.
* `Wire`: one price stands for the curve, balances and slippage are `Pool`'s;
  base64, log prefixes and endianness are left out. A derived address is the
  tuple of its seeds. The SDK's confirmation is immediate here: what comes late
  is the business of `Keeper`, `SwapPage` and `AdminPages`.
* `Keeper`: spread, depth and skew of a push, priority fees, sleeps and backoff
  lengths. Volatility is one of three levels, the calendar any floor. Ages
  saturate where no threshold tells them apart.
* `Rfq`: vault balances are "covers the quote or not" per side; metrics and
  response bodies are left out; `nextQuoteNonce` never collides (the code draws
  64 random bits). `SwapPage` has each handler as one step.
* `PriceFeed`: a price is its age, which saturates where no decision and no
  property tells two ages apart; one `Tick` is one slot, and Hermes, keeper and
  chain share one clock. What Hermes answers is fixed when the poll is sent (a
  later answer is a later poll), and its REST and stream ends give one sequence
  of prices. An oracle transaction is refused or taken by free choice: nonces and
  pauses are `Keeper`'s and `Pool`'s. `RpcDelay` is an assumption, since no
  request has a timeout. A rollback (`Rollback`) takes a slot back from the clock
  and from the block height while accounts and transactions stay, which is what
  `execute_swap` guards against; an update so old that no rollback makes it young
  again is `Outdated`, whatever its price. The volatility window and the
  conversion to `fair_value` are left out.
* `SwapPage`: mint inputs, decimals and priority fees are left out, and one clock
  serves slots and the limiter. `AdminSession`: what is signed (a message or a memo
  transaction) is one step; one browser. `AdminPages`: amounts as text and the
  vault balances shown are left out; the user stays on the page until it is idle.
* History variables (`fillCount`, `highSlot`, `formerAdmins`, `adminMoved`,
  `sinceMode`, `misled`, `fills`, `given`, `seen`, `served`, `clicked`, `trades`,
  `calm`, `lastAdmin`, and `checked` and `signed` of a cookie) are read by
  properties only; `highSlot` also bounds how deep a rollback goes.

## Runs

| Run | Configuration | Asks | Bounds and why they suffice |
|---|---|---|---|
| `pool_rotation` | `PoolRotation` | Do updates ever go back, can a stale proposal complete? | three keys (a rotation, a return and a third party), nonces 0..2, TTLs legal and illegal |
| `pool_trading` | `PoolTrading` | Can a quote fill twice, a nonce serve two live quotes, a marker stand without a fill? Does a pause stop everything, does `Pool` implement `Settlement`? | admin and trader; a price set with skew and one out of range; two quotes under one nonce with different expiries, one of them the largest u64, and a quote for another pool; slots 0..4, buffer 1, rollback 1: fill, expire, close and fall back all fit, and the buffer is as small as the rollback allows; inputs that are too large, minimum outputs not met |
| `curve_trades` | `MCCurveTrades` | What can a sequence of trades do to the pool? | the program's own bps constants; five parameter sets at the limits (spread below, at and above the skew cap, fair value 1), four inventories down to empty, three sizes in any order until a wallet or a vault is spent |
| `keeper` | `Keeper` | Order, gaps, single writer, dwell; recovery, and the end of a dead source | two nonces, five transactions, one fault of any kind (crash, lost transaction, RPC error on one that lands, lagging read, a pause of the pool), any number of failures that follow from it; thresholds in the order of the real ones. For more faults at once the theorems below hold |
| `keeper_pause` | `KeeperPause` | violated, see findings | |
| `price_feed` | `PriceFeed` | How old is a price the curve trades at, does the stream keep its order, does the feed recover? | staleness limit, blockhash lifetime and TTL of 1 slot, the smallest at which each can be missed by one, a blockhash within the slot, one slot lost to a fork (`MaxRollback`) in the life of a price; two polls under way so that they cross, two events in one chunk, one transaction under way while the next push is prepared. The theorems hold for all of these |
| `rfq_fills` | `RfqFills` | Recent last look, price of the curve | one request to buy, fair values whose drift is just within and (rounded up) just past the limit, an odd spread, slots read late, a rollback; as many slots as a look can be old, and one more. Sells are in `rfq_store`, and the theorems hold for both sides |
| `rfq_store` | `RfqStore` | One fill, no resurrection, no loss | two requests over a cache of one entry, two nonces, a fault, a restart, a rollback; a fair value at which a Sell rounds to zero |
| `wire` | `Wire` | Do encoders, account lists, handlers, packers and decoders agree, and does every account stay whole? | two wallets, four calls (a proposal and what follows it, a quote filled and its marker closed), one slot to pass; values no other field can hold, so that a field read in another's place is seen; prices that are invalid in one place each; the proposal's address passed for the pool's, the mints in the wrong order or one that is none |
| `swap_page` | `SwapPage` | Is what was clicked what is traded, does an undisturbed click trade, does the limiter hold? | one click (`TradesAsClicked` is proved for any number), two polls that cross, slots 0..2: fresh and stale curve, expired quote; an update for the curve and one for the RFQ only; skew at its cap; a vault too small, a vault read that fails; limits of one and two requests in a window, one of them somebody else's |
| `admin_session` | `AdminSession` | How long can a session outlive its signature and its admin; does a signed-in browser arrive? | two wallets, lifetimes of 2, 2 and 1, time 0..5 so that their sum can be overrun, two acts of the user, one lost answer |
| `admin_pages` | `AdminPages` | Does a confirmed dialog do what it said, is success claimed rightly, is anything out of reach, does the view converge? | two keys, two polls that cross, three acts of anybody (a proposal, a rotation and a dialog; or a change between a render and its confirmation and one after), one fault; no slots, quotes or nonces, which these pages do not touch |

Every instance but `price_feed` ends somewhere: slots, nonces, wallets, calls and
faults are bounded, so reaching the end of one is not reported as a deadlock. The
bounds are constants named `Max...` (and `LastSlot`), and guards on them are the
only guards without a line of code behind them. `MaxSent` never binds before
`MaxNonce` does in `keeper`: `KeepsPublishing` would fail if it did.
`SwapPage` has two bounds more, which keep behaviours that can no longer matter
from being explored: polls are made while there is a click to come (`MayClick`),
and the world moves while a click is to come or under way (`Settling`). `wire`
tells states apart by accounts, slot and number of calls (`VIEW Effect`): the call
and its answer are judged at the step that makes them, and no later step reads them.

### Properties

* **Replay** (`FilledAtMostOnce`, `NonceExclusive`, `MarkersAreFills`). Closing a
  marker makes its nonce usable again, and a rollback may bring back a slot at
  which the quote was valid; the safety buffer has to outlast it, and the addition
  must saturate for an expiry near the largest u64.
* **Oracle and admin** (`OracleMonotone`, `KillSwitch`, `StaleOnlyAfterReturn`). The last says exactly what `proposed_by` protects
  against, and what it cannot.
* **`ImplementsSettlement`**: the four mechanisms together - markers, freshness,
  signers, pause - amount to the desk a user is promised.
* **Curve** (`NoValueLeak`, `LossBounded`, `SpreadOrdered`, `DepthMonotone`,
  `InventoryPushesBack`, `SdkWithinOneUnit`).
* **Wire** (`CallsKeepTheirPromise`, `AccountsIntact`). The first is a refinement:
  swap two fields of one width on either side and a caller authorises, prices or
  expires by the wrong number without any error. The second is what `update_oracle`
  relies on when it checks neither discriminator nor address.
* **Writer** (`OrderedWithoutGaps`, `SingleWriter`, `NoFlapping`,
  `KeepsPublishing`, `StaleEndsInModeC`). The first two hold until a push refused
  by a paused pool has been taken for a success (`misled`), see findings;
  `KeepsPublishing` holds all the same, since the program takes any higher nonce.
* **Feed** (`CurvePriceAge`, `StreamInOrder`, `FeedRecovers`). Over REST the tick
  may go back, since polls overlap; order is claimed for the stream only.
  `CurvePriceAge` holds over both: a price is judged by its publish time at the
  read, so crossing answers cost nothing. After a rollback the program measures the
  age of an update anew: one that was too old is traded at again, and the price of an
  abandoned fork, ahead of the slot, is refused only until the slot has caught up. So
  the bound has a summand for the slots lost, and does not hold without it.
  `FeedRecovers` excepts one case, `Hung`: a connection that broke unnoticed and is
  never reported, see fairness.
* **RFQ** (`FilledOnce`, `SpentQuotesAreGone`, `QuotesSurviveFailure`,
  `FillsAreRecent`, `PricedAsFlatCurve`). A slot that falls back
  lengthens the option a taker holds by as much, so `FillsAreRecent` allows a look
  the validity window and a rollback before the fill.
* **Limiter** (`WindowRespected`): endpoints share a bucket and are counted against
  limits of their own, so the claim is about each request and those before it.
* **Swap page** (`TradesAsClicked`, `NoFailureWithoutCause`). A click that was made
  with current views and that nothing disturbed until it was over has traded: page,
  service and program have a test of freshness, of expiry and of the price each. On
  the RFQ path this needs a slippage of the skew cap and one unit, since the page
  simulates the curve and the service quotes the flat price; so `Unhindered` asks it.
* **Session** (`SessionIsRecent`, `RotatedOutIsLockedOut`, `SignedInArrives`). The
  bounds are sums of lifetimes, and tight; the second holds for sessions that were
  checked against a pool, since the form may leave the mints out.
* **Admin pages** (`DoesWhatItSaid`, `SuccessUnlessOvertaken`, `NothingLocked`,
  `ViewConverges`).

### Fairness

`Keeper`, `PriceFeed`, `AdminSession` and `AdminPages` have fairness. In `Keeper`:
weak fairness of the worker's steps: the event loop always runs its next step, and
`.rpc()` and `fetch` return (confirmation in web3.js ends with the blockhash at the
latest). Of the restart: the keeper is a systemd unit, and
`docs/INCIDENT_RESPONSE.md` has it restarted when down. Of `Land`: a transaction in
flight is executed or dropped. Of time. Faults - crashes, lost transactions, failed
or lagging reads, pauses - have no fairness and are finite, which is what "once
faults stop" means. `KeepsPublishing` and `StaleEndsInModeC` assume in their premise
that the market settles (`<>[]`); its moves are otherwise free.
In `PriceFeed`: weak fairness of the timer and the supervisor's restart, of `fetch`
and `read()` when there is something to return, of an attempt to connect, of the
backoff and of Hermes' events. Failures have none, and `FeedRecovers` speaks of
behaviours in which they end (`calm`): then nothing breaks any more, Hermes has a
usable price and answers within a slot. A connection that broke unnoticed
(`StreamDies`, `PollLost`) may be reported at some time or never: neither `fetch` nor
`read()` has a time limit, a reader sends nothing that could be refused, and whether
the runtime notices by itself is not the code's doing, so no fairness is assumed and
`FeedRecovers` allows for ever waiting (`<>[]Hung`) - then the tick is stale for good,
and pushes cease, until somebody restarts the keeper.
In `AdminSession`: weak fairness of what the browser does by itself (loading a page,
`/me`, redirects); nobody promises to sign, and no server to answer a login.
In `AdminPages`: the interval timer runs and polls are answered, also one that is
out of date; user, wallet and transactions have none.
`Pool`, `Rfq`, `Wire` and `SwapPage` promise nothing will happen: they react to
callers, and `NoFailureWithoutCause` speaks of the step that ends a click.

## Findings

`keeper_pause` - `sendAndConfirm` (`sdk/src/program.ts:126-150`) awaits
`confirmTransaction` and does not look at `value.err`, so `.rpc()` returns for a
transaction that was executed and refused, as an `update_oracle` is when the pool is
paused between preflight and block. `pushOracle` then advances its nonce to one the
chain never took, although `worker.ts:200` has the counter advance with a success
only, and the next price leaves a gap, on which `docs/INCIDENT_RESPONSE.md:221-222`
has the operator escalate. The price itself is not wrong: the program takes any
higher nonce. `OrderedWithoutGaps` shows that nothing else leaves a gap.

### Differences from the documentation

Each is stated here and not as a run of its own; where a property is named, it is
the exact form of what the code guarantees, and is checked.

* `sdk/src/math/curve.ts:110` floors the Buy price that `math/curve.rs` rounds up,
  although it calls itself bit-for-bit (lines 2, 4). One price unit at most, and in
  the direction that shows the taker more than the program pays: without slippage a
  Buy may be refused by a unit (`SdkWithinOneUnit`, `NoFailureWithoutCause`).
* `accept_admin.rs:51-53` compares keys, so a proposal made by an admin who has left
  office and come back completes, which the `ProposalStale` rule of
  `docs/SPECIFICATION.md:773` means to exclude (`StaleOnlyAfterReturn`). Likewise the
  cancel dialog of the actions page removes whatever proposal stands when it lands.
* In a quiet mode B held by the calendar no push is attempted (`worker.ts:276`), so
  the 30 s stale window never opens, contrary to `docs/OPERATIONS.md:94-95`
  (`StaleEndsInModeC`).
* `worker.ts:263-264` compares mode names as strings, which is true for downgrades
  only, so upgrades do not stamp `lastUpgradeTriggerAt`. `decideMode` in mode A looks
  at the age of the last trigger only, and may downgrade in a cycle that sees the
  upgrade signal, while `OPERATIONS.md` 1.1 asks for sustained quiet (`NoFlapping`).
* Two overlapping `/swap` for one quote both receive a signed transaction
  (`swap_service.ts:324-326`), while `OPERATIONS.md:243-244` calls the entry
  single-use. Only one can fill, by the marker on chain (`FilledOnce`).
* `computeFreshness` "mirrors the on-chain check", but counts a slot behind the last
  update as age 0 where the program calls the curve stale: after a rollback both
  paths refuse trades for those slots.
* The comment at `execute_swap.rs:93-96` has the curve forced to stale after a rollback
  so that no rolled-back price is executed against. That is so while the slot is behind
  the update; once it has caught up, an update still seen is priced by again
  (`CurvePriceAge`, and why it counts the slots lost).
* `pyth.ts:292-293` has the keeper outlive any single TCP connection. It does when the
  end of the connection is reported; a half-open one is waited for (`FeedRecovers`).
* On the actions and inventory pages the mints are new `PublicKey` objects at every
  render, so `usePoolState`'s effect starts anew with each: the pool is fetched at the
  pace of renders, where `OPERATIONS.md:775` says every 4-8 s, and the reads of the
  proposal and of the vaults are cancelled by every render and may starve. Hence no
  liveness property for the proposal shown.
* Confirmation toasts of the pages ignore `value.err`: "succeeded" may stand over a
  transaction that failed on chain, but only one that was overtaken after its
  preflight (`SuccessUnlessOvertaken`).
* The swap page may say "Swap failed" and the transaction lands later; the program's
  `min_output` still protects the click (`TradesAsClicked`). A vault read that fails
  counts as an empty vault (`swap/page.tsx:143-149`), which moves the simulated skew
  and blocks or underprices the click.
* A page that lags asks `/quote` while the keeper keeps the curve fresh, and is
  refused; it recovers with the next poll.
* The actions page offers "accept" to the new admin of a stale proposal, which the
  program refuses; `NothingLocked` is the other direction.
* `"0"` typed into one field of the withdraw form is an invalid amount, although the
  card says one of the two may be zero.
* Two answers of `/me` lost in a row leave a signed-in user on the login page
  (`session.ts:34-53`); `SignedInArrives` allows one. Signing out is best effort: when
  the request is lost the cookie stays (`session.ts:55`), and the guard is not told.
  The `next` parameter set at `middleware.ts:53` is read by nobody.
* Clients without a proxy's header share the limiter key "unknown".
* `docs/ARCHITECTURE.md:300` has every state-changing instruction emit an event;
  `update_oracle` emits none. The SDK hands out events of failed transactions, too.

## Proofs

TLAPS proves the following for every value of the constants.

| Module | Theorems | From |
|---|---|---|
| `CurveProofs` | lemmas on division and on the terms of the price; `TradesTypeCorrect`, `FactorAlwaysPositive`, `SidesNeverCross`, `LargerIsNotCheaper`, `NoValueLeaks`, `LossIsBounded`, `SdkErrsByOneUnit`, `TradesPushBack` | `CurveConstants`, `TradesConstants` |
| `PoolProofs` | `TypeCorrect`, `ReplayInvariant`, `QuotesAreOneShot`, `NoncesAreExclusive`, `OnlyFillsSpendNonces`, `OracleNeverGoesBack`, `PauseStopsTrading`, `StaleProposalsRejected`, `PoolImplementsDesk`; for the admin pages `PagesInvariant`, `PagesDoWhatTheySaid`, `SuccessIsTrueUnlessOvertaken`, `PagesLockNothing` | `CurveConstants`, `PoolConstants`, `PoolAllocated`, `BufferOutlastsRollback`; the last four `AdminPagesConstants` instead of the buffer |
| `KeeperProofs` | `KeeperTypeCorrect`, `WriterInvariant`, `NeverAheadOfChain`, `PricesLandInOrder`, `ModeNeverFlaps` | `ModesConstants`, `KeeperConstants`; the last also `ModeMinDwell <= StaleHoldoff + 1` |
| `PriceFeedProofs` | `TypeCorrect`, `PriceInvariant`, `CurvePricesAreYoung`, `OrderInvariant`, `StreamKeepsOrder` | `FeedConstants` |
| `RfqProofs` | `QuotePriceIsFlatCurve`, `RfqTypeCorrect`, `QuotesMatchProgram`, `OneFillPerQuote`, `SpentQuotesStayGone`, `FailureKeepsQuotes`, `LastLookIsRecent` | `CurveConstants`, `RfqConstants`, `NoneIsNoRequest` |
| `SwapPageProofs` | `LimiterRespectsWindow`, `PageImplementsLimiter`, `PageRespectsWindow`, `PageTradesAsClicked` | `RateLimitConstants`, `SwapPageConstants` |
| `AdminSessionProofs` | `SessionsAreRecent`, `RotationLocksOut` | `SessionConstants` |
| `WireProofs` | lemmas on layouts, packing and reading; `AccountsWhole`, `AccountsStayIntact` | `WireConstants`, `WireMints`, `WireValues` |

What the assumptions say of the code: `CurveConstants` is the compile-time
assertion of `constants.rs` on the three bps limits; `BufferOutlastsRollback` is
the reason `constants.rs` gives for `SAFETY_BUFFER_SLOTS`; `PoolAllocated` and
`NoneIsNoRequest` tell two model values from records (as does the last part of
`FeedConstants`); the others are types.

`WireMints` says that the two mints exist, the base mint at the lower address, and
that the zero key is none; `WireValues` that a byte string nobody has
written reads as no proper value, and that the quotes, prices and amounts of an
instance have the types their fields have.

The type invariants and the inductive ones (`ReplayInv`, `WriterInv`, `PriceInv`,
`OrderInv`, `PagesInv`, `WireInv`, and `FactorPositive` and `PreviewIsExact`, which stand behind the
program's and the preview's arithmetic) were model-checked before they were proved.
The proof covers every instance, so no run repeats them.

**Pool.** "No quote fills twice" is not inductive: once the marker is closed
nothing in the state says that the quote has been filled. `ReplayInv` adds
`FillsGuarded` - a filled quote has its marker or is `Retired`, so long expired
that the buffer separates its last slot from the highest slot ever - and
`SlotLag`, that the slot is at most `MaxRollback` behind that one. A swap needs
`slot <= expiry_slot`, which a retired quote never meets again; a close under
`slot > expiry + buffer` retires every quote whose marker it removes.
`NonceOwned` does the same for pairs of quotes under one nonce. The refinement
uses `ReplayInv` for the step that honours a quote; every other step is an
exchange, a transfer by the operator, a deposit, or a stutter.

**Curve.** Without rounding the imbalance is a quotient that only falls when the
vaults gain base and only rises when they lose it. The code rounds three times on
the way to the skew, the target, the imbalance and its product with the
coefficient, and each costs a unit at most at its own scale: the lemmas on
truncation carry those units through, and `SkewGrain` is their sum. With a skew
coefficient above `BPS_DENOMINATOR` a unit of the imbalance is worth more than one
of the skew, and with vaults of a few units a unit of the target is worth many of
the imbalance; so the grain has both as factors, and the property is as sharp as
the rounding allows.

**Wire.** Offsets are sums of the widths before them, which `IsEnds` gives without
recursion; from it come the lemmas that fields do not overlap, that one layout
behind another is a layout, and that what is packed by a table is read back by it.
The handlers never see more than bytes, so the invariant is about bytes: `WireInv`
adds to `AccountsIntact` that an account holds its fields and nothing between or
after them, which makes its length tell its type. It needs every handler to keep
accounts whole - in particular `update_oracle`, which copies a block of its
arguments over a block of the account without decoding either, so that each field
must lie as deep in the one as in the other - and every call of the SDK to hand
over arguments that are complete for the handler its tag selects.

**Admin pages.** `PagesInv` says what a dialog, a transaction under way and one given
up are made of: a closure that asks for what its form can hold, the operation built
from it, and once it is sent a chain state in which the node accepted it. The node's
trial run is `Accepts`, the guards of the program's instructions spelled out, so that
it can be asked of the state of the chain at that time; `RunIsAccepted` proves that
what runs is accepted. A success is wrong only if the transaction failed in another
state than the one it was accepted in, since in the same one it is accepted again.

**Keeper.** `OrderedWithoutGaps` follows from `SingleWriter`: the counter is
never ahead of the chain, so a transaction in flight either carries the next
nonce, and then a newer reading than the chain's, or cannot land any more.
`WriterInv` adds that a transaction is identified by its reading, so that the
confirmation the worker adopts is the one of its own push - which is on the chain
unless the pool was paused, the one way to become `misled`.

`NoFlapping` has two sources. A decided transition was decided after the dwell time
and the ages only grow until it is confirmed; a forced one comes when failures have
lasted longer than the holdoff. `DwellInv` says that this window of failures opened
no earlier than the last change of mode, so that a holdoff as long as the dwell time
(both constants are 30 s) covers it. Nothing in the code ties the two together; with
a holdoff shorter than the dwell time the property does not follow.

**Feed.** The bound on the price at the curve is not inductive on its own, so
`PriceInv` follows a price through its stages: at each it is at most as old as
the staleness limit plus the time spent since the read and the slots lost
meanwhile, and each stage is left before its own limit; an update for which that is
no longer so lies so far back that no rollback within the bound has it traded at. That a transaction may land after the worker has given it
up needs no case of its own: its age is counted from the read. `OrderInv` is a
queue: tick, events on the wire and feed are in the order of age, because the one
poll of `start()` is over before the stream begins.

**RFQ.** `NonceInv`: a nonce belongs to one quote, and every signature carries
its quote's. `SpentInv`: a quote that was handed out is not in the cache, and a
quote in the cache has a drawn nonce, so `/quote` cannot put it back. `RecentInv`:
what a request in progress and a signature handed out were checked against is
a price the pool had at a slot within the window before the quote's expiry, with a
rollback added to the window: a quote may expire by the slot the chain had before
it fell back, and be looked at in one it had after.
`StoreInv`: the cache has one entry per nonce and per place in the insertion order,
and no more than its limit, so that `CacheSet` evicts one entry, the oldest, and only
from a full cache - which, with `Dropping` for every other step, is
`QuotesSurviveFailure`.

**Limiter.** A bucket holds the times of the last requests served, in order, and
every request it no longer holds is older than the window; so a bucket of `n` hits
means that at most `n` requests went through within it. That the stale hits are a
prefix, and `Fresh` therefore well defined, needs a least element, from the
well-foundedness of the order on the naturals. The page's steps are the limiter's
or leave it alone (`PageImplementsLimiter`), which carries the bound over.

**Swap page.** `ClickInv`: the swap in progress and every transaction the page has
given up carry what their click was made with; each click has at most one of them,
and none once it has traded. So whatever the form and the views have become since, a
transaction that lands trades what was clicked, and only once.

**Session.** `SessionInv`: the times a login in progress carries are in the order
of its steps, each within the lifetime that bounds it, and a cookie keeps their sum.
A check that has read the chain was, at that time, of the admin, and `lastAdmin`
never moves back.

**Not proved.** Liveness (`KeepsPublishing`, `StaleEndsInModeC`, `FeedRecovers`,
`SignedInArrives`, `ViewConverges`) is beyond the prover and stays with TLC.
`CallsKeepTheirPromise`, the refinement of `PoolCalls` by `Wire`, and
`NoFailureWithoutCause`, which depends on how the sizes traded relate to the units
they are rounded to, are model-checked.

## Not modelled

* `math/wad.rs` is called by no instruction; error codes only tell refusals apart.
* Failover, basis and mock sources: no shipped configuration has a fallback, so
  `failover.ts` never runs (its `start()` would await every source together, so that
  a primary that is down at boot would hold up its fallback).
* The volatility window and the conversion to `fair_value` of the price source.
* The keeper's CLI, configuration and wallet; HTTP wiring, metrics, the assembly of
  the API's transaction: start-up and I/O, without behaviour over time.
* The dashboard, history and home pages: they show what they read and keep nothing.
* On the admin pages, leaving a page while its transaction is under way.
* The SDK's log subscription and the wording of its errors.

`PROJECT.json` lists them with the reason.

## Extending it

The modules are laid out so that a change of the code has one place: a field or an
instruction in `Layouts`, `SdkCodecs`, `Handlers` and `PoolCalls`, with `Pool` for
what it means; an await in a service or a page as a value of its `at`. What would
come next: a proof of `CallsKeepTheirPromise` over the lemmas of `WireProofs`;
`Failover` over two feeds once a configuration uses it.
