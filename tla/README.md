# A verification project for the temperature-bucket trader

The repository is a single-process Python program that trades daily
temperature buckets on Polymarket. One code base runs two tracks, *paper*
(simulated fills on cached books) and *live* (real FAK orders), under one of two
strategies: the **consensus lock** (the shipped configurations) and the
**reversal** lane; a **sleeve** may buy the next bucket beside either. A
separate program trades negative-risk baskets, and a few tools run by hand.

This directory holds TLA+ modules of the parts where a wrong order of steps
loses money or track of it, TLC configurations that check them on small
instances, and TLAPS proofs of the properties that matter most. Everything is
translated from the source; `PROJECT.json` maps each definition to its lines.

## 1. Inventory

**Poll cycle** (`_r_cycle.py:1614-2382`, `runner_impl.py`, `_r_state.py`).
State: one `state` dict (positions, sleeves, reversal records, ledger,
`pending_exit`), saved to one file at the end of a cycle, and process-local
caches that a restart loses. A cycle refreshes rules, books and weather, visits
every active rule (exits, then entries), sweeps pending exits, expires sleeves,
settles resolved markets and saves. An exception abandons the cycle without a
save, but the dict keeps what it had; a crash falls back to the file. *Hard:*
effects at the venue cannot be undone by either. *Correct when* positions,
ledger and wallet agree whatever is interrupted.

**Exit channel** (`live/exit.py`). Take-profit, early stop, METAR breach,
abortion, refire and sleeve timeout all sell through `live_exit_leg`: gates,
attempt count, cancel own resting orders, plan against the bid, post, book the
report, register what is left in `pending_exit`. *Hard:* lost reports,
partial fills, several channels on one leg, one-off events. *Correct when*
shares are neither lost nor sold twice, and a stop is eventually worked off.

**Entry fire** (`_r_cycle.py:1095-1608`, `re_execution.py`, `paper_capital.py`,
`live/port.py`, `live/v2_transport.py`). A ladder of looks at the books plans
a limit per leg, sends the legs in turn, and retries what is unfilled; then the
ledger reserves the cost and the position is recorded, or everything stands
down. *Hard:* an order whose report is lost, a fill whose cost cannot be read,
a rest that goes on filling, cached depth shared by several fires, marks that
live in memory only. *Correct when* spending is bounded, every share is
explained, and no fire runs twice.

**Market feed** (`market_ws_transport.py`, `websocket_market_data.py`,
`local_order_book.py`, `ws_bridge.py`, `_ws_pump`). A daemon thread keeps one
WebSocket and applies its frames to local books; the main thread adds tokens
and overlays fresh books on the ladder cache REST also fills. State: socket,
token list, books, cache. *Hard:* two threads and no common lock, reconnects,
bad frames, freshness stamps. *Correct when* local books track the venue, no
token is left out, and the cache is as fresh as its stamps say.

**Reversal session** (`reversal_strategy.py`, the sleeve and refire of
`_r_cycle.py`). Records per session: armed, fired (at most two fires), running
extremes, last observation. Arms on a consensus, fires on a breach observation,
refires once, is pruned at midnight. *Hard:* late or repeated observations,
marks deleted while positions are open, restarts. *Correct when* a session fires
at most twice, on two different breaks, and no open position loses its marks.

**Consensus-lock session** (`strategy_consensus_lock.py`,
`consensus_tracker.py`). Price memory and time-weighted ranking, two entry
channels, take-profit, early stop, breach with a hedge, weather abortion. The
strategy object lives in the process only and is rebuilt from the saved row.
*Hard:* restarts, stages that suppress one another, stale reports. *Correct
when* a session enters once, a breached row is closed, and a closed session
stays closed.

**Sleeve signal** (`sleeve_signal.py`). Thresholds over one book: a pure
decision.

**Paper ledger and settlement** (`paper_capital.py`, `_r_exec.py`). Debits,
releases, settlement of resolved markets. *Correct when* the debit is what the
rows cost and did not bring back, over a position's whole life.

**Feeds and adapters** (`_r_cycle.py:1614-1850`, `market_adapter.py`,
`clob_market_data.py`, `research/common.py`). Rules, REST books, METAR and TAF
with refresh stamps, an armed cadence beside the idle one, last-good caches.
*Hard:* slow fetches, partial answers, stamps shared by all sessions, local
midnight. *Correct when* armed sessions stand on fresh data, nobody is forgotten,
and no source is stormed.

**Negative-risk engine** (`neg_risk/`, `neg_risk_runner.py`). Scanner, basket
arbitrage, maker quotes, execution with probe and unwind, a paper account with
its own file. *Hard:* partial fills, exceptions half way, a restart from an older
file. *Correct when* equity is explained, and a basket is held as its report says.

**Smoke order** (`live/smoke.py`, `submit.py`, `order_plan.py`, `risk_gate.py`,
the maker path of `v2_transport.py`). Places one order that must not fill, finds
it, cancels it, looks whether it is gone; any failure leads to a rescue. *Hard:*
lost answers, a fill racing the cancel, an audit log that refuses a line.
*Correct when* "ok" is true, nothing is written without the gates, and no
other order is touched.

**Other tools** (`sign_dryrun`, `reconcile`, `creds`), **simulation, research,
scripts.** Run by hand or offline.

The list of what is hard to test in all of them, line by line, is under
`hazards` in `PROJECT.json`, each with the properties that guard it or a note
why none does.

## 2. What is modelled

### LiveExit: the exit channel inside the poll cycle

Reads: the channel functions of `live/exit.py`, the stages of `run_cycle` that
raise exits, `record_refire`, `_retry_pending_exits`, `_expire_stale_sleeves`,
settlement, save, and `main`'s handling of errors.

| model | code |
| --- | --- |
| `state`, `disk` | the dict and the file (`save_state`) |
| `stage`, `todo`, `cur`, `work`, `channel` | where `run_cycle` is: rule, stage, legs still to sell |
| `job` | one `live_exit_leg` in flight: decide, cancel, post, book |
| `attempts` | `exit_attempts`, reset each cycle |
| `wallet`, `resting` | the venue: tokens held, own orders still resting |
| `posted`, `lost`, `faults` | history |

`TakeProfit`, `EarlyStop`, `MetarExit`, `Refire`, `RetrySweep`, `SleeveTimeout`
raise exits; `Decide` / `Defer`, `CancelFirst`, `PostSell`, `BookFill` /
`LoseReport`, `Book` are one sale; `Settle`, `Save`, `CycleError`, `AuditFails`
and `Crash` end or break a cycle. A share unit stands for 2.5 shares and prices
are ticks. Signals (when a stop fires) are nondeterministic: any cycle may raise
any exit its guards allow. The breach hedge of `MetarExit`'s range changes
nothing, as its legs carry no notional and so buy zero shares.

### FireWindow: the entry fire

Reads: `_paper_fire`, `record_*`, the planner and paper matcher, `reserve`,
and the live port's `match` with the transport's post, poll and cancel.

| model | code |
| --- | --- |
| `cfg` | mode, strategy and sleeve switch, chosen at the start |
| `state`, `disk`, `opened` | ledger, positions, fire records; the file; the in-memory marks of the consensus strategy |
| `book` | the cached ask ladder every fire of a cycle reads |
| `fire`, `order` | the fire and the live order in flight |
| `wallet`, `resting` | shares bought at the venue; cash a resting rest may still spend |
| `spent`, `starts`, `undone`, `unheard`, `lost`, `displayed`, `taken`, and in `state` `stranded` | history |

`StartFire` / `RefuseFire` (preflight), `PlanRung`, `PaperLevel` / `PaperDone`,
`LivePost` and its answers (`Reported`, `CostUnknown`, `ReportLost`, `TimeOut`),
`LeftBehind` (the unfollowed rest, voided or resting), `Fund` (the ledger reserves) or
`StandDown`, `Conclude` (the position is recorded), `EndCycle` (save), `AuditFails`,
`Crash`. Between `Fund` and `Conclude` a live refire sells the old YES leg, and that sale
can raise (`SaleRaises`): the debit stays, in `stranded`, and the new legs are
in no position. The sale itself is `LiveExit`'s. A cycle
refetches any subset of the books; the looks at 0, 1500 and 4000 ms run on one
cached book, as the code runs them.

`LegWindow`, which FireWindow extends, holds the price window of a live leg: how
`leg_take_window` reads the band from a leg with a channel of its own, from the
`consensus_lock` section or from the flat and `strategy` values; what
`fill_mode` and `match` then let through; and what the planner sends. One price is
judged by strategy, ladder and port in turn, from values that may be missing or
unreadable in each.

### MarketFeed: two threads around one stream

Reads: the transport's loops, the stream, the local book, the bridge, the pump.

| model | code |
| --- | --- |
| `venue`, `served`, `wire` | the venue's books, what it streams on this connection, frames on the way |
| `link`, `daemon` | `_sock`; where the thread is, the message to send, the frame in hand |
| `known`, `local` | `stream.books` with ready flag and time of receipt |
| `main`, `cache` | the cycle's feed steps; the ladder cache with its stamp (`fetched`) and the data's real time (`seen`) |
| `damaged`, `shown` | history |

The daemon dials, reads the token list, subscribes, then applies frames element
by element; `apply_book` is two steps because the bids are replaced before the
asks are parsed. The main thread grows the list, sends a message if there is a
socket, and pumps. A side of a book is the set of levels that show size.
Tick-size and last-trade events change no level and are left out, as is
interleaving inside one `sendall`.

### ReversalSession: a reversal session's day

Reads: `prune_stale_sessions`, `maybe_arm_or_fire`, `refire_target_index`,
`_enter_sleeve`, `_expire_stale_sleeves`, `record_refire`, `settle_markets` and
the ledger, on the paper track.

| model | code |
| --- | --- |
| `state`, `disk` | armed, fired, extremes, last and fired observation, sleeves, rows, ledger debit; the file |
| `feed`, `curve` | the report this cycle sees; the reports of the day (late, repeated, out of order) |
| `universe` | the registry of cities |
| `stage`, `todo`, `fire` | where the cycle is, rules left, the fire in flight |
| `dropped`, and in `state` `shots`, `entries`, `gone` | history |

Each outcome of `maybe_arm_or_fire` is an action: `Skip`, `LockOpenRow`,
`NoReference`, `Ignore`, `Arm`, `Disarm`, `Misfire`, `Fire`. The reference
temperature (TAF extreme or the middle of the rank-1 bucket) is any that the code
could hold. `CycleError` keeps the dict, `Crash` takes the file.

### ConsensusSession and ConsensusTracker: a consensus-lock session's day

Reads: the strategy object's decisions, the price memory behind them, and the
stages of `run_cycle` that join them, on the paper track. Prices are cents,
shares hundredths, thresholds those of `config/yes2re_reversal.json`.

| model | code |
| --- | --- |
| `mem` | the strategy object: open position, lock, fires, stopped, breached, METAR history |
| `samples` | the tracker's series; `Twap` and `Leaders` are its averages and ranking |
| `state`, `disk` | row, ledger debit; the file |
| `look`, `report` | the books and the report of this cycle |

`ExitStage` is memory-from-row, take-profit and early stop in one step, as no
other actor intervenes; then `Breach`, `Abort`, `Hold` or an entry (`EnterNext`,
`EnterTarget`, `Refuse`), `Fire` or `PortRefuses`, `Hedge`, `Settle`, `Save`.
`Crash` empties `mem` and `samples`. Reports carry no age, so the dwell counts
from when one was read, as in the code.

### SessionLife: what both sessions promise

The abstract specification: a session waits; it is locked without a trade, or it
fires, and may fire once more; nothing leads back; when the day is over it is
over. `ReversalSession` implements it with the phase read off the saved marks,
`ConsensusSession` with the phase read off the saved row (`LifeGoesForward` in
both, an INSTANCE of `SessionLife` with that mapping).

### NegRiskAccount and BasketExecution

`NegRiskAccount` is the paper desk on one event: freshness and hurdles of the
scanner, long and short baskets, normalised maker quotes, fills against the cap
and the purse, settlement, save and load. In live mode the runner lists what it
finds and trades nothing, but goes on settling the account, so a restart may
change the mode. Prices are ticks, shares whole, rounding to the nearest as in the
code.

`BasketExecution` sends a basket leg by leg, probed or as a batch, and unwinds.
An order may fill in full or in part, be refused having filled in part all
the same, or raise having filled or not. The engine has no caller in the repository
but its tests (`neg_risk_runner.py` never executes an opportunity), so the module
stands alone, over baskets of either side. As the two share no state, `NegRiskMC` runs
the one or the other.

### CycleFeeds: when the cycle pulls what

Reads: `run_cycle` up to the strategy loop, `refresh_rules`, the stamps, the
sleeps of `main`.

| model | code |
| --- | --- |
| `stamps` | `_STAMPS`: rules, book, book_fast, metar, metar_fast |
| `index`, `known` | the rule memo; airports with a last good observation |
| `armed`, `saved` | the armed tree in memory and in the file |
| `ticked`, `cooled`, `touched` | local books that just moved, cooldown, airports to pull early |
| `at`, `start`, `wakeAt`, `fed` | the step of the cycle, its `now`, the sleep, the rules given to the strategy |
| `since`, `asked` | history |

`RulesStep`, `BooksStep`, `BridgeStep`, `MetarStep`, `EarlyStep`, `FeedStep` are
the order of the code; a fetch takes time, an answer may leave airports out, a
city's lookup may fail. A city stands for its airport, its market and its ladder.

### SmokePlan and SmokeOrder: the live smoke

`SmokePlan` is the arithmetic: passive price, tradable bucket, plan, risk gate,
limits, clamp and gates. `SmokeOrder` is `run_smoke` step by step with the
venue around it: the book moves, what rests fills, an answer is lost and the order
lands late or not at all, the owner cancels, the list still shows what is gone,
the audit log refuses a line. The confirm phrase of another day passes the third gate,
as in the code, which compares form and length only. `MayRescue`, `ById`, `Scan` and
what follows are the exception handler and `rescue_cancel`.

## 3. What the runs check

| run | bounds | shows |
| --- | --- | --- |
| `exit_lock` | one YES leg of 3 or 5 units, minimum order 2, one attempt a cycle, 2 faults | `TypeOK`, `Conserved`, `Backed`, `SellGuarded`, `AttemptsCapped`, `LiquidatedIsFlat` |
| `exit_reversal` | old leg, refire's leg and a sleeve; no faults, venue eventually works | `RemainderTracked`, `PendingExitsComplete` (liveness) |
| `fire_window` | one session with all five kinds of fire, 2 looks, capital 6, 1 fault, 3 prices, 2 ask ladders, paper and live, both strategies, several bands and minimum sizes | `TypeOK`, `LedgerMatches`, `WalletExplained`, `SpendBounded`, `CostNotInflated`, `DepthConserved`, `FiredOnce` |
| `market_feed` | 2 tokens (one added later), 2 levels, 1 batch of up to 2 changes, 1 fault, 2 clock ticks, maximum age 0 | `BooksSound`, `FeedConsistent`, `StampHonest`, `NoTokenMissed`, `BooksConverge` (liveness) |
| `reversal_day` | one session, HIGH (3 reports) or LOW (2), 3 temperatures, capital 3, 1 sleeve, 1 fault | `RecordsSound`, `FiresSound`, `LedgerSound`, `LifeGoesForward` (refinement) |
| `consensus_day` | three buckets, HIGH or LOW, 3 ticks, 3 cycles, a full, a partial or an empty fill, 1 fault | `TypeOK`, `LedgerExplained`, `ExitsSound`, `LifeGoesForward` (refinement) |
| `neg_risk` | three tokens, six looks, 4 trades, restarts in either mode; or one basket of two or three legs, long or short, 2 shares a leg | `EquityExplained`, `AccountSound`, `BasketSafe` |
| `cycle_feeds` | two cities, midnight at 4 of 6 units, 1 slow fetch, 2 silent airports, 1 fault | `FedToday`, `ArmedFeedsHot`, `EveryFeedPolled`, `RulesSteady` |
| `smoke_order` | two tokens, three books, two accounts, five commands, 2 moves, 2 lost calls, 2 turns of the log | `TypeOK`, `OkMeansGone`, `WritesScoped`, `SpendWithinLimits`, `SilentOnlyByList` |

Some of these are conjunctions of properties stated one by one above them in the
module, each of which is checked: `RecordsSound` (`TypeOK`, `MarkOutlivesRow`,
`SleeveTracked`, `FastPollEnds`), `FiresSound` (`AtMostTwice`,
`SecondBreakIsFurther`), `LedgerSound` (`LedgerExplained`, `NeverOverdrawn`),
`ExitsSound` (`GraceHolds`, `BreachedRowCloses`), `AccountSound` (`DeskShape`,
`CashCovered`, `InventoryCapped`, `BasketsSound`), `BasketSafe` (`LongEnds`,
`ExposureBounded`, `ProbeGuards`), `RulesSteady` (`RulesSurvive`, `GammaNotStormed`),
`WritesScoped` (`WritesNeedGates`, `OthersUntouched`) and `BooksSound` (`TypeOK`,
`CachedFromVenue`). `Conserved` also holds in the reversal lane by its theorem, and
`TypeOK` of CycleFeeds is not in a run because it is proved.

Three runs end in a counterexample. In each the code does otherwise than a
document, comment or test of the repository says (quoted under `findings`):

| run | what happens |
| --- | --- |
| `hedge_orders_nothing` | the legs of a breach hedge carry no `notional_pct` and are sized to zero shares |
| `residual_hidden` | a rescue that found no matching order reports no residual risk while the order rests |
| `phrase_replayed` | the smoke posts an order under the confirm phrase of another day |

Nine further disagreements are modelled as the code has them but have no run of
their own; each is described under `hazards`: a retried take-profit has lost its
size and target (`README.md:52`), a take-profit fill pops the entry a stop left
(`_r_cycle.py:209`), a refire deferred before its order is not queued
(`_r_cycle.py:1442`), an unheard order is sent again in full (`README.md:128`),
a next-bucket fire at the closed lower end of its window is skipped
(`strategy_consensus_lock.py:599`), the overlay's epoch guard always passes
(`CHANGELOG.md:473`), `max_open_positions` is read where no configuration has it, so the cap is never
enforced (`reversal_strategy.py:483`), a short basket that fills in part is "unwound" by
selling its legs a second time (`execution.py:274`), and the unwind counts shares as
recovered whether or not their order sold (`execution.py:15`).

**Why the bounds are enough.** *LiveExit*: lots 3 and 5 with minimum order 2 give
a leg that sells out, one that leaves a sellable rest and one that leaves dust; two
faults let a crash follow a lost report. *FireWindow*: two looks are the least at
which a retry exists; one fault there already lets an order be lost and resent
or a process die between fill and save. *MarketFeed*: two tokens for a token
added during a dial, two levels and a batch of two for a book half moved, one
fault for a reconnect or a bad frame. *ReversalSession*: three temperatures give a
first and a second break, three reports a late and a repeated one, capital 3 a
fire the ledger refuses (a second sleeve written over a swept one was explored
once with `MaxEntries = 2` and capital 2, 1.9 million states, and holds too; it is too
long for the run); sessions share nothing but the ledger, so
one suffices. *ConsensusSession*: three buckets give
the target, the bucket ahead and the one behind; three cycles are entry, exit and
re-entry, and a crash may fall between any two steps. *NegRiskAccount*: three tokens
for a basket with a middle leg, four trades for buy, sell and a basket around a
restart. *BasketExecution*: three legs are a probe, one sent and one cancelled behind
a refusal; two shares let an order fill in part. *CycleFeeds*: two cities share the
fast stamps; six units hold a rules interval, a midnight and two armed intervals. *SmokeOrder*: two attempts are a
retry; two faults let the answer of the post and the rescue both fail. Every bound
has a comment where it is declared.

**Deadlock** is checked in `exit_lock`, `exit_reversal`, `fire_window`, `market_feed`
and `reversal_day`. It is off where the modelled day or run comes to its end:
`consensus_day` (the clock and the cycles are bounded), `neg_risk` (the account may
have nothing left to do, a basket's report ends it), `cycle_feeds` (the clock),
`smoke_order` (the tool exits), and the counterexample runs, which are on those modules.

**Fairness.** LiveExit: weak fairness of the engine's steps (`main` loops for
ever) and that the venue eventually works (`<>[]VenueWorks`); nothing is assumed
of signals, prices or faults. MarketFeed: weak fairness of the two threads,
both endless loops, and of the deadline of a connection, which the clock
forces (`run_once(3600)` or the read time-out). Changes and faults are never
forced to happen. The other modules state safety only; that every feed's turn
comes is stated there with clocks (`EveryFeedPolled`, `ArmedFeedsHot`), which
needs no fairness.

## 4. What is proved

Every safety property the runs check, both refinements of `SessionLife` and the action
property `RulesSteady` are theorems as well, for every value of the constants the
assumptions allow. None is inductive; the strengthenings come in named layers,
each proved to be kept under the ones before it. The step lemmas have one case per
action.

`LiveExitProofs` (any sessions, legs, owners, lots, attempt cap and faults; for
`LiquidatedIsFlat` also `OneYesLegAssumption`: the consensus lane buys one YES leg a
session). `TypeOK`, `Conserved`, `Backed`, `SellGuarded`, `AttemptsCapped` and
`LiquidatedIsFlat` follow from `IInv`: `Shape` (what may be in flight at each stage),
`Targets` (legs to sell are open and hold what is asked), `Bought` (the refire's
purchase before its merge), `Attempt` (the sale in flight agrees with the books, its
cancels done before it posts), `Counted` (orders posted never exceed attempts
counted) and `Sound` (a closed leg is accounted for) of dict and file alike, because
a crash replaces the one by the other. `RemainderTracked` follows from `Tracked`:
what was sold in part outside the consensus lane has its entry in dict and file
(`Kept`), an entry of the take-profit channel belongs to the consensus lane
(`Owned`), and only that lane raises the channel (`Raised`), so no foreign fill pops
a stop's entry. It is stated over the legs outside the consensus lane, whichever
lanes run beside them; inside it the entry can be lost (see `hazards`).

`FireWindowProofs` (any fires, legs, prices, ladders, budgets and looks). `IInv`
(types; `Covered`: what was debited for a leg and what its fire has booked so far lie
within what was spent; `Placed`; the conserved depth) gives `TypeOK`,
`CostNotInflated` and `DepthConserved`. Above it, `Shape` and `Marks` (every fire that
is counted has signed its lane, its record or its sleeve) give `FiredOnce`; `Spend`
(outlay of a leg, the rest still resting and the rest still wanted, at its cap, stay
within a budget for each start and each unheard order) gives `SpendBounded`;
`Wallet` (what the venue gave is on a position, in the fire in flight or reported
lost; the file holds no share the dict lacks) gives `WalletExplained`; `Ledger` (in dict
and file the debit is the recorded cost, what the fire at work has reserved, and what is
stranded) and `Held` (only a live refire strands a debit, and only after a fault) give
`LedgerMatches`.
The same module holds what needs no state: a look at a price the consensus lock takes
is sent by the ladder and accepted by the port, for the target bucket
(`TargetLookIsTaken`) and for the next one (`NextLookIsTaken`), strictly above the
floor in both; a next-bucket leg that says anything of its own window is refused when
that cannot be read, rather than judged by another (`NoFallback`; the other channels do
have default bands); and a leg without a channel whose cap is at or under the
band's floor is always refused (`CheapLegShutOut`). The last is the live sleeve:
its cap, 0.35 in the configurations, lies under the port's floor of 0.45, so it
never holds anything, yet is recorded as open.

`MarketFeedProofs` (any tokens, rules, levels and bounds). `NoTokenMissed` from
`Subscribed`: between reading the token list and sending it, what the message and
the earlier subscriptions cover is all that is known, unless the main thread is about to
send. `StampHonest` from `Stamped`. `FeedConsistent` from `Typed` and `Tracked`: the
local book of a served token, taken through the frames under way, ends at the
venue's book. `BooksSound` from `Sourced`: as long as no frame was lost or failed to
parse, every book on that way has been the venue's. Taking a book through a
list of frames is a recursive function; the proofs reason about its course, the
sequence of books in between, which exists and is unique because the least point of
failure leads to a contradiction.

`ReversalSessionProofs` (any temperatures, reports, sleeves, capital and faults; a
session fires at most twice, as `MAX_FIRES_PER_SESSION` says). `Typed` and `Marked` (an
open row has its mark unless its city left the registry, a sleeve's row its record, a
fire in flight left its number) give `RecordsSound`; `Travelled` (each shot is on
record with its observation, each beyond the last; the file's mark is the dict's
or an earlier one) gives `FiresSound` and the refinement `LifeGoesForward`; `Tidy`
(legs of a row can be told apart, an open one has paid nothing, none is younger than
the mark) and `Explained` (the debit is what open rows cost plus what left unpaid) give
`LedgerSound`.

`ConsensusSessionProofs` (any buckets, books, reports and thresholds under the
module's assumption). `Typed`; `Remembered` (what the strategy object knows of the
row, and the file of the dict), which with `Typed` gives the refinement
`LifeGoesForward`; `Closing` (why and when a row was closed), which gives `ExitsSound`;
`Explained`, which gives `LedgerExplained`.

`CyclesProofs` holds the two loops, which share no state.
*CycleFeeds* (any cities, cadences, midnight and bounds): `TypeOK`, `FedToday`,
`EveryFeedPolled` and `RulesSteady` from `Shape`, `Past` (no stamp in the future),
`Dated` (after the prune only sessions of the cycle's date are armed) and `Polled` (a
feed was asked for no earlier than its stamp says, what was due has been asked by
the end of its step); `ArmedFeedsHot` from `Heated`: an armed session has been armed
since its mark (`Continuous`), a fast pull made since then asked for its city
(`Warmed`, `Watched`), and behind its step a feed is as fresh as the armed interval
asks (`Hot`).
*NegRiskAccount* (any tokens, books, prices and caps): `EquityExplained` and
`AccountSound` from `Sound` of the account in memory and of the one in the file: each
fill, basket and settlement moves cash, cost and profit together, and rounding to the
nearest is off by half a price at most (`HalfNear`), which is where the slack in
`CashCovered` and `InventoryCapped` comes from.
*BasketExecution* (any number of legs, any size): `BasketSafe` from `Legged`: what the
records say of each leg and what the venue did to it (`Recorded`), what each report
entails (`Reported`), and that in a probed basket nothing is left to send behind a
refusal (`Probed`).

`SmokeOrderProofs` (any tokens, books, accounts, commands, retries and faults).
`WritesScoped` and `OkMeansGone` from `IInv`: `Shape`, `Permission` (which steps lie
behind the gates, and that a preview reaches no placing step), `Untouched` (nothing
says ok, and nothing of the account is touched, before the post) and `Truthful` (once
the report says ok the order is gone, and stays so). `TypeOK`, `SpendWithinLimits` and
`SilentOnlyByList` add `Typed`, `Identified` (an id is only known of an order the
venue has), `Budgeted` (whatever may rest was planned within the limits and costs no
more than the plan) and `Rescues` (what each step of a rescue has ruled out).

`FiniteSums` holds the lemmas the ledgers need: a sum over a finite set does not depend
on the order of the fold, and moves with one element, one value or a union; naturals
have a least one. The library's induction theorems take an operator, which the
provers cannot instantiate; these are proved by descent instead, on the subsets that
would violate them, from `WFMin` and the well-foundedness of the strict subset order.

**What the theorems assume.** Only the assumptions named in the modules, which TLC
evaluates on every run: sets of sessions, legs, cities and tokens are finite; numbers
are naturals; `MaxFires` is at most 2 (`MAX_FIRES_PER_SESSION`); in `NegRiskAccount`
the books are books, and a dollar has more than two ticks, so that a bid and an ask
fit inside it (the code's tick is a cent or less). The bounds on faults, cycles and
trades occur in the theorems as arbitrary constants.

**Only model-checked.** The two liveness properties, `BooksConverge` and
`PendingExitsComplete`: fairness and `ENABLED` are out of the prover's reach.

## 5. What is not modelled

Parsing, HTTP, signing, credentials, weather decoding, reports and logs: pure I/O
or pure functions with no state; their effect is a nondeterministic answer.
The sleeve signal's thresholds, and in the reversal lane the age of a report and
the tracker's verdict, are such answers too.

- The peg entry mode and `process_order_lifecycle`, and `is_long_horizon_consensus`:
  no caller in the cycle.
- The wake of the sleeping loop: `set_watch_tokens` has no caller, so the sleep
  always runs its length, and is modelled so.
- Rounding of Fahrenheit readings: temperatures are whole degrees, with the margin
  of the break as a constant.
- A full METAR or TAF pull with a partial answer erases the last good values of
  the rest: modelled in `CycleFeeds`, but no property asks for more.
- `sign_dryrun`, `reconcile`, `creds`, the command line, overrides by environment,
  the health file; simulation, research and scripts, which share no state with the
  trader.

## 6. What is left

1. The four hazards without a property: each asks for a decision about what the code
   should do (what a closed event without a winner pays, which price of a cap or a
   band is inside) before there is
   something to check.
2. The reversal lane on the live track, end to end: `ReversalSession` runs on paper,
   `LiveExit` and `FireWindow` take the decisions of the strategy as given.
