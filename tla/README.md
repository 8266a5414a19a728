# Verification of equity-scout

equity-scout is a personal research and paper-trading system: cron jobs collect
market and filing data, lanes trade paper money from it, and a cockpit, a
Telegram bot and a digest report what happened. This directory holds TLA+ models
of the parts that keep state across runs, the TLC configurations that check
them, and TLAPS proofs of what matters most. It states correctness properties of
the code in `../src`; line numbers refer to that tree.

1. Inventory of the system
2. The modules and how they correspond to the code
3. The runs: what each checks, with which bounds, and what it shows
4. Fairness
5. What is proved
6. What the models found in the code
7. What is not modelled
8. The plan

## 1. Inventory

There is no server that owns the state. Every part is a short-lived process
started by cron (or by hand, or by the API) that reads SQLite, talks to a broker
or a feed, and writes SQLite. So the hard behaviours are nearly all of one kind:
a process acts on the world and writes what it did *afterwards*; it can be killed
in between (the wrapper scripts run it under `timeout`), any call can fail, the
world moves on its own meanwhile, and the next process knows only what was
written.

| Component | State | Operations | Hard behaviour | What makes it correct |
|---|---|---|---|---|
| Ignition lane (`run_ignition_lane.py`, `st_ignition.py`) | `st_books`, `st_trades`, `st_executions`, `st_state` (entries of the day, divergence) | every minute: exits, entry picks, limit bracket per pick, one write, marking of signals, divergence report | kill between order and write; partial and late fills; refused sells; a leg that fires at the venue | caps hold, the book is what executions bought and what the account holds, overdue positions are sold, divergences are reported |
| Session lane (`run_shortterm.py --lane session`, `st_session.py`, `session_reconcile.py`) | book, the day's traded set and last bars, last run | absorb exits the broker made, flatten positions of earlier days, one decision per ticker and bar, overnight sweep | the same, and the end of DAY orders, an outage, a run after hours | flat over night, one entry per ticker and day, no entry after a gap |
| Gap-fade lane (`--lane gapfade`, `st_gapfade.py`) | book, signal marker, lists of open entry and exit orders | settle closing-auction sells, absorb opening-auction buys, signal | orders placed one by one, lists written at the end of a phase | one entry per day, every position has an exit, nothing lingers |
| Swing and crypto lanes | book, markers | simulated fills at bar prices, one write | a crash replays a pass | one write per pass |
| Broker seam (`alpaca_broker.py`) | orders and positions of the one paper account | place bracket, await, cancel, close position, auction orders | the account is shared by the lanes; cancel races fill; close cancels first and sells second | final state of an order is what is booked |
| Auto-Depot (`autotrader_*.py`, `run_autotrader.py`) | the account blob (equity, weights, marks, pending orders, breaker), valuation/trade/event rows, monthly sleeve weights | one advance per panel date: value, fill, decide, protect, commit | stale and late closes, missed nights, columns that come and go, re-adjusted histories, breaker hysteresis | every move of a held position is booked once, books obey the breaker |
| Inbox, notify, receiver (`inbox_storage.py`, `notify.py`, `run_notify.py`, `run_receiver.py`, decision API) | pitches, Telegram's queue of presses, the receiver's offset in memory | withdraw, select, create, send, mark, decide, edit | redelivered updates, two surfaces deciding, two chains selecting from one table | a pitch is decided once, a press is handled, a message tells the truth |
| Arena lanes (`run_lanes.py`, `lanes.py`) | lane portfolios, valuations, trades with the executed marker | exits, execute approved pitches | three transactions per lane | an approved pitch is bought once |
| Guarded chains, job ledger (`run_*_guarded.sh`, `jobs.py`) | done markers, flock, logs | run a chain at most once per day/week, report status | three triggers at once, kill before the marker, the API probing the lock | one chain per day, no slot lost |
| Digest (`run_digest.py`, the resend of `run_notify.py`) | sent marker, pending digest, month of the shown plan, each a row of `app_state` | send, mail, store, resend | send-then-mark, pending in three rows, two chains under two locks | repeats have a failure behind them, a marker is true |
| Watchdog (`watchdog.py`) | heartbeats, alert times | warn once per window | single process, single row | nothing overdue stays silent |
| News sweep (`run_news_sweep.py`, `catalyst_storage.py`) | cursor, the store of articles | fetch pages, store signals, store rejections, move the cursor | articles that appear late, capped pages, a backfill beside the cron pass | the cursor leaves nothing behind, the sweep catches up |
| Catalyst radar (`run_catalyst_scan.py`) | signals with dedup keys | scan, alert, mark traded | failed alert | every signal is alerted once |
| Ledgers, model registry, forward paper, lane parameters | append-only rows resolved later, champion, forward accounts | append, resolve, promote, adopt | late resolution, re-runs | one row per key, stale positions closed |
| Push channels, API and cockpit, evidence and studies, matrix, ML training, strategies, providers, front end | caches and derived data | read, score, render | numeric, or plain I/O | out of scope, section 7 |

How they interact: the catalyst scan writes signals, the ignition lane reads them
in the same minute's script; the lanes share ONE broker account
(`close_position` sells whatever the account holds of a ticker); the nightly
chain runs forward paper, the sweeps and settles of the lanes and then the
Auto-Depot, which reads panel snapshots that forward paper has just rewritten and
the arena lanes' valuations; the digest and the watchdog read what all the
others left. The processes of one lane exclude each other (`flock` in the cron
wrappers, the nightly step runs when no market is open), so a lane module has one
process and the concurrency in it is the venue's and the market's.

`PROJECT.json` lists the hazards line by line: that list is what the properties
are aimed at, and those without a property say why.

## 2. The modules

    PaperVenue <-- IgnitionLane ==> LaneLedger      (==> implements)
        ^              ^
        |              +-- IgnitionLaneProofs
        |                          |  (Session == INSTANCE SessionLane)
        +------ SessionLane <------+

    GapfadeLane <-- GapfadeLaneProofs

    AutoDepot <-- AutoDepotProofs

    InboxProofs --> Inbox ==> PitchContract <-- Arena <-- ArenaProofs

    Digest <-- DigestProofs
    GuardedChains <-- GuardedChainsProofs
    NewsSweep <-- NewsSweepProofs

    MC<Module>: the TLC instance of each

**PaperVenue** is the Alpaca paper account as `alpaca_broker.py` uses it:
`Submit` (`place_limit_bracket`, and the market bracket of the session lane),
`CancelOrder`, `ClosePosition` and its refusal. The venue itself is external: a
resting order fills share by share, is rejected, a bracket leg fires, an accepted
sell fills. What the legs of a cancelled partial fill become is left open, since
nothing in the code fixes it. `close_position` first cancels the resting orders
and then sells, so its refusal may leave the legs cancelled.

**IgnitionLane** is one run of `run_ignition_lane.main` as a process with a
program counter. The stores are `book`, `entries`, `tradedOn`, `closed` /
`verdict`, `executions`, `reported`, and the radar's `signals` / `traded`; what
the process knows and has not written is `run`, and it dies in `Crash`.

| Action | Code |
|---|---|
| `StartWith` | load, stop criterion, `pick_exits` (142-188) |
| `Exit`, `ExitRefused` | `close_position`, then `book.sell` or `continue` (188-204) |
| `PickEntries` | `pick_entries` against the book *after* the exits (`st_ignition.py:119-194`) |
| `PlaceEntry`, `SkipEntry` | `place_limit_bracket` (217-240) |
| `CancelUnfilled`, `CancelLost`, `ReadFails` | `settle_or_cancel`, and what it swallows or lets through |
| `BookEntry` | `bookable`, `record_execution`, `book.buy` (241-268) |
| `Persist` | `persist_lane_step`, the one transaction (270) |
| `MarkTraded`, `ReportDivergence`, `ReportSkipped` | 276-302 |

`todo` in the run's memory is the list of signals not yet judged in the pass; one
signal is one `(ticker, move bucket)`, the radar's dedup key.

**LaneLedger** is the abstract specification: a persisted book changes only by
whole passes that sell positions completely, open new ones within the caps, and
open nothing that was traded the same day. `IgnitionLane` implements it under the
identity mapping of the persisted stores; a crash, an order or a fill is a
stutter.

**SessionLane** is `run_session`: `Start` (reconcile, gap check), `AbsorbExit` /
`HistoryUnread` / `AbsorbDone` (`resolve_book_only`, `_absorb_broker_exits`),
`Flatten` (`_flatten_stale_positions`), `Hold` / `Buy` / `CloseAccepted` /
`CloseRefused` (`decide` and its execution), `Settle` / `Cancel` / `CancelLost`
(`settle_or_cancel`, the last for a cancel whose error the broker seam swallows),
the sweep as the same run outside the window, `Persist`. `tick` counts settled
bars; the last one is the bar `_is_last_session_bar` sees. `decide` walks all
fresh bars of a ticker and fills a breakout on the bar after it: `MayBuy` asks
that there is such a bar besides the closing one (`BarToFill`). A breakout on the
newest bar leaves that bar unprocessed in the code; here it counts as judged, and
the next fresh bar may buy.

**GapfadeLane** is `run_gapfade` in its three phases. It has auction orders of
its own instead of `PaperVenue`: they fill in the opening or the closing auction
and nowhere else. `SettleExit` / `RenewExit` / `RenewRefused`, `AbsorbFill` /
`AbsorbRefused` / `AbsorbNone`, `Signal` / `Submit` / `SubmitRefused`, each phase
ending in the write of its list.

**AutoDepot** is `advance_depot` with `DrawdownBreaker` and the transaction of
`persist_advance`. `Day` is the panel: closes, late closes, distributions, and
columns that leave or come back. `Advance` and `Wipe` are the handler. The equity
is the product of what the code sums over the tickers, in floating point: the
model leaves it open to any value that the signs of the moves and of the trades
allow (`DriftsTo`, `FillsTo`: without a loss and without a short it does not
fall, without a trade the fill changes nothing, and so on). A weight is the
target it was filled at, and a price is its logarithm in steps, so that returns
booked one after the other add up. Dates are relative (`unseen`: closed after the
mark's date; `cooled`: days since the breaker changed, saturating at the
cooldown), so the model has infinite behaviours in finitely many states. Because
the advance reads, computes and then commits account and rows in one
transaction, a crash inside it is the same as not having run, which is a `Day`
without an `Advance`. `entry`, `booked` and `received` are history variables: the
price a position was filled at, the moves booked for it since, the distributions
it was held through.

`GapfadeLane` writes a sum over orders (`Total`) as the number of shares counted
one by one, a form that can be reasoned about for sets of any size;
`MCGapfadeLane` assumes that it is the fold one would write (`TotalIsSum`), and
TLC evaluates that on every run.

**PitchContract** is the abstract specification of the inbox: a pitch is offered
once and leaves `open` once, decided or withdrawn. It stands between two detailed
modules: `Inbox` implements it under the mapping that forgets days and messages,
and `Arena`, which only reads pitches, takes its steps as the inbox's.

**Inbox** has five kinds of process and Telegram between them.

| Action | Code |
|---|---|
| `NotifyStart` | `notify_watchlist` up to `expire_stale_pitches`, one transaction |
| `Select` | the cooldown and the open pitches are read, candidates chosen (`notify.py:111`) |
| `Create`, `Send` / `SendTwice` / `SendFails`, `SetMessageId` | per candidate: the row, the photo and its text fallback, the id of the message |
| `Press`, `Cockpit` | the phone, `POST /api/inbox/{id}/decision` |
| `Fetch` | `poll_updates`: asking from an offset confirms all before it |
| `Decide`, `AlreadyDecided`, `Edit`, `EditFails` | `process_round`, press by press |
| `NotifyCrash`, `ReceiverCrash` | a kill between any two; the receiver starts again with no offset |

**Arena** is one run of `run_lanes.py`: `Start` reads what both lanes will use,
then per lane `SaveNico` / `SaveAutopilot`, `SaveValuation`, `RecordTrades`, the
three transactions of `lane_storage.py`, with a `Crash` between any two. `fills`
and `credited` are histories of what a crash makes the stores forget.

**Digest** has two processes, the digest run of the daily chain and the notify
run of the intraday chain. `ReadDate` ... `Resend` is `maybe_resend_pending`,
which both run; `Check` ... is the rest of `run_digest.main`. A digest carries the
plan of the month only while the month is unmarked, and even then `Collect` may
find none (`build_core_plan` returns `None` without a panel or a signal). Every
`set_state` is a `Write` of its own, because `app_state` commits row by row.

**GuardedChains** is the three guarded wrappers, the full refresh and the
cockpit's probes and starts. `Trigger` is a timer (lock, weekend, marker, begin),
`ChainEndsWell` / `ChainFails` / `WriteMarker` its end, `RefreshPhase` the loop of
`run_full_refresh.sh`, `Request` ... `Launch` the endpoint that probes each lock
in turn and then starts the unit, `StatusTake` the probe of the status page,
which shuts out a trigger for a moment. A trigger that skips does so in one step,
although a wrapper that finds its marker holds the lock for that moment, and the
panel starts one job at a time, although two taps may reach the API together. A
flock is inherited, so `KillWrapper`
leaves the chain alive *and the lock held*; a `Reboot` ends everything.

**NewsSweep** is the pass of the news sweep, twice: the one cron starts under its
lock, and one started by hand with `--backfill-hours`, which takes no lock.
`FetchPage`, `StoreSignals`, `StoreRejections` and `MoveCursor` are a call or a
transaction each. `Appear` is the wire: an article may be visible later than it
is dated.

Abstractions in all lane modules: prices are reduced to the decisions they lead
to (a stop is breached or not, a ticker has bars or not); cash is left out since
it never binds (four positions of 10 %, three of 15 %); a run's time limit
(50 s, 55 s, 240 s) is a crash at any point; network exceptions that the seam
does not translate are the same crash.

## 3. The runs

Every passing run also has, per property, a mutant of a mapped definition that
violates it (`PROJECT.json`, `mutants`); the `Mut_...` operators stand next to
what they replace and are used by nothing else.

| Run | Bounds | Properties |
|---|---|---|
| `ignition_caps` | 2 tickers, lot of 2, 2 orders, 2 days, caps of 1, 1 fault | `TypeOK`, `BookWithinCaps`, `BookIsAccount`, `ImplementsLedger` |
| `ignition_live` | 1 ticker, lot of 2, 2 orders, 2 days, 1 fault | `TimeStopWhileRunning`, `DivergenceTracked` |
| `gapfade` | 2 tickers, lot of 2, 5 orders, 3 days, cap of 1, 1 fault | `TypeOK`, `OneEntryPerDay`, `HeldHasExit`, `AccountKnown`, `OneRestingSell` |
| `session` | 1 ticker, lot of 2, 2 orders, 2 days, 3 bars, 1 missed slot, 1 fault | `TypeOK`, `BookIsAccount`, `OneEntryPerDay`, `EveryPositionEnds` |
| `depot` | 1 ticker long and short, prices 1..3, an equity of 0, 8, 9, 10 or 11 from 10, cooldown of 2 days, a column that leaves | `TypeOK`, `EveryMoveOnce`, `BookFollowsStage`, `OneStageBack` |
| `inbox` | 1 ticker, 2 decisions, 2 pitches, 2 presses, cooldown of 1, 2 days, 1 crash or failed call | `TypeOK`, `OutcomeShown`, `RepeatNeedsOverlap`, `SingleTransition`, `PressHandled` |
| `arena` | 2 tickers, 2 pitches, 3 days, 3 runs, 1 crash | `TypeOK`, `ApprovedOnce`, `AuditTrail`, `FairSpan`, `NoRoundTrip` |
| `digest` | 2 days, 5 runs, 2 failed sends, 2 kills | `TypeOK`, `RepeatsExplained`, `PlanShown`, `NeverStale` |
| `chains` | week of 2 days with 1 workday, 3 days, 2 triggers or requests, 1 kill | `TypeOK`, `OnceASlot`, `SlotServed`, `QuietStart` |
| `news` | 3 articles, 2 of them signals, pages of 1, passes of 2 pages, overlap 1, lag 2, minutes 4..5, 1 failed pass, 1 backfill | `TypeOK`, `NoGap`, `CatchesUp` |
| `ignition_doubled`, `session_stale` | as small as the counterexample allows | violations, section 6 |

What the passing runs show.

*ignition_caps.* Whatever fills late, fills in part, is refused or dies, the
stored book keeps the caps on positions and entries of a day. Without a fault it
holds between runs exactly what the account holds, apart from two things the code
lets happen, which the property names: a leg that fired (the lane has no
absorption), and a ticker bought twice (section 6).

*ignition_live.* A position past `MAX_HOLD_DAYS` that book and account both hold
is eventually sold, and the divergence report neither stays silent for ever nor
lingers for ever. Both exclude a lane that met its stop criterion, since then
`main` returns before the exits.

*gapfade.* A crash between the marker and the submission loses a day's entries
and never doubles them; a booked position is always on the exit list, whichever
write a crash prevents. The account equation and the single closing order are
stated without faults: with one, the model reaches a second closing
order and an order no list knows (hazards of `run_shortterm.py:293` and `:327`).

*session.* Within a day and without faults book and account agree after every
run, or the account holds nothing because a leg sold the position. And every
booked position ends, on one of four ways: absorbed, sold, swept, flattened. That
the gap check lets no entry through on the word of a run of an earlier day is
proved only (`NoEntryAcrossNights`, section 5).

*depot.* `EveryMoveOnce` ties the marks, the close-to-close drift, the
open-to-close attribution and the fallback fills together: what the depot has
booked for a held ticker is the whole way from its fill to the last close it
read, for closes that are missing for several nights or land late and for columns
that leave and come back. Its mutant is the window return the code had before
marks existed. It says nothing of what the equity adds up to: the attribution of
a rebalanced book is exact to first order only, as the code says
(`autotrader_engine.py:256-260`). `BookFollowsStage` and `OneStageBack` say what the breaker's
hysteresis guarantees across nights. That the stop stops, a book emptied under the
hard stage loses nothing more, is proved only (`CashStopsLoss`, section 5).

*inbox.* Whoever gets there first, chains, cockpit, phone or a redelivered press,
a pitch changes its status once, and what a message shows is what its pitch
became. A press is decided in the end although the offset lives in memory: a
round confirms nothing before the next one asks. What does *not* hold is that a
ticker is never pitched twice within its cooldown; `RepeatNeedsOverlap` says that
it takes two notify steps that overlap.

*arena.* Composed with an inbox that may do anything its contract allows, a pitch
is bought once unless a run died between its portfolio and its trades, the audit
trail adds up, and the two lanes are compared over the same days of dividends.

*digest.* Reruns and overlapping resends never repeat a digest; a failed send or
a kill costs at most two copies. After one kill anywhere between the rows the
pending digest is still the right day's and the marker is true. The plan of the
month is marked only when it was shown, as long as no runs overlap and either
nothing was killed or at most three sends and processes failed; with two of each
it is not so (`PlanMarkedWhenShown`, section 6).

*chains.* Three triggers, the refresh and the phone run a slot once and serve it
once; each exception the property names is one the model reaches. A kill of a
wrapper in the memory guard leaves its chain running, and nothing starts a second
one beside it.

*news.* Whatever a page limit, a late article, a failed pass or a parallel
backfill does, the cursor leaves nothing behind that appeared in time, and the
sweep catches up, except where other articles within one overlap fill a pass.

Why the bounds are enough. The lane hazards need: an order that can fill in part
(a lot of 2), a second ticker or a second order to compete for a slot (2 tickers
or 2 orders, cap of 1), a day that ends with something open (2 days; 3 for the
gap-fade lane, whose positions cross two auctions and whose renewals cross
another), and one interruption at any point: a second fault only repeats the
first from a state that is already reachable through partial fills and refusals.
The depot's tickers meet in the equity and in the weights: a fill or a move of one
puts the weights of all the others off their targets. The model leaves the first
open and states the second (`Traded`); one ticker, long and short, then reaches
every stage, a wipe, and every pair of fresh, stale and late closes, with
equities on both sides of all four thresholds, and the theorems of section 5 cover
any number of tickers. The inbox needs two rows of one ticker (cooldown, redelivery of
the older press) and two presses in one round; tickers meet nowhere else. The
arena needs two pitches of one ticker and a lane that holds another. A digest
needs a second day, a failure to create the pending rows and a kill between them,
twice, since `NeverStale` distinguishes one accident from two. The chains need a
workday, a weekend and a second week's stamp. The sweep needs an article more than
a pass holds, a lag longer than the overlap, and a clock that starts late enough
for every look back (`Start`) and moves once: the passes of one minute and of the
next already meet the cursor in every order. Deadlock is not checked because
the bounds end every behaviour (no more days, orders or presses), and a wiped
depot really stops.

## 4. Fairness

* Ignition: weak fairness of a run's steps (a process that runs goes on), of an
  accepted sell filling at the venue, and strong fairness of a run in which a
  held ticker has a price, of an accepted exit and of the divergence report.
  Cron starts a run every minute; that a price or an answered query comes *again
  and again* is the weakest assumption under which anything is ever sold, and the
  violation of `TimeStop` shows that it is not enough for what the lane's rule
  text promises.
* Session: weak fairness of the run's steps, of starting, of the market's clock,
  of an accepted sell filling; strong fairness of a run in which a held ticker
  has bars.
* Depot: weak fairness of the market's days, of the advance and of the wipe
  (`FairSpec`, used by the counterexample of `BreakerRecovers` in section 6).
* Inbox: weak fairness of the receiver's steps: it polls in an endless loop and
  `receiver_keepalive.sh` restarts it within five minutes. No fairness of the
  notify steps, of a press or of the cockpit.
* News: weak fairness of the clock, of the pass cron starts every minute, and of
  the steps of that pass, which runs under a time limit. A pass started by hand has
  no limit and may hang; appearances and backfills are never fair.

Crashes and refusals are never fair, and bounded (`MaxFaults`, `MaxCrashes`,
`MaxKills`).

## 5. What is proved

Every theorem holds for all constants that satisfy the named assumption of its
module: finite sets and naturals of any size, a lot, a page or a day of at least
1. Each is a safety property proved from an inductive invariant: it holds
initially, every action preserves it, and it implies the property. Where the
property itself is not inductive, what had to be added is the argument.

`IgnitionLaneProofs` (`VenueAssumption`, `LaneAssumption`):

* `TypeCorrect`: `Spec => []TypeOK`. The inductive invariant adds to the types
  that a resting order has shares left to fill (otherwise a fill exceeds the
  order) and that a process that waits for an order has one. One lemma per venue
  operation (`SubmitType`, `CancelOrderType`, `CancelAll`, `VenueStepType`), one
  step per action of the lane.
* `CapsHold`: `Spec => []BookWithinCaps`. The caps alone are not inductive: the
  book is written once, from memory, so the invariant (`PassInv`) bounds the
  memory: what the pass holds plus what it may still buy fits the cap, what it
  counted plus what it may still buy fits the day, and the memory differs from
  the stored book only in tickers this pass sold whole or bought today. Each lemma
  (`ExitWithinCaps`, `PlaceWithinCaps`, `BookEntryWithinCaps`,
  `PersistWithinCaps`) follows one handler; cardinalities go through
  `FiniteSetTheorems`.
* `LedgerImplemented`: `Spec => ImplementsLedger`. `PersistIsPass` shows that the
  single write is one `Pass` of the ledger, with `sold` and `opened` read off the
  memory by `PassInv`; every other step stutters or is `NewDay`.
* `BookIsRight`: `Spec => []BookIsAccount`. Between the fill of an order and its
  booking the account is ahead of the memory, so `AccountInv` compares the account,
  less what the awaited order brought, with the book *as the lane sees it* (memory
  in a pass, store between two); a ticker agrees, was sold by a leg, or was bought
  twice. Live legs protect exactly the booked shares, and without a fault nothing
  rests but the order the pass waits for.

The same module proves the session lane, as `Session == INSTANCE SessionLane`: it
trades on the same venue, so `SameVenue` carries the venue's lemmas over, and the
instance has a memory and stores of its own. `SessionAssumption` is the hypothesis
of these theorems.

* `SessionTypeCorrect`: `Session!Spec => []Session!TypeOK`. One lemma per handler
  says what it does to the run's memory (`JudgedDoes`, `BookedDoes`, `ExitedDoes`,
  ...); `SessionTypes` adds that a position and its entry day come and go together,
  in store and memory, and that the time stamps are not ahead of the clock.
* `SessionBuysOnceADay`: `Session!Spec => []Session!OneEntryPerDay`. `EntryInv`:
  without a fault every fill of today is in the traded set the next decision will
  read, in memory while a run decides and in the store otherwise, except the fill
  of the awaited order, whose ticker is not in it yet; nothing else rests.
* `SessionBookIsRight`: `Session!Spec => []Session!BookIsAccount`.
  `SessionBookInv`: on the first day without a fault a ticker was never bought, or
  exactly one order bought it (`EntryInv`), and that order's shares are still in
  the book (or awaited, or sold by its leg), or out of the book and all that the
  account has left is being sold. What a run is about to absorb has been sold by a
  leg. A cancel's outcome is open, so the proof needs the legs of a resting order
  to be absent.
* `NoEntryAcrossNights`: `Session!Spec => Session!NoEntryAfterGap`, an action
  property. `GapInv`: a finished run of an earlier day lies more than `MaxGap`
  before the begin of today, and what the gap check saw at the start of a process
  still holds when it buys. TLC agrees with 3 days and the other constants of
  `session`.

`GapfadeLaneProofs` (`GapfadeAssumption`):

* `TypeCorrect`: `Spec => []TypeOK`. Sells are placed for what an order filled and
  books hold one lot at most because a buy of a held ticker is refused. `TypeInv`
  types the run's memory and says which of its lists a phase has emptied.
* `BuysOnceADay`: `Spec => []OneEntryPerDay`. `EntryInv`: no buy is newer than the
  marker, and while orders go out the picks left have none today.
* `PositionsHaveExits`: `Spec => []HeldHasExit`. `CoverInv` states the same of the
  memory: a fill leaves the entry list only together with an exit for it, and an
  exit leaves its list only with the position.
* `OneClosingOrder`: `Spec => []OneRestingSell`. `SoleInv` follows the three lists
  through memory and store: every resting sell is the order of one listed exit,
  exits and entries are one per ticker, and no ticker has both.
* `AccountIsKnown`: `Spec => []AccountKnown`. `AccountInv` balances the account
  after every step, not only between runs: book plus fills of the entries, less
  fills of the exits, plus what partly filled sells left over. An auction changes
  both sides by the same fills (`AuctionSums`); a settled exit turns its fill and
  its rest into the position that leaves the book (`SoldBalance`), since a closing
  order is always for the whole position.

`AutoDepotProofs` (`DepotAssumption`; any tickers, targets, thresholds):

* `RecoveryIsStepwise`: `Spec => OneStageBack`, and `BookObeys`:
  `Spec => BookFollowsStage`. The invariant is `BreakerInv`: the stage's range,
  and that the pending orders, not the book, are what the persisted stage
  allows. That is the fact that makes "one advance later" true. The prices and
  the equity stay opaque: both hold for any market. `CashIsSafe`:
  `Spec => CashStopsLoss`, from the same invariant: under the hard stage what is
  pending for a flat book is flat too, so nothing moves and nothing is traded.
* `TypeCorrect`: `Spec => []TypeOK`.
* `MovesBookOnce`: `Spec => []EveryMoveOnce`. The property speaks of positions
  whose last close the depot has read; the invariant (`MarksFit`) speaks of all:
  a held ticker has a mark, what was booked for it is the way from its fill to that
  mark, and the mark is the last close unless a newer one is unread. An advance
  reads a newer close exactly when the column is there, and then moves the mark
  with it.

`InboxProofs` (`InboxAssumption`: any cooldown, any number of rows, presses and
crashes):

* `TypeCorrect`: `Spec => []TypeOK`, one lemma per named part (`PitchesStep`,
  `PhoneStep`, `QueueStep`, ...). Rows only grow and a row keeps its ticker, so
  what a message, a press or a process names stays there (`Monotone`).
* `CooldownHolds`: `Spec => []RepeatNeedsOverlap`. The property is not inductive:
  the row is created long after the selection. `StepInv` carries the selection:
  in the rows a step has seen, what it is about to pitch was outside its
  cooldown, and the clock it read is not ahead.
* `ContractKept`: `Spec => SingleTransition`, the refinement of `PitchContract`:
  a created row is an `Offer`, the sweep a `Withdraw`, both surfaces' `UPDATE ...
  WHERE status = 'open'` a `Decide`, every other step a stutter.
* `ShowsTheOutcome`: `Spec => []OutcomeShown`. `OutcomeInv` adds that a row knows a
  message of its own, that only a decided row is being edited, and that the last
  message of the chat is the one the daily chain is about to note.

`ArenaProofs` (`ArenaAssumption`, and the inbox only through `PitchContract`):

* `TypeCorrect`: `Spec => []TypeOK`, with the clock: nothing is valued ahead of the
  day.
* `BoughtOnce`: `Spec => []ApprovedOnce`. `ApprovedInv`: an order of a run is
  approved and not marked, and every fill beyond the first has a crash behind it.
* `TradesAddUp`: `Spec => []AuditTrail`. Between a portfolio and its trades the
  trail is behind by what the run holds in memory (`AuditInv`).
* `NothingUndone`: `Spec => []NoRoundTrip`: without a crash every ticker of the
  lane stands for a pitch it bought (`TripInv`).
* `SameDays`: `Spec => []FairSpan`. `SpanInv` says, for each point of a run, how
  far either lane is ahead.

`DigestProofs` (`DigestAssumption`):

* `TypeCorrect`: `Spec => []TypeOK`.
* `PlanWasShown`: `Spec => []PlanShown`. The danger is the month row of a pending
  digest beside the text of one without a plan (`Unshown`: the row says the month,
  the plan never left the house). `PlanInv` counts the accidents each stage of that
  takes, for the one run that is not idle: a failed send to store the month, a
  kill or a second failure to part it from its text (`Tried`), another failure to
  put a text without the plan beside it (`Strained`), and a kill more to leave it
  there with nobody about to clear it (`Torn`). `Rowed` follows the same through
  the writes still to come, `Telling` through the memory.
* `RepeatsAreExplained`: `Spec => []RepeatsExplained`. `RepeatsInv`: what arrived
  of a day's digest, and the copies that rows, writes and both memories can still
  bring to the phone (`Owed`), are at most one and two for every failed send or
  kill. A delivery uses up an owed copy; a fault adds two at most, as both
  processes may resend one pending text. `DayInv` keeps rows and memories from
  speaking of another day than the one they are sent on.
* `SendsItsOwnDay`: `Spec => []NeverStale`. `StaleInv`: a date row is followed by
  the row of its text, so only a process between the two rows, or the one kill,
  parts them; before the kill a run never meets a pending digest of another day.

`GuardedChainsProofs` (`ChainsAssumption`):

* `TypeCorrect`: `Spec => []TypeOK`.
* `RunsOnceASlot`: `Spec => []OnceASlot`. `OnceInv`: stamps never go back (the
  week's stamp by division lemmas), and each begin of a slot is the running one,
  the marked one, a failure or a kill.
* `ServesEverySlot`: `Spec => []SlotServed`. `ServedInv`: what is marked was
  served, and every due slot is answered.
* `StartsAreNotQuiet`: `Spec => []QuietStart`. `QuietInv`: once the lock of the
  job was found free it stays free of everybody but the request's own probe until
  somebody moves.

`NewsSweepProofs` (`SweepAssumption`):

* `TypeCorrect`: `Spec => []TypeOK`, with the lower bound of dates that keeps every
  look back inside the model's time.
* `NothingLeftBehind`: `Spec => []NoGap`. `GapInv` follows both passes: nothing
  unread lies before a pass's start (`StartInv`), what lies behind the pages read
  came after them and is at most an overlap old (`PagesInv`, `ReadInv`), and the
  cursor moves only when everything read is stored (`StoredInv`). The newest
  article of a set exists by well-founded induction on a concrete order
  (`MaxOfBounded`).

Only model-checked: everything temporal under fairness (`TimeStopWhileRunning`,
`DivergenceTracked`, `EveryPositionEnds`, `PressHandled`, `CatchesUp`), which the
prover cannot express. Every invariant and every action property that a run of
section 3 checks and TLC finds true is a theorem.

## 6. What the models found

Two runs that TLC must find violated, with the line they contradict in
`PROJECT.json` (`findings`):

* `ignition_doubled`: `pick_entries` never looks at the picks of the same pass,
  so two signals of one ticker in two move buckets buy it twice and book it once.
* `session_stale`: a position of an earlier day is flattened in the book only.

Further disagreements have their property in the module and no run of their own;
the constants reproduce them.

| Property | Constants | What happens |
|---|---|---|
| `IgnitionLane!TimeStop` | `FairSpec`, as `ignition_live` with 1 order, `StopTrades` 2, no fault | after a leg sold a position every later sell is refused, and the lane keeps the position for ever |
| `GapfadeLane!NothingLingers` | 1 ticker, lot 2, cap 1, 3 orders, 1 day, no fault | a closing order that filled in part counts as settled in full, and the account keeps the rest, against `run_shortterm.py:354` |
| `Inbox!NeverInsideCooldown` | as `inbox`, 1 day, no crash | two overlapping notify steps pitch a ticker twice, against `inbox_storage.py:6-7` |
| `Arena!ValuedTogether` | as `arena` | a run that dies between the lanes values one of them, against `run_lanes.py:113` |
| `Digest!PlanMarkedWhenShown` | as `digest` | a digest that cannot be sent is stored with its month; a clear killed before the last row leaves the month; a digest without a plan cannot be sent and its store is killed before the last row; the next resend sends that text and marks the plan, against `run_digest.py:346-347` |
| `GuardedChains!ProbeCostsNothing` | as `chains`, 2 days, 1 trigger, no kill | a trigger that meets the status page's probe is skipped, against `jobs.py:188` |
| `AutoDepot!NothingLost` | as `depot`, `Leavers = {a}` | a held ticker whose column leaves is closed at its old mark; its last moves are never booked |
| `AutoDepot!ReturnsAreTotal` | as `depot`, `Payers = {a}`, `Leavers = {}` | a mark stays in an old adjustment: a distribution is lost, a split reads as a crash |
| `AutoDepot!BreakerRecovers` | `FairSpec`, as `depot` with `Equities = {0, 8, 10}` | the hard stage empties the book, which freezes the drawdown its recovery waits for |

Seen in the models, with a note at the hazard where it is one: a cancel that
fails is taken for a completed order (`CancelLost` in both lanes with brackets); a refused sell of the session lane is
booked as done; a crash of the gap-fade lane after an auction order and before
its list loses the order's id, or places a second closing order; a stopped
ignition lane never sells what it still holds; after a failed flatten a position
has no protective legs. A digest whose resend failed and whose own send then
worked stays pending and is sent a second time the same day; two kills, or a
kill and overlapping runs, send yesterday's text as today's
(`run_digest.py:262`). The news cursor stops where other articles fill a pass
within one overlap. A backfill by hand has no time limit
(`run_news_sweep.py:60-83`) and moves the cursor to the newest article it read
(`:134`): an article that appears behind its pages while it hangs can be older than
the overlap when it ends, and no pass of cron ever reads it. The proof of `NoGap`
found this case; such articles count as `late`.

Read in the code around the models: a full refresh logs OK for a phase that was
skipped; the Monday run of the daily chain starts the scout without the weekly
lock (`daily_copilot.sh:65`); `jobs._STEP_RE` does not see TIMEOUT lines; a failed
catalyst alert is retried only by a pass that writes something new
(`run_catalyst_scan.py:168`, `:194`).

## 7. What is not modelled, and why

* Floating-point strategy, screening, ML and study code: numeric data without a
  protocol, out of a model checker's reach.
* Parsers, providers, HTTP rendering and the front end: pure input and output.
* Inside the modelled components: prices and limit arithmetic of the ignition
  rules, the wording of rejections, the simulated (yfinance) path of the session
  lane, costs, borrow fees, benchmark and currency of the depot, and its cap,
  regime gate and vol target, which may return any target in the model; what costs,
  fees and sums over tickers do to the equity is left open.
  Promotions and monthly sleeve weights of the depot belong to a planned module.
  In the inbox: which zone or score qualifies a ticker, and the evidence of a
  pitch. In the arena: prices, the exit rules and cash, which only decide what is
  sold and how far a list of orders gets; both are choices in the model. In the
  digest: its sections, and a run that spans midnight (the chain ends before). In
  the chains: the steps inside a chain. In the sweep: what an article says.
* Two lanes on one account at once: planned (`SharedAccount`).
* Watchdog, catalyst alerts, prediction ledgers and model registry, forward paper,
  lane parameters and the promotion gate, push: single processes with one write
  each, or best effort; the hazards they do have are listed without a property.
* The reading side of the API and the research code are most of the repository's
  lines, which is why the models cover a small share of them: they cover the
  processes that write shared state.
* SQLite is assumed to make one transaction atomic and durable (WAL, 30 s busy
  timeout, `db.py`).

## 8. The plan

Ordered by what a wrong step would cost:

1. `PaperVenue`, `IgnitionLane`, `LaneLedger`: done, every safety property proved.
2. `AutoDepot`: the advance and the breaker done and proved; next the promotions
   with their audit rows, and the monthly sleeve weights.
3. `Inbox` with `PitchContract`, composed with `Arena`: done and proved.
4. `GapfadeLane`, `SessionLane`: done, every safety property proved.
5. `GuardedChains`, `NewsSweep`, `Digest`: done, every safety property proved.
6. `SharedAccount`: ignition and gap-fade on one account; `CatalystScan` alerts;
   the watchdog; forward paper's stale positions; champion promotion.
