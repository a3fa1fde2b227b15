# TLA+ models of prediction-market-maker

The program is one asyncio process that quotes binary (and N-outcome) prediction
markets on Polymarket and Kalshi, keeps its own position and collateral, hedges
on Hyperliquid and stops itself through a kill switch. This directory holds TLA+
modules of its core, TLC configurations that check them, and proofs checked by
TLAPS. Paths below are relative to the repository root; line numbers are those
of the commit these modules were written against. `PROJECT.json` maps every
definition that models code to its lines.

    tlc -config om_core.cfg MCOrderManager.tla     # any run: see the table
    tlapm InventoryProofs.tla                      # the proofs

## The system

| Part | State it keeps | Operations | Talks to |
|---|---|---|---|
| `OrderManager` (`src/execution/order_manager.py`) | `_live` (order per market and side), `_all` (order by id), flicker filter | `update_quotes`, `mark_filled`, `_cancel_all` | Polymarket REST; called by the strategy task, the fill dispatcher and the kill monitor |
| `KalshiOrderManager` (`src/execution/kalshi_order_manager.py`) | the same, and tick sizes | the same | Kalshi REST |
| `FlickeringFilter` (`src/execution/order_types.py`) | cancel times and freeze end per side | `record_cancel`, `is_frozen` | both order managers |
| `InventoryManager` (`src/inventory/manager.py`) | position with a long and a short leg, realized PnL, collateral per venue | `seed_position`, `on_fill`, `on_resolution`, `on_order_placed`, reports | fed by `_apply_fill` and reconciliation; read by strategy and sizing |
| `RiskEngine` (`src/risk/engine.py`) | a mirror of the position, PnL buckets, PnL samples, last book time | `on_fill`, `on_market_update`, `on_book_update`, one round of checks per second | sets `kill_event` |
| `BaseFeed` (`src/data/base_feed.py`) | connection status, last message time, backoff | `run`, `_consume_loop`, `_watchdog`, `_emit_health` | socket; `feed_queue`, `health_queue` |
| `Orchestrator` (`src/main.py`) | the queues, last mids, `kill_event`, feed downtimes | `_setup`, the strategy loop, the fill dispatcher, the kill monitor, the health monitor, the calibrator | everything |
| `StartupReconciler` (`src/execution/reconciliation.py`) | none | fetch positions, cancel resting orders | both venues; its result seeds `InventoryManager` |
| `BookRegistry`, `UnifiedBook`, `L2Book` (`src/data/unified_book.py`) and the venue feeds | bids and asks, OFI, CVD, mid history | snapshots, deltas, trades | `feed_queue` in, `state_queue` out |
| Categorical basket (`src/data/categorical_book.py`, `src/pricing/c*.py`) | latest state of each outcome, covariance | `update`, fair value, skew | strategy loop |
| Pricing and sizing (`src/pricing/fair_value.py`, `sizing.py`) | model parameters | pure | strategy loop |
| `HedgeEngine` and price feed (`src/hedging/`) | correlation history, last hedge, mids | `compute_and_hedge`, `execute_hedge` | Hyperliquid REST |
| Signers, authentication, secrets, settings | keys, configuration | pure, or I/O at start | |

All tasks share one event loop, so a handler without an `await` is atomic. What
is hard is what happens at the awaits: an HTTP call in flight while a fill is
handled, the kill monitor sweeping or the exchange acting; calls that time out
although the exchange acted; fill events that overtake the answer to their
POST, or never come; a status object shared by reference through a queue; two
components that keep the same position from the same fills with different code;
checks that only run on certain events. `PROJECT.json` ("hazards") lists each of
these at its line, with the properties aimed at it.

What makes each part correct:

- orders: one order per side at the exchange, everything that rests can be
  cancelled, no order against our own, the limit overshot by less than one
  order of longs and two of shorts, a kill that leaves nothing, updates that end;
  what breaks this for one side must not break it for the other;
- inventory: legs and net agree, money is conserved, the position is the sum of
  the fills whatever way they are split;
- risk: the checks decide on the PnL of now and of the right day, pruning loses
  nothing, silence is noticed;
- feeds: an outage trips the switch in time, a dead connection is given up;
- Kalshi orders over restarts: nothing rests that the program has forgotten and
  nothing it remembers is gone, unless a call failed, an event was lost or a fill was
  counted twice; the position is the exchange's;
- hedge: every order brings a market's hedge nearer its target, what is booked is
  what the account holds, a kill ends it;
- books: what is shown is what the exchange had, nothing invented, not crossed once
  a message is dealt with, right again after a loss;
- together: both holders of the position agree.

## Modules

| Module | What it is |
|---|---|
| `OrderManager`, `MCOrderManager` | Orders of one Polymarket market, the strategy task, the fill dispatcher, the kill monitor and the exchange |
| `Quoting` | The steps of pricing from a reservation price to two quotes, and the rounding to a tick |
| `OrderManagerProofs` | Theorems about `OrderManager` |
| `OperatorProofs` | Theorems about `Quoting`, and about the sums over sets and queues and the fractions the other proofs use |
| `KalshiOrders` | Orders of one Kalshi market, the flicker filter with its window, the strategy task, the dispatcher, the exchange |
| `Restart`, `MCRestart` | Composition: the end of the process and the start of the next, with reconciliation, around `KalshiOrders` |
| `RestartProofs` | Theorems about `Restart` |
| `Hedging`, `MCHedging` | `HedgeEngine`, the price feed, and the strategy task's passes over markets on one coin |
| `HedgingProofs` | Theorems about `Hedging` |
| `Inventory`, `MCInventory` | `InventoryManager` with `FillProcessor` |
| `SignedLedger` | Abstract specification: a signed position per market and the money paid for it |
| `InventoryProofs` | Theorems about `Inventory` |
| `RiskEngine`, `MCRiskEngine` | `RiskEngine` |
| `RiskEngineProofs` | Theorems about `RiskEngine` |
| `FillPath`, `MCFillPath` | Composition: `Inventory` and `RiskEngine` fed by the orchestrator |
| `FillPathProofs` | Theorems about `FillPath` |
| `Feeds` | `BaseFeed` and the health monitor, for one feed |
| `Books`, `MCBooks` | One market's order book: exchange, venue feed, dispatch, `BookRegistry`, `UnifiedBook`, `L2Book` |
| `MarketDataProofs` | Theorems about `Books` and about `Feeds` |
| `Fractions` | Exact fractions for entry prices and PnL |

### OrderManager

An action is what one task does from one await to the next. `calls` holds the
HTTP calls in flight, with the task that waits; a call of the caller `"nobody"`
timed out and is still on its way. `task` is where the strategy task is: idle,
quoting (with the sides still to do) or sweeping (`asyncio.gather` over cancels).
`venue` is every order ever sent, in order: its index is the order id, which
the manager only learns from the answer. `Proceed` is the rest of the loop of
`update_quotes`, with `_update_side` in it, up to the next await: it decides for
each side whether to skip, post or cancel (`Decision`), in the order of the
guards of the source. `RepriceReturns` cancels and places in one step, because
the code does not await in between. `StrategyThrows` is the `KeyError` of
`del self._live[...]`, which ends the process through `gather`.

The exchange is external and does what the code expects it may; `Faults` names
what a run allows it. The order size is constant (`Lots`), the flicker filter
may freeze a side at any cancel and thaw at any time (its window is in `KalshiOrders`),
the age test and the size of the move are a choice and a comparison.

`odd` is a history variable: the sides of which an order fared in a way the manager is
not written for. There are four such events, and each breaks the index in the code:

- an order trades in parts: it is `PARTIAL_FILL` while its rest rests, `_cancel_all`
  passes it over and the side is quoted again;
- an order trades as it is placed (`"matched"`): it is filed as filled in full, and
  its fill event is counted once more and takes the next order of the side out of the index;
- a POST is given up on: the order rests under an id the manager never learns;
- the cancel of an order that is gone is confirmed: by then the key holds nothing (the
  `KeyError`) or another order, which is dropped.

No property is switched off by them: `OneOrderPerSide`, `CancelAllReaches`, `OvershootBounded`
and `NeverSendsCross` excuse the side it happened to, for good, and go on speaking of the
other one, with which it shares the index, the self-trade guard, the position and
the task. `StrategySurvives` says that one of the four comes before a `KeyError`.
Rejected and delayed POSTs, overtaken and lost events and cancels that time out excuse nothing.

### Quoting

Prices are tenths of a cent. `Nearest` is Python's `round` with its ties to even,
which decides what happens to a quote half way between two cents. `QuotePair` is the
last step of both pricing engines.

### KalshiOrders

Built like `OrderManager`, from `kalshi_order_manager.py`. What differs in the code
differs in the module: a side with any order in it is repriced, never quoted
beside it (`Decision`); the first update of a process awaits the tick before the
loop (`UpdateQuotes`, `TickReturns`), without looking at `kill_event` or the position
again; an order is filed in the status its answer comes to, `OPEN`, `PARTIAL_FILL`, `FILLED`
or, when the answer cannot be read, `PENDING`, with the fills the answer counts
(`PlacedRecord`), and in the live index in each case; `Kill` does nothing to the orders, because
`_monitor_kill` sweeps the Polymarket manager only. `WindowPasses` lets a cancel
leave the filter's window, `Thaw` ends a freeze, which outlasts the window of the
cancels that set it off. `todo` is the set of sides still to do; `BUY` comes first.
`VenueMatches` is an order that trades as it is placed, although `post_only`: the code and its tests
provide for it. Its fills are in the answer and in a fill event, and the manager
adds both up (`MarkFilled`). `KeyMissing` is the `KeyError` of `_cancel_order`.
`strays` is a history variable: the orders a failed call or a lost event was about.
It excuses only those.

### Restart

`ProcessEnds` is the end of the process: `run()` cancels the tasks and
closes the session, and no order. `Crash` is one from outside, at any moment, `StrategyThrows` the
one of a missing key, through `gather`. Requests on their way reach the exchange all
the same (`Abandoned`). `Begin`, `FetchPositions`, `ListOrders`, `CancelOrder` and `Go` are
`_setup`, one action per call, with the exchange trading in between; each call may
fail and is then passed over, as in `reconciliation.py`. `quiet` is a history
variable: the position was read when nothing of ours could trade. A record is `CountedTwice`
when it says more was filled than was traded, and a side is `Miscounted` when it has such an
order: `OrphansExplained` and `CancelFindsItsOrder` allow for that and for no other fill.
`FilledWasTraded` says that it never happens, and is violated.

### Hedging

Money is in dollars, a price is what a lot costs. `Weight` stands for the option
formula and the multiplier, which turn contracts into dollars of perp. One action
starts a pass (`Update`, `UpdateEvent`), one ends the quoting of a market and
decides its hedge (`QuotesReturn`), and one each is an answer, a timeout and any
other error, which ends the task and the process. After a kill the outcomes of
an event that are still to do are hedged without being quoted (`GoOn`). `off` is a
history variable: dollars acknowledged and not executed, less those executed and
not acknowledged. Correlation is 0 because nothing in the program feeds the
tracker. A volatility of exactly 0, for which the option formula gives no delta, is left out with the rest
of the formula, and two orders that are the same in everything and both timed out are one
(`calls` is a set): `hedge_core` has one fault, so that this does not arise there. An update of an outcome before all have reported does nothing and is
left out.

### Inventory, SignedLedger

`pos` has net, quantity and entry price per leg. `ApplyFill` and `Gain` are
`apply_fill`; prices are whole ticks, quantities whole lots, entry prices exact
fractions, so that conservation of money can be checked exactly. Seeds come
before `Start`, as in `_setup`. `cash` is a history variable: what the fills of a
market were paid. `SignedLedger` says what position keeping promises whatever
it stores; `Inventory` implements it by `position <- net`, `money <- cash`: the
position moves by all of what was paid for. `on_order_placed` and
`on_order_cancelled` have no caller in `src/main.py`; they are modelled as the
operations they are.

### RiskEngine

One action per handler, and `Check` for one round of the monitor loop (daily
reset, adverse selection, loss rate, stale book). `Tick` is a second; midnight
may pass with it. `trail` is a history variable: every sample of the day. The
triggers for API failures and fill latency (`on_api_failure`,
`on_fill_latency`) have no caller and are left out.

### FillPath

`_apply_fill`, the head of the strategy loop, the dispatch of book events and
the risk task, as actions that join an action of `Inventory` with one of
`RiskEngine`. `taken` is a history variable: the seed of each market.

### Feeds

`phase` is where `run` is. `queued` is a number: what the feed puts into the
health queue is always the same object, so that the monitor reads the status
the feed has by then (`DownAfterRead`). `downFrom` and `openFrom` are history
variables. A second does not pass (`Tick`) before every task that is due ran:
the event loop is assumed to keep up with a resolution of one second. Names that
`Books` has as well are longer here (`FeedInit`, `ConnectionBreaks`), so that one module
can extend both.

### Books

A ladder is one side of the book of one leg, a function from prices to sizes.
`wire` holds what is on its way, an entry for each change, `queue` is `feed_queue`. A
message of Polymarket may carry several changes, up to `MaxBatch`, of both sides and both legs: the
exchange makes them at once (`VenueChanges`), `AfterChanges` is the book after the first few, and each
is told with what it leaves behind (`Told`). `Reads` is one turn of `_consume_loop` with the parser
in it, which puts all changes of a message into the queue (`EndsAt`): the queue takes 5000
events and is taken not to fill up, so that no task runs between them. `Dispatch` then deals with one
at a time, a state after each, as `BookRegistry.process` does; `ReadsGap` one in which the number of
the message ends the connection: the check of `_consume_loop` reads the number in
the envelope, that of `_parse_book_delta` the one in the body. `Numberings` says
where the exchange may put them, because nothing in the repository does: in both
places, or in the envelope only, where each change costs the connection and
the book lives on snapshots. `Dispatch` is one event of the dispatch task:
`BookRegistry` finds the book (`Registered`), `UnifiedBook` applies it and builds a
state (`shown`). `expected`, `clipped`, `removed` and `between` are history variables;
`between` says that the event dealt with last has others of its message behind it.

Left out: the flow, volatility and depth figures of a state, and the kill event. A connection is quiet
(`Quiet`) once nothing is on its way or queued: the watchdog takes ten seconds,
in which the dispatch task empties the queue. The exchange numbers each
connection from 1, never crosses its book, and answers a subscription with
both legs of Kalshi at once and with one leg after the other at Polymarket.

## Runs

| Run | Checks | Bounds |
|---|---|---|
| `om_core` | `TypeOK`, `OneOrderPerSide`, `StrategySurvives`, `NeverSendsCross`, `OvershootBounded`, `UpdateEnds`, `IdleKillCleans` | 3 orders, 2 quotes, orders of 2 lots, limit 2, start at 0; POSTs rejected, delayed or overtaken |
| `om_faults` | `PositionConserved`, `CancelAllReaches` | 2 orders, 2 quotes, fills of 1 or 2 lots, limit 3, start at 1; partial fills, POSTs matched at once, lost events, timeouts of both calls, cancels confirmed for orders gone; no further once both sides fared oddly (`OneSideOdd`) |
| `om_v_kill` | `KillCancelsAll` is violated | 3 orders, 2 quotes, orders of 1 lot, no faults |
| `kal_core` | `TypeOK`, `OrphansExplained`, `GoneExplained`, `CancelFindsItsOrder`, `PositionKnown`, `FewPostsAfterKill` | 3 POSTs (`MaxOrders`), 1 fault of thirteen kinds (`MaxMishaps`), 1 crash (`MaxCrashes`) after at most 2 POSTs (`CrashWithin`), 2 views of the market, orders of 2 lots, limit 3, threshold 1 |
| `kal_v_twice` | `FilledWasTraded` is violated | as above |
| `hedge_core` | `TypeOK`, `HedgeCloses`, `PerpKnown`, `FewHedgesAfterKill`, `Settles` | 3 markets, 2 of them an event, 2 prices, positions -1 to 1, 1 change of price or position (`MaxMoves`), 1 fault of six kinds (`MaxHitches`), 2 samples (`MinSamples`) |
| `inv_core` | `TypeOK`, `LegsAgree`, `PnLConserved`, `LedgerKept` | 3 fills or reservations, quantities 1 to 3, 2 prices, seeds -2, 0, 3 |
| `feed_core` | `FeedTypeOK`, `DownFeedKills`, `QuietConnectionEnds` | 12 seconds, threshold 3, staleness 2, delays 1 to 4 |
| `feed_v_kill` | `OnlyDownFeedKills` is violated | as above |
| `risk_core` | `TypeOK`, `SamplesFollow`, `WindowKept`, `StaleBookKills` | 3 fills, 5 seconds, window 2, slack 1 |
| `fp_core` | `MirrorOffset`, `RealizedAgree`, `EntryAgrees` | 2 fills, 2 seconds, seeds -2, 0, 3 |
| `book_core` | `TypeOK`, `LadderFollows`, `NothingInvented`, `BestHolds`, `CrossedOnlyBetween`, `CatchesUp` | 3 prices, sizes 0 to 2, `MAX_DEPTH` 2, 3 changes or trades at Kalshi and 2 at Polymarket, messages of 1 or 2 changes there (`MaxBatch`), 2 changes pending, 1 fault |

Why the bounds are enough. Orders interact through the two slots of the live
index: two orders fill both, the third is a replacement, so that an old and a
new order of one side meet; fills, cancels and the kill interleave with each.
The bound is kept where the code may fail without a call (`sign_order` raises).
The two quotes are a reprice apart and the second bid meets the first ask, so
that the self-trade guard and the exchange's post-only rule come into play.
Lots of 2 make a partial fill possible; `om_faults` has two orders, one of a side that is
excused beside one that is not, and starts at 1 of 3, so that one order
reaches the limit; once both sides are excused the run goes no further, and what follows
there, like the other invariants beside an excused side, is left to the
theorems below, which hold under every fault and without this cut. In `om_core` one order reaches the limit of 2
from 0, and both bounds of `OvershootBounded` are reached. One timed-out call is in flight at a
time. `inv_core` reaches flips from seeds and from fills, followed by a
close. `feed_core` runs four times the threshold and lets the delay reach its
maximum. `risk_core` lets a sample leave the window and the slack, and a midnight
come between two fills. In `book_core` each ladder starts with as many levels as
`MAX_DEPTH` keeps or one less, so that one change trims and the next deletes; a
change can be lost before, between or after two others, the fault may also be
a broken connection, and two changes may wait while the exchange goes on; two changes are
enough to move a bid past an ask that the second takes away. Deadlock is not checked: the bounds end every behaviour,
and so does the program once `up` is false.

In `kal_core` the third order is a replacement,
or comes after a restart that left a request of the first process on its way; the
two views round differently, are a reprice apart, and the second bid meets the
first ask. One fault is enough for each to be followed by everything else; with
two faults and two orders the same properties hold. The threshold of 1 makes every
cancel freeze its side. In `hedge_core` the weight of a contract is no multiple of either
price, so that sizes are rounded; three markets let two of them pull the perp in
opposite directions, which is where a reduce-only order is cut; two samples stand
for ten, of which only reaching the number matters.

Fairness in `hedge_core`: markets of a running program are updated again and
again and the state queue is first in, first out, so that an update is taken
although the strategy task is busy most of the time (strong fairness of `Update` and
`UpdateEvent`); calls are answered, the poller polls. Nothing is assumed of fills, prices,
kills or faults. `Settles` allows for a process that has ended or was killed and for
prices that are not there.

Fairness in `book_core`: the feed and the dispatch are tasks of the loop, `run`
connects again after its delay, the watchdog looks every second. Nothing is
assumed of the exchange. Fairness in `om_core`: an HTTP call ends, because the exchange answers or the
client timeout of 2 or 3 seconds does; a task whose call has ended runs; the
dispatcher and the kill monitor are tasks of the loop. Nothing is assumed of
market updates, fills or kills.

What the violated runs show:

- `om_v_kill`: the kill monitor sweeps the live index once. An order whose POST
  is in flight is not in it, and the strategy task files it without looking at
  `kill_event`; it rests for good. README.md:457 says all live quotes are
  cancelled.
- `feed_v_kill`: status becomes `CONNECTED` without a report, and the monitor
  cannot see a change in the object it already holds, so the downtime noted at
  the first `CONNECTING` is never cleared.
- `kal_v_twice`: an order of two lots trades one as it is placed. The answer says so and is filed,
  the fill event comes and is added, and the order counts as filled: `mark_filled` takes it out
  of the live index while its second lot rests, the side is quoted again, and a
  cancel under way finds no key. tests/test_core.py:599 expects the filled size to be that of the
  answer.

## Proofs

For all values of the constants, TLAPS checks:

- `InventoryProofs!TypeCorrect`, `LegsAlwaysAgree`: from the inductive invariant
  `TypeOK /\ LegsAgree /\ SeedFresh`. `LegsAgree` is not inductive by itself:
  `seed_position` writes one leg only and is right because the market was flat
  before, which `SeedFresh` says of a process that is not running; `TypeOK`
  gives the legs their sign, which the choice of branch by net relies on.
- `InventoryProofs!LedgerRefinement`: `Inventory` implements `SignedLedger`. The
  step lemma shows that net moves by the signed quantity that was paid for although the code adds
  the closing part and the remainder apart.
- `InventoryProofs!PnLAlwaysConserved`: fractions are not reduced and `Equals` does not
  say which numerators and denominators come next, so the invariant keeps one equation in
  integers for each market (`Holds`): realized PnL, times the denominators, is the cash and
  what the open leg cost. There is one open leg at most (`LegsAgree`), a blend or a close
  multiplies both sides by the same quantity, and a common factor is cancelled at the end
  (`OperatorProofs!Cancel`). Until the tasks start nothing was paid (`CashFresh`). TLC
  checked it on `inv_core` (393,719 states).
- `MarketDataProofs!FeedTypeCorrect`, `DownFeedAlwaysKills`, `QuietConnectionAlwaysEnds`: for
  any timeouts and a clock of any length. The invariant follows an outage
  through the queue: before the monitor has an entry, a report is queued or about
  to be (`OutageNoted`), and an entry is not older than the threshold and one
  poll (`EntryYoung`).
- `MarketDataProofs!TypeCorrect`, whatever is lost, and `LadderAlwaysFollows`, `NothingEverInvented`,
  `BestAlwaysHolds`, `CrossedOnlyWithinMessages` as long as no snapshot is lost (`NoSnapshotLost`; why
  is said below), changes may be. They hold wherever the exchange puts its numbers, in no message included. The
  properties compare the book with `expected`, and say nothing of what is still to be
  read; the invariant (`Stream`) does. A point is what the ladders at the exchange were and the
  number of the last message; a message `Leads` from one point to the next, a queue
  `Through` several. The queue leads from the ladders expected to some point, the wire from some point
  to the ladders there are, and the two points are one as soon as the number in a body is
  the next of its market (`InStep`): a lost message moves the start of the wire past that number,
  and a new connection starts with a snapshot, which leads to one point from anywhere. So each change
  is applied to the ladders it was made to. For the ladder itself, `Follows` says that the
  book never has more at a price, that it is right at every level with fewer than
  `MAX_DEPTH - removed` above it at the exchange (`ChangeTop`: each deletion costs one such level), and the
  same if it never was deeper. `BestHolds` is the case of no level above; `CrossedOnlyBetween` follows because a
  ladder that shows no more has no better best (`BestNoBetter`) and the ladders expected are those of
  an exchange at rest, not crossed, whenever the event dealt with last ended its message: `Stream`
  follows where in a message the queue is. `Stream` and `BookInv` are the two halves of the invariant.
- `FillPathProofs!MirrorAlwaysOffset`, `RealizedAlwaysAgree`: the invariant adds that
  no fill reaches the mirror before the tasks start (`MirrorFresh`), because a seed
  taken after a fill would not be the whole difference, and that the two realized
  PnLs are the same fraction, sum by sum (`SameRealized`), which `Equals` alone would
  not carry over a step.
- `FillPathProofs!EntryAlwaysAgrees`: of a market that was not seeded, the two positions
  are one (`Entry`): the same net quantity, one leg that holds it, and entry prices that are
  equal fractions. `apply_fill` blends a leg with what it opens, `on_fill` the whole position
  with the whole fill; the two blends divide by the same quantity (`BlendEqual`), and where one
  starts anew after a flip so does the other. A leg that was closed keeps its old price in one
  and not in the other, which is why nothing is claimed of it. TLC checked the invariant on
  `fp_core` (402,952 states).
- `RiskEngineProofs!StaleBookAlwaysKills`: `StaleBookKills` speaks of a second after the
  limit, and is carried over the second by what the round of checks before it
  saw (`SilenceSeen`).
- `RiskEngineProofs!TypeCorrect`, `SamplesAlwaysFollow`, `WindowAlwaysKept`: the deque is the end
  of the day's samples, and those it lacks are all older than window and slack
  (`LacksOld`); its newest is the PnL of now (`Newest`). Where the loop of `popleft` stops is
  counted and not defined by recursion (`Before` is the length of an initial segment that lies
  before the cutoff), so that two loops over the same tail stop at the same sample
  (`StopsOnce`), and the check on the deque and on the whole day start from one sample
  (`LossAlike`). The slack is only used as a natural number: the window is kept without any.
  TLC checked the invariant on `risk_core` (1,418,772 states).
- `OrderManagerProofs!TypeCorrect`, `PositionAlwaysConserved`, under every fault. The
  invariant (`BaseInv`) ties the calls under way to the orders they are about: a POST on its
  way is about an order nobody knows yet (`Posts`), a DELETE about one in `_all`
  (`Deletes`), a known order has reached the exchange (`Reached`), nobody reads the answer to
  a call given up (`Unheard`), and the strategy task waits for nothing, for
  cancels or for one call (`Awaits`). Without `Posts` an order could be filed twice, and without
  `Reached` a fill could be told of an order that was never there. What has traded and what events
  tell of it are sums over sequences (`SumFunction`), which `OperatorProofs` reasons about.
- `OrderManagerProofs!OneOrderPerSideAlways`, `CancelAllAlwaysReaches`,
  `StrategyAlwaysSurvives`, `OvershootAlwaysBounded`, `CrossNeverSent`, under every fault too, of
  the sides that are not `odd`. The
  invariant (`CalmInv`) says where each order of such a side is that may still trade: the live index is just the
  orders that are `OPEN` or `PENDING` (`Indexed`), a POST on its way has its side for
  itself (`Alone`), what is not gone is known or on its way (`Tracked`), a confirmed cancel is
  the only one of its order and its order is still indexed (`CancelledOnce`), and a
  fill on its way finds its order where it was (`Pending`). Nothing is claimed of the other
  side, and each step about it leaves these five alone, which is what the code's index
  by side is good for. `OneOrderPerSide` follows,
  because two orders of one side would hold one key. For the overshoot, `LimitInv` bounds
  the position by what may still come, longs by the bids and shorts by the asks: it is below the limit while a bid is outstanding, or an
  update is about to replace one; below it by one order more while an ask is; and `"SELL"` is not
  still to do once the cancel of the ask is under way. `OvershootAlwaysBounded` starts
  from a position within the bounds, as a process does whose predecessor kept
  them. For the self-trade guard, `NoCross` says that what is being sent, or will follow the cancel
  being awaited, is clear of every order of a side not odd held for `OPEN`; it assumes quotes on the tick
  (`OnTick`), as the pricing engine's cents are wherever a tick is a cent or
  divides one.
- `RestartProofs!TypeCorrect`, `OrphansAlwaysExplained`, `GoneAlwaysExplained`,
  `CancelsFindTheirOrder`, `PositionAlwaysKnown`: through any crashes, restarts and faults. The invariant
  (`LifeInv`) has the shapes and references of the state (`Shapes`, `Posts`, `Deletes`, `Known`); for
  each order, that what it traded is covered by what its record, events unread
  and events lost say (`Filling`, `Account`): covered and not met, because a fill told by a placement
  answer may be counted again. Without it nothing says why a filled order still held will be
  taken out. Each order held by a side rests, or its end is announced, or it is among the
  `strays` (`Held`), and what rests without being held is accounted for (`Explained`). `Excused` is the
  invariant's way to say `Miscounted`: an order counted in full, or one of its side that was
  (`Over`); an order that rests and counts in full was counted twice, and so was one that was
  cancelled with something left. `SetupInv` is where reconciliation has got to and what it has read,
  and a process that is down knows nothing. Over all orders, position, events
  unread and events missed add up to what the exchange holds.
- `RestartProofs!KillEndsQuoting`: `FewPostsAfterKill` counts POSTs since the kill and
  says nothing of where the task is. The invariant (`KillInv`) does: while quoting
  one call is under way, and the POSTs sent, the replacement a cancel under way may
  be followed by, and the side still to do are two at most (`Owed`); while the tick
  is awaited, none was sent. A call that was given up belongs to nobody and is
  never answered to the task (`OthersAreNobodys`).
- `HedgingProofs!TypeCorrect`, `HedgeAlwaysCloses`, `KillAlwaysStopsHedges`: nothing else
  books a market's hedge while its order is awaited, because the task waits for
  one call and its market is not among those still to do; the rounding is within
  half a lot (`OperatorProofs!NearestWithin`); after a kill, the orders sent and the
  outcomes still to do are as many as the event has.
- `HedgingProofs!PerpAlwaysKnown`: the position is one number, the hedges are many. The
  invariant (`PerpInv`) adds that every order under way, given up or not, was sent at the price
  of now, and that nothing is held before there is a price; each step then books, claims or
  sets off as many dollars as it moves the account by. One answer at most is unread
  (`OneClaim`), because the task waits for one order. TLC checked it on `hedge_core`
  (907,586 states).
- `OperatorProofs!QuotesAreSane`: the quotes are whole cents, between 1 and 99, and
  never meet, for any reservation price and half-spread, rounding to even included.

They rest on the named assumptions of `OrderManager`, `Inventory`, `FillPath`, `RiskEngine`,
`Feeds`, `Books`, `KalshiOrders`, `Restart` and `Hedging` (bids below asks, prices between 0 and a dollar,
positive quantities, ticks and limits, whole seeds, positive timeouts, a maximum delay not
below the base, finitely many markets and prices, a book that is not crossed when the process
starts), which TLC evaluates in `om_core`, `inv_core`, `fp_core`, `risk_core`, `feed_core`, `book_core`,
`kal_core` and `hedge_core`.

Every invariant a passing run checks is proved. Only model-checked: `UpdateEnds`, `IdleKillCleans`,
`CatchesUp` and `Settles` (liveness, out of the prover's reach).

## Met while reading, without a run

- `_cancel_all` takes `OPEN` and `PENDING` orders; a partly filled one rests with its
  remainder and is passed over (`order_manager.py:360`; its docstring says "all live
  orders"; `kalshi_order_manager.py:332` does the same), and the Polymarket side is quoted again beside it:
  `CancelAllReaches` and `OneOrderPerSide` excuse that side (`odd`).
- A POST that timed out at Polymarket, and an order matched at once, cost their side the same
  (`order_manager.py:255`, `order_manager.py:300`), and a cancel confirmed for an order that is gone
  makes the `del` of `order_manager.py:334` drop another order or raise.
- Books are registered under the key of the settings (`main.py:218`), events carry
  `condition_id` or `market_ticker` (`unified_book.py:562`); with the keys of README.md:280 no event
  reaches a book. A configuration whose keys are the exchange's names works, and
  `book_core` is about that; with another `Ticker` than `MarketId` its ladders stay empty.
- `_parse_price_change` yields an event for each change of a message (`polymarket_feed.py:264`) and
  a state is built after each: a message that raises the bid and takes away the ask it
  would meet gives a crossed state after its first change, although the exchange was never crossed. It goes
  into the state queue (`unified_book.py:563`): no one asks `is_valid` before `FairValueEngine` does, which
  then does not quote, but the risk engine and the inventory are marked with its mid
  first (`main.py:496`). `test_crossed_book_detection` expects crossed books to be stored and
  says "validated upstream" (tests/test_core.py:78). `CrossedOnlyBetween` is what holds: after the last change of
  a message the state is not crossed.
- A kill does not touch Kalshi orders: `_monitor_kill` (`main.py:728`) calls the Polymarket
  manager, which holds none of them, although README.md:457 says that all live quotes
  are cancelled. Nor does the process exit: the feeds, the risk task and the
  price feed loop for ever, `gather` waits for them, and `_shutdown_all` is not reached.
- A lost or early fill event leaves a dead Kalshi order in the index. Its cancel is
  answered with an error, the side is never quoted again (`GoneExplained`
  excuses it through `strays`).
- A Kalshi POST that is on its way while `_cancel_kalshi_open_orders` lists the orders
  is cancelled by nobody, in this process or the next (`OrphansExplained`, likewise).
- The Kalshi self-trade guard compares a quote before it is rounded to the tick
  (`kalshi_order_manager.py:144`): with a tick of more than a cent a quote that passes may
  meet our own order, which `post_only` then has refused.
- Nothing calls `update_pm_mid` or `update_underlying_price` (`delta_hedge.py:226`), so the
  correlation is 0 and with the default `correlation_min_abs` of 0.60 no hedge is ever
  sent. `hedge_core` sets it to 0, which opens the gate: what it shows is about the
  engine behind the gate.
- A reduce-only hedge is cut by the position of the account, which is that of all
  markets on the coin, and booked in full (`delta_hedge.py:401`); so is an order that
  finds no counterpart. After a timeout nothing is booked, executed or not.
  `PerpKnown` states how far this goes.
- The hedge is kept in dollars at the prices of the orders: after a move of the price,
  taking it back to zero leaves lots behind. `PerpKnown` is stated for a price that
  has not moved.
- The reducing side is not quoted at the limit either (`order_manager.py:371`
  cancels the growing side and returns), and the limit is overshot, by less than
  one order of longs and less than two of shorts (`OvershootBounded`), although `settings.py:37`
  speaks of a maximum. `update_quotes` tests the limit once, before its first await: while it waits
  for the cancel or the POST of the bid, the ask that rests fills and is read, and
  the ask of the same update is then sent from a position that is at the limit already.
  The bid comes first, so nothing follows a bid that fills; a bound of one order on both sides,
  which looks right, is not inductive, and TLC finds the counterexample with
  orders as large as the limit.
- `_update_side` places on a side the cancel before it has just frozen
  (`order_manager.py:176`).
- The loss rate compares the oldest and the newest sample of the window only
  (`engine.py:321`), so a loss after a gain inside it is not seen; README.md:451
  promises any loss within the window.
- `RiskEngine` is not told the seeded positions (`main.py:251`); `fp_core` shows
  that the seed is the only difference (`MirrorOffset`).
- `_last_seq` and `_seq_by_market` outlive the connection (`kalshi_feed.py:275`): with
  `CanLose` = {"delta", "snapshot"} TLC finds a lost snapshot whose absence no
  number tells, and `LadderFollows` fails. The numbers of changes are read from
  the body of a message (`kalshi_feed.py:271`); if the exchange has them in the
  envelope only, every change is taken for a gap and ends the connection.
- The self-trade guard does not see a `PENDING` opposite order
  (`order_manager.py:104`): `NeverSendsCross` is stated for open ones.
- Collateral: a SELL that opens a short releases collateral instead of locking
  it (`manager.py:273`), and a round trip at two prices leaves some locked.
- The watchdog is off until the first message and judges a new connection by
  the last message of the old one (`base_feed.py:229`); backoff never resets.
  `QuietConnectionEnds` is stated for connections that delivered something.
- The drawdown is looked at on fills only and with the marks of the last market
  update (`engine.py:216`); adverse selection is measured against 0
  (`engine.py:286`); fills of categorical markets against a mid of 0
  (`main.py:221`, `main.py:502`).

## Not modelled

Signing, authentication and secrets (cryptography, no state), the market resolver
and the balances read at start (I/O), settings (validation at start), the backtest
simulators (test tooling), and the floating-point parts of pricing: softmax,
covariance, option formulas, OLS calibration, sizing by volatility and Kelly
fraction. The reconciliation of Polymarket has the shape of the modelled one of Kalshi,
but for the netting of two legs. The calibrator only changes parameters of the
formulas above.

## Plan

1. Books together with `Feeds` (one connection, several markets of it); the flow
   figures as operators.
2. Categorical basket: warm-up, and what one stale outcome does to the quotes of
   the others. Sizing together with `Hedging`'s markets: the room for correlated
   exposure counts what is held and not what is resting.
3. Several Kalshi markets with one position limit each and one process.
