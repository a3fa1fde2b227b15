------------------------------- MODULE Hedging -------------------------------
(***************************************************************************)
(* The hedge on Hyperliquid: HedgeEngine (src/hedging/delta_hedge.py), the *)
(* price it goes by (src/hedging/hyperliquid_price_feed.py), and the part  *)
(* of the strategy task that calls it, _place_quotes_and_hedge             *)
(* (src/main.py), for markets with one underlying coin.                    *)
(*                                                                         *)
(* Money is in dollars and the coin in the smallest lot an order may have, *)
(* so that a price is the dollars a lot costs.  The option formula and     *)
(* whatever else turns contracts into dollars is one factor, Weight.       *)
(* An action is what a task does between two awaits; the inventory, the    *)
(* prices and the perp exchange are external.                              *)
(***************************************************************************)
EXTENDS Integers, FiniteSets, Functions, Quoting

CONSTANTS
  Markets,         \* Markets with this underlying and a hedge.
  Event,           \* Those of them that are outcomes of one event group.
  Weight,          \* Dollars of perp per contract held.
  MinDelta,        \* hedge.min_delta_usd.
  CorrelationMin,  \* hedge.correlation_min_abs, in hundredths.
  MinSamples,      \* Prices get_realized_vol wants, 10 in the code.
  Quantities,      \* What InventoryManager may hold of a market.
  Prices,          \* What a lot may cost.
  MaxMoves,        \* Bound on changes of inventory and price; not in the code.
  MaxHitches,      \* Bound on the faults of a behaviour; not in the code.
  Hitches          \* What the outside world may do, a subset of AllHitches.

AllHitches == { "unfilled", \* an IOC order is acknowledged and finds no counterpart
                "refused",  \* a POST is answered with an error
                "timeout",  \* max_hedge_latency_ms passes, whatever the exchange does
                "throws",   \* the connection breaks, which execute_hedge does not catch
                "nometa",   \* the list of perps cannot be fetched
                "outage" }  \* prices stay away until the window of the vol is empty

ASSUME HedgedMarkets == IsFiniteSet(Markets) /\ Event \subseteq Markets
ASSUME HedgeNumbers ==
  /\ {Weight, MinDelta, CorrelationMin, MaxMoves, MaxHitches} \subseteq Nat
  /\ MinSamples \in Nat \ {0}
ASSUME QuantitiesAssumption == Quantities \subseteq Int
ASSUME PricesAssumption == Prices \subseteq Nat \ {0}
ASSUME HitchesAssumption == Hitches \subseteq AllHitches

VARIABLES
  qty,      \* InventoryManager.get_net_qty, per market.
  price,    \* HyperliquidPriceFeed._mids of the coin, or NoPrice.
  samples,  \* Prices in its _history, counted up to MinSamples.
  feed,     \* Where its run() is: before, or after fetch_meta.
  gross,    \* HedgeState.gross_hedge_usd, per market.
  task,     \* Where the strategy task is.
  calls,    \* POSTs to Hyperliquid that are not over.
  perp,     \* The position of the account there, in lots.
  killed,   \* kill_event.is_set().
  up,       \* The process runs.
  late,     \* History: hedge orders sent since the kill.
  off,      \* History: dollars of acknowledged orders that were not executed,
            \* less those executed without an acknowledgement.
  moved,    \* History: the price has changed.
  moves,    \* Counts changes of inventory and price, for MaxMoves.
  hitches   \* Counts faults, for MaxHitches.

outside == <<qty, moved, moves>>
poller  == <<price, samples, feed>>
vars == <<outside, poller, gross, task, calls, perp, killed, up, late, off, hitches>>

NoPrice == 0
Idle == [at |-> "idle"]
InQuotes(m, todo) == [at |-> "quoting", market |-> m, todo |-> todo]
InHedge(todo) == [at |-> "hedging", todo |-> todo]

Abs(n) == IF n < 0 THEN -n ELSE n
May(fault) == fault \in Hitches /\ hitches < MaxHitches
Hitch == hitches' = hitches + 1

-----------------------------------------------------------------------------
(* What compute_and_hedge decides.                                         *)

\* CorrelationTracker.correlation: nothing in the program calls
\* update_pm_mid or update_underlying_price, so there are never the ten returns it wants.
Correlation == 0

\* Short perp to hedge long YES.
Target(m) == -qty[m] * Weight

Needed(m) == Target(m) - gross[m]

\* Mutant: sizes are rounded up.
Size_Up(m) == (Abs(Needed(m)) + price - 1) \div price

\* execute_hedge rounds to what the exchange takes.
Size(m) == Nearest(Abs(Needed(m)), price)

\* Mutant: a size that rounds to nothing is sent.
Hedges_AnySize(m) ==
  /\ price # NoPrice /\ samples >= MinSamples
  /\ Correlation >= CorrelationMin
  /\ Abs(Needed(m)) >= MinDelta

\* Mutant: a correlation that just reaches the minimum is not enough.
Hedges_Above(m) ==
  /\ price # NoPrice /\ samples >= MinSamples
  /\ Correlation > CorrelationMin
  /\ Abs(Needed(m)) >= MinDelta
  /\ Size(m) > 0

\* Price, volatility and strike are there (_place_quotes_and_hedge), the
\* correlation is high enough, the hedge far enough off, and a lot at least.
Hedges(m) ==
  /\ price # NoPrice /\ samples >= MinSamples
  /\ Correlation >= CorrelationMin
  /\ Abs(Needed(m)) >= MinDelta
  /\ Size(m) > 0

\* is_reduce goes by this market's own hedge.
Reduces(m) == IF Needed(m) > 0 THEN gross[m] < 0 ELSE gross[m] > 0

Order(m) ==
  [market |-> m, side |-> IF Needed(m) > 0 THEN "BUY" ELSE "SELL", size |-> Size(m),
   effect |-> IF Reduces(m) THEN "reduce" ELSE "any", price |-> price,
   target |-> Target(m), awaited |-> TRUE, reply |-> "none"]

\* sign * size * S_perp.
Worth(c) == IF c.side = "BUY" THEN c.size * c.price ELSE -(c.size * c.price)

Send(m, todo, cs) ==
  /\ calls' = cs \cup {Order(m)}
  /\ task' = InHedge(todo)
  /\ late' = IF killed THEN late + 1 ELSE late

-----------------------------------------------------------------------------
(* The strategy task.  todo: the outcomes of the event still to do, in an  *)
(* order left open.                                                        *)

\* On to the next outcome; after a kill it is hedged without being quoted.
GoOn(todo, cs) ==
  LET due == {m \in todo : Hedges(m)}
  IN  \/ /\ todo = {} \/ (killed /\ due = {})
         /\ task' = Idle
         /\ calls' = cs
         /\ UNCHANGED late
      \/ /\ ~killed
         /\ \E m \in todo : task' = InQuotes(m, todo \ {m})
         /\ calls' = cs
         /\ UNCHANGED late
      \/ /\ killed
         /\ \E m \in due : Send(m, todo \ {m}, cs)

\* Mutant: a kill does not end the strategy loop.
CanStart_KillUnread == up /\ task = Idle

CanStart == up /\ ~killed /\ task = Idle

\* An update of a market on its own.
Update(m) ==
  /\ CanStart
  /\ task' = InQuotes(m, {})
  /\ UNCHANGED <<outside, poller, gross, calls, perp, killed, up, late, off, hitches>>

\* An update of an outcome: the basket is complete, and all of it is done.
UpdateEvent ==
  /\ CanStart
  /\ \E m \in Event : task' = InQuotes(m, Event \ {m})
  /\ UNCHANGED <<outside, poller, gross, calls, perp, killed, up, late, off, hitches>>

\* update_quotes comes back; kill_event is not looked at again.
QuotesReturn ==
  /\ up /\ task.at = "quoting"
  /\ \/ Hedges(task.market) /\ Send(task.market, task.todo, calls)
     \/ ~Hedges(task.market) /\ GoOn(task.todo, calls)
  /\ UNCHANGED <<outside, poller, gross, perp, killed, up, off, hitches>>

\* Mutant: what was needed is booked, not what was ordered.
Booked_Unrounded(c) == c.target - gross[c.market]

Booked(c) == Worth(c)

\* The answer to the order is read.  Its market is not among those still to do.
HedgeReturns(c) ==
  /\ up /\ c \in calls /\ c.awaited /\ c.reply # "none"
  /\ gross' = [gross EXCEPT ![c.market] = IF c.reply = "ok" THEN @ + Booked(c) ELSE @]
  /\ GoOn(task.todo, calls \ {c})
  /\ UNCHANGED <<outside, poller, perp, killed, up, off, hitches>>

\* The deadline passes: nothing is booked, whatever became of the order.
HedgeTimesOut(c) ==
  /\ up /\ c \in calls /\ c.awaited /\ May("timeout")
  /\ GoOn(task.todo, (calls \ {c}) \cup (IF c.reply = "none" THEN {[c EXCEPT !.awaited = FALSE]}
                                                             ELSE {}))
  /\ off' = [off EXCEPT ![c.market] = IF c.reply = "ok" THEN @ - Worth(c) ELSE @]
  /\ Hitch
  /\ UNCHANGED <<outside, poller, gross, perp, killed, up>>

\* Any other error ends the strategy task, and with it the process.
HedgeThrows(c) ==
  /\ up /\ c \in calls /\ c.awaited /\ May("throws")
  /\ up' = FALSE
  /\ Hitch
  /\ UNCHANGED <<outside, poller, gross, task, calls, perp, killed, late, off>>

-----------------------------------------------------------------------------
(* The price feed.                                                         *)

\* run() asks for the perps once, and throws if it gets no answer.
FetchMeta ==
  /\ up /\ feed = "starting"
  /\ \/ feed' = "polling" /\ UNCHANGED <<up, hitches>>
     \/ May("nometa") /\ up' = FALSE /\ Hitch /\ UNCHANGED feed
  /\ UNCHANGED <<outside, price, samples, gross, task, calls, perp, killed, late, off>>

\* _poll_once brings price p; an hour without one has emptied the window.  A
\* poll that fails changes nothing: the last price stays.
Poll(p) ==
  /\ up /\ feed = "polling"
  /\ price \in {NoPrice, p} \/ moves < MaxMoves
  /\ price' = p
  /\ moved' = (moved \/ price \notin {NoPrice, p})
  /\ moves' = IF price \in {NoPrice, p} THEN moves ELSE moves + 1
  /\ \/ samples' = (IF samples < MinSamples THEN samples + 1 ELSE samples)
        /\ UNCHANGED hitches
     \/ May("outage") /\ samples' = 1 /\ Hitch
  /\ UNCHANGED <<qty, feed, gross, task, calls, perp, killed, up, late, off>>

-----------------------------------------------------------------------------
(* Around them.                                                            *)

\* Fills change what is held (external).
Fill(m, q) ==
  /\ up /\ moves < MaxMoves /\ q # qty[m]
  /\ qty' = [qty EXCEPT ![m] = q]
  /\ moves' = moves + 1
  /\ UNCHANGED <<moved, poller, gross, task, calls, perp, killed, up, late, off, hitches>>

Kill ==
  /\ up /\ ~killed
  /\ killed' = TRUE
  /\ UNCHANGED <<outside, poller, gross, task, calls, perp, up, late, off, hitches>>

\* What a reduce-only order may take off the position of the account, which is
\* that of all markets together: beyond it the order is cut.
Reducible(c) == IF c.side = "BUY" THEN -perp ELSE perp

Taken(c) == IF c.effect = "reduce" /\ Reducible(c) < c.size
            THEN IF Reducible(c) < 0 THEN 0 ELSE Reducible(c) ELSE c.size

\* The exchange executes lots of order c and answers.
Executes(c, lots, reply) ==
  /\ perp' = perp + (IF c.side = "BUY" THEN lots ELSE -lots)
  /\ off' = [off EXCEPT ![c.market] = @ + (IF c.awaited /\ reply = "ok" THEN Worth(c) ELSE 0)
                                        - Worth([c EXCEPT !.size = lots])]
  /\ calls' = (calls \ {c}) \cup (IF c.awaited THEN {[c EXCEPT !.reply = reply]} ELSE {})
  /\ UNCHANGED <<outside, poller, gross, task, killed, up, late>>

VenueTakes(c) ==
  /\ c \in calls /\ c.reply = "none"
  /\ Executes(c, Taken(c), "ok")
  /\ UNCHANGED hitches

VenueFindsNothing(c) ==
  /\ c \in calls /\ c.reply = "none" /\ May("unfilled")
  /\ Executes(c, 0, "ok")
  /\ Hitch

VenueRefuses(c) ==
  /\ c \in calls /\ c.reply = "none"
  /\ May("refused")
  /\ Executes(c, 0, "error")
  /\ Hitch

-----------------------------------------------------------------------------
Init ==
  /\ qty \in [Markets -> Quantities]
  /\ price = NoPrice /\ samples = 0 /\ feed = "starting"
  /\ gross = [m \in Markets |-> 0]
  /\ task = Idle /\ calls = {}
  /\ perp = 0
  /\ killed = FALSE /\ up = TRUE
  /\ late = 0 /\ off = [m \in Markets |-> 0]
  /\ moved = FALSE /\ moves = 0 /\ hitches = 0

Returns == QuotesReturn \/ \E c \in calls : HedgeReturns(c)
VenueAnswers == \E c \in calls : VenueTakes(c) \/ VenueFindsNothing(c) \/ VenueRefuses(c)

Next ==
  \/ \E m \in Markets \ Event : Update(m)
  \/ UpdateEvent
  \/ Returns
  \/ \E c \in calls : HedgeTimesOut(c) \/ HedgeThrows(c)
  \/ FetchMeta
  \/ \E p \in Prices : Poll(p)
  \/ \E m \in Markets, q \in Quantities : Fill(m, q)
  \/ Kill
  \/ VenueAnswers

Spec == Init /\ [][Next]_vars

\* Every market is updated again and again, calls are answered or time out, a
\* task that is woken runs.
Fairness ==
  /\ \A m \in Markets \ Event : SF_vars(Update(m))
  /\ SF_vars(UpdateEvent)
  /\ WF_vars(Returns)
  /\ WF_vars(VenueAnswers)
  /\ WF_vars(FetchMeta)
  /\ WF_vars(\E p \in Prices : Poll(p))

FairSpec == Spec /\ Fairness

-----------------------------------------------------------------------------
(* What should hold.                                                       *)

Orders ==
  [market : Markets, side : {"BUY", "SELL"}, size : Nat \ {0}, effect : {"reduce", "any"},
   price : Prices, target : Int, awaited : BOOLEAN, reply : {"none", "ok", "error"}]

\* The shapes of the state; no order of nothing is sent.
TypeOK ==
  /\ qty \in [Markets -> Int] /\ gross \in [Markets -> Int] /\ off \in [Markets -> Int]
  /\ price \in Prices \cup {NoPrice} /\ samples \in 0..MinSamples
  /\ feed \in {"starting", "polling"}
  /\ task.at \in {"idle", "quoting", "hedging"}
  /\ task.at # "idle" => task.todo \subseteq Markets
  /\ task.at = "quoting" => task.market \in Markets
  /\ calls \subseteq Orders
  /\ perp \in Int /\ {late, moves, hitches} \subseteq Nat
  /\ {killed, up, moved} \subseteq BOOLEAN

\* An order on its way brings its market's hedge within half a lot of the
\* target it was sent for, and never past that on the other side: nothing else
\* books a hedge while it is awaited (compute_and_hedge, execute_hedge).
HedgeCloses ==
  \A c \in calls : c.awaited => 2 * Abs(gross[c.market] + Worth(c) - c.target) <= c.price

\* While the price does not move, the dollars booked over all markets are the
\* position of the account, up to what was acknowledged and not executed or
\* executed and not acknowledged: "only sends diff" (delta_hedge.py:195) needs
\* to know the position the difference is taken from.
PerpKnown ==
  LET acknowledged == {c \in calls : c.awaited /\ c.reply = "ok"}
  IN  ~moved /\ price # NoPrice =>
        perp * price + SumFunctionOnSet(off, Markets)
          = SumFunctionOnSet(gross, Markets) + SumFunction([c \in acknowledged |-> Worth(c)])

\* After kill_event is set, the pass under way hedges what it has left, one
\* order for each outcome of the event at most, and no pass is begun.
FewHedgesAfterKill == late <= 1 \/ late <= Cardinality(Event)

Near(m) == Abs(Needed(m)) < MinDelta \/ 2 * Abs(Needed(m)) <= price

\* When inventory and price stay and nothing goes wrong any more, every
\* market's hedge comes, and stays, as near to its target as orders can bring it.
Settles ==
  \A m \in Markets :
    <>[](~up \/ killed \/ price = NoPrice \/ samples < MinSamples \/ Near(m))

=============================================================================
