---------------------------- MODULE RiskEngine ----------------------------
(***************************************************************************)
(* RiskEngine (src/risk/engine.py): what it mirrors of the positions, its  *)
(* PnL buckets, the loss-rate window and the checks that set kill_event.   *)
(*                                                                         *)
(* The handlers run to their end without an await, and so does the body    *)
(* of the monitor loop, once a second: each is an action.  Quantities are  *)
(* whole lots, prices whole ticks, entry prices and PnL exact fractions.   *)
(***************************************************************************)
EXTENDS Integers, Sequences, FiniteSets, SequencesExt, Fractions

CONSTANTS
  Markets,
  Prices,          \* Prices and mids there may be, in ticks.
  Quantities,      \* Quantities fills may have.
  Gains,           \* Realized PnL InventoryManager may report, in tick-lots.
  DrawdownLimit,   \* risk.intraday_drawdown_limit
  LossLimit,       \* risk.loss_rate_limit_15m
  Window,          \* LOSS_RATE_WINDOW_S
  Slack,           \* The seconds samples are kept beyond the window.
  AsWindow,        \* AS_WINDOW_S
  BookStaleAfter,  \* BOOK_STALE_S
  MaxFills,        \* Bound on the fills of a behaviour; not in the code.
  MaxTime          \* Bound on the clock; not in the code.

ASSUME PricesTicks == Prices \subseteq Nat \ {0}
ASSUME QuantitiesLots == Quantities \subseteq Nat \ {0}
ASSUME GainsFractions == Gains \subseteq Fraction
ASSUME LimitsAssumption == DrawdownLimit \in Nat /\ LossLimit \in Nat
ASSUME WindowsAssumption == {Window, Slack, AsWindow, BookStaleAfter} \subseteq Nat
ASSUME BoundsAssumption == MaxFills \in Nat /\ MaxTime \in Nat

VARIABLES
  now,        \* time.monotonic()
  checked,    \* The monitor loop ran this second.
  midnight,   \* A day began (UTC) since the last _check_daily_reset.
  mirror,     \* _inventory: net_qty and avg_entry.
  marked,     \* PnLSnapshot.inventory_pnl
  realized,   \* PnLSnapshot.realized_pnl
  spread,     \* PnLSnapshot.spread_capture
  adverse,    \* PnLSnapshot.adverse_selection
  intraday,   \* _intraday_pnl
  samples,    \* _pnl_samples
  pending,    \* _pending_as
  lastBook,   \* _status.last_book_ts, Never before the first update.
  killed,     \* kill_event.is_set()
  trail,      \* History: every sample of the day, none dropped.
  count       \* History: fills so far.

pnlVars == <<mirror, marked, realized, spread, intraday, samples, trail, count>>
asVars == <<adverse, pending>>
vars == <<now, checked, midnight, pnlVars, asVars, lastBook, killed>>

Never == 0
Sides == {"BUY", "SELL"}
Sign(s) == IF s = "BUY" THEN 1 ELSE -1
Size(n) == IF n < 0 THEN -n ELSE n

Sum(f, S) == FoldSet(LAMBDA m, acc : Plus(f[m], acc), Whole(0), S)
Below(a, limit) == ~AtMost(Whole(-limit), a)

\* How many entries at the head of a deque lie before t, up to the first that
\* does not: what a loop of popleft takes.
Before(ss, t) == Cardinality({i \in 1..Len(ss) : \A j \in 1..i : ss[j].ts < t})

\* What such a loop leaves.
From(ss, t) == SubSeq(ss, Before(ss, t) + 1, Len(ss))

-----------------------------------------------------------------------------
(* on_fill.                                                                *)

SameDirection(po, s) == po.net = 0 \/ (po.net > 0) = (s = "BUY")

\* Mutant: a fill that flips the position keeps the old entry price.
MirrorFill_NoFlip(po, s, p, q) ==
  [net |-> po.net + Sign(s) * q,
   avg |-> IF SameDirection(po, s)
           THEN Over(Plus(Scale(Size(po.net), po.avg), Whole(p * q)), Size(po.net + Sign(s) * q))
           ELSE po.avg]

\* Mutant: every fill blends, and a close to zero divides by zero.
MirrorFill_BlendAlways(po, s, p, q) ==
  [net |-> po.net + Sign(s) * q,
   avg |-> Over(Plus(Scale(Size(po.net), po.avg), Whole(p * q)), Size(po.net + Sign(s) * q))]

\* The position mirror: blend on the same side, restart on a flip, keep the
\* entry price on a partial close.
MirrorFill(po, s, p, q) ==
  [net |-> po.net + Sign(s) * q,
   avg |-> IF SameDirection(po, s)
           THEN Over(Plus(Scale(Size(po.net), po.avg), Whole(p * q)), Size(po.net + Sign(s) * q))
           ELSE IF q > Size(po.net) THEN Whole(p)
           ELSE po.avg]

\* Mutant: the slack is on the wrong side of the window.
Recent_TooNarrow(ss) == From(ss, now - Window + Slack)

\* _record_pnl_sample: append, then drop what is older than window and slack.
Recent(ss) == From(ss, now - Window - Slack)

\* mid: what main.py takes for the mid of the moment; gain: what
\* InventoryManager.on_fill returned.
OnFill(m, s, p, q, mid, gain) ==
  /\ count < MaxFills
  /\ spread' = [spread EXCEPT ![m] = @ + (mid - p) * q * Sign(s)]
  /\ realized' = [realized EXCEPT ![m] = Plus(@, gain)]
  /\ intraday' = Plus(intraday, gain)
  /\ samples' = Recent(Append(samples, [ts |-> now, pnl |-> Plus(intraday, gain)]))
  /\ trail' = Append(trail, [ts |-> now, pnl |-> Plus(intraday, gain)])
  /\ mirror' = [mirror EXCEPT ![m] = MirrorFill(@, s, p, q)]
  /\ pending' = Append(pending, [ts |-> now + AsWindow, market |-> m, side |-> s,
                                 size |-> q, mid |-> mid])
  /\ killed' = (killed \/ Below(Plus(intraday', Sum(marked, Markets)), DrawdownLimit))
  /\ count' = count + 1
  /\ UNCHANGED <<now, checked, midnight, marked, adverse, lastBook>>

-----------------------------------------------------------------------------
(* The other handlers.                                                     *)

Marked(m, mid) == Scale(mirror[m].net, Minus(Whole(mid), mirror[m].avg))

\* on_market_update: the mark, and no drawdown check.
OnMarketUpdate(m, mid) ==
  /\ marked' = [marked EXCEPT ![m] = IF mirror[m].net # 0 THEN Marked(m, mid) ELSE Whole(0)]
  /\ UNCHANGED <<now, checked, midnight, mirror, realized, spread, intraday, samples, trail,
                 count, asVars, lastBook, killed>>

\* on_book_update, of whichever market.
OnBookUpdate ==
  /\ lastBook' = now
  /\ UNCHANGED <<now, checked, midnight, pnlVars, asVars, killed>>

\* trigger_feed_desync, called by the health monitor.
FeedDesync ==
  /\ killed' = TRUE
  /\ UNCHANGED <<now, checked, midnight, pnlVars, asVars, lastBook>>

-----------------------------------------------------------------------------
(* The monitor loop.                                                       *)

InWindow(ss) == From(ss, now - Window)

\* _check_loss_rate: the first sample the window admits against the newest.
LossTooFast(ss) ==
  /\ InWindow(ss) # <<>>
  /\ Below(Minus(Last(ss).pnl, Head(InWindow(ss)).pnl), LossLimit)

\* Mutant: the check of the books asks for a sample of the PnL first.
BookStale_SamplesFirst ==
  samples # <<>> /\ lastBook # Never /\ now - lastBook > BookStaleAfter

\* _check_stale_book: one time stamp for all books.
BookStale == lastBook # Never /\ now - lastBook > BookStaleAfter

Due == SubSeq(pending, 1, Before(pending, now + 1))

\* What the measurements of market m that are due add up to.  The mid each asks
\* for is inv["last_mid"], 0.0 since its creation.
SumDue(m) ==
  SumFunction([i \in DOMAIN Due |-> IF Due[i].market = m
                                    THEN (Due[i].mid - 0) * Due[i].size * Sign(Due[i].side) ELSE 0])

\* Mutant: the samples of yesterday stay.
SamplesAfterReset_Kept == samples

\* _check_daily_reset clears the samples with the PnL.
SamplesAfterReset == IF midnight THEN <<>> ELSE samples

\* One round: the daily reset, the measurements that are due, the two checks.
Check ==
  /\ ~checked
  /\ checked' = TRUE
  /\ midnight' = FALSE
  /\ intraday' = IF midnight THEN Whole(0) ELSE intraday
  /\ samples' = SamplesAfterReset
  /\ trail' = IF midnight THEN <<>> ELSE trail
  /\ adverse' = [m \in Markets |-> adverse[m] + SumDue(m)]
  /\ pending' = From(pending, now + 1)
  /\ killed' = (killed \/ LossTooFast(samples') \/ BookStale)
  /\ UNCHANGED <<now, mirror, marked, realized, spread, lastBook, count>>

\* A second passes; the sleep of the loop ends once in it.
Tick ==
  /\ checked /\ now < MaxTime
  /\ now' = now + 1
  /\ checked' = FALSE
  /\ midnight' \in BOOLEAN
  /\ UNCHANGED <<pnlVars, asVars, lastBook, killed>>

-----------------------------------------------------------------------------
Init ==
  /\ now = 1
  /\ checked = FALSE
  /\ midnight = FALSE
  /\ mirror = [m \in Markets |-> [net |-> 0, avg |-> Whole(0)]]
  /\ marked = [m \in Markets |-> Whole(0)]
  /\ realized = [m \in Markets |-> Whole(0)]
  /\ spread = [m \in Markets |-> 0]
  /\ adverse = [m \in Markets |-> 0]
  /\ intraday = Whole(0)
  /\ samples = <<>>
  /\ pending = <<>>
  /\ lastBook = Never
  /\ killed = FALSE
  /\ trail = <<>>
  /\ count = 0

Next ==
  \/ \E m \in Markets, s \in Sides, p, mid \in Prices, q \in Quantities, gain \in Gains :
       OnFill(m, s, p, q, mid, gain)
  \/ \E m \in Markets, mid \in Prices : OnMarketUpdate(m, mid)
  \/ OnBookUpdate
  \/ FeedDesync
  \/ Check
  \/ Tick

Spec == Init /\ [][Next]_vars

-----------------------------------------------------------------------------
(* What should hold.                                                       *)

Sample == [ts : Nat, pnl : Fraction]

\* The shapes of the state.
TypeOK ==
  /\ now \in Nat /\ lastBook \in Nat /\ count \in 0..MaxFills
  /\ {checked, midnight, killed} \subseteq BOOLEAN
  /\ mirror \in [Markets -> [net : Int, avg : Fraction]]
  /\ {marked, realized} \subseteq [Markets -> Fraction]
  /\ {spread, adverse} \subseteq [Markets -> Int]
  /\ intraday \in Fraction
  /\ samples \in Seq(Sample) /\ trail \in Seq(Sample)
  /\ pending \in Seq([ts : Nat, market : Markets, side : Sides, size : Nat, mid : Int])

\* The newest sample is the intraday PnL, also around midnight, so that the
\* loss-rate check compares with the PnL of now (samples[-1]).
SamplesFollow ==
  Equals(intraday, IF samples = <<>> THEN Whole(0) ELSE Last(samples).pnl)

\* The samples dropped on the way are none the window still needs: the check
\* decides as it would on every sample of the day.
WindowKept == LossTooFast(samples) <=> LossTooFast(trail)

\* A book that falls silent after its first update is noticed within a second
\* of the limit, whether or not anything was ever traded.
StaleBookKills ==
  lastBook # Never /\ now - lastBook > BookStaleAfter + 1 => killed

=============================================================================
