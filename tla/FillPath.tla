----------------------------- MODULE FillPath -----------------------------
(***************************************************************************)
(* The way of a fill and of a market update through the orchestrator       *)
(* (src/main.py): _apply_fill hands a fill to InventoryManager and what    *)
(* that returns to RiskEngine, in one step of the event loop; the strategy *)
(* loop hands every mid to RiskEngine and keeps its own copy of it.        *)
(*                                                                         *)
(* Inventory and RiskEngine are the components themselves.  The two share  *)
(* no state: each keeps the position its own way.                          *)
(***************************************************************************)
EXTENDS Integers, Sequences, Fractions

CONSTANTS
  Markets, Venues, VenueOf, One, Prices, Quantities, Holdings, Balances,
  DrawdownLimit, LossLimit, Window, Slack, AsWindow, BookStaleAfter,
  MaxFills, MaxTime,
  Categorical   \* The markets that belong to an event group.

ASSUME PricesAssumption == Prices \subseteq Nat
ASSUME QuantitiesAssumption == Quantities \subseteq Nat \ {0}
ASSUME HoldingsAssumption == Holdings \subseteq Int
ASSUME CategoricalAssumption == Categorical \subseteq Markets

VARIABLES
  pos, realized, locked, total, seeded, running, cash, count,
  now, checked, midnight, mirror, marked, riskRealized, spread, adverse, intraday,
  samples, pending, lastBook, killed, trail,
  lastMid,   \* Orchestrator._last_mid
  taken      \* History: the position each market was seeded with.

Inv == INSTANCE Inventory
Risk == INSTANCE RiskEngine WITH realized <- riskRealized, Gains <- {}

invVars == <<pos, realized, locked, total, seeded, running, cash>>
riskVars == <<now, checked, midnight, mirror, marked, riskRealized, spread, adverse, intraday,
              samples, pending, lastBook, killed, trail>>
vars == <<invVars, riskVars, count, lastMid, taken>>

-----------------------------------------------------------------------------
\* _setup registers every market with a mid of 0.0.
Init ==
  /\ Inv!Init
  /\ Risk!Init
  /\ lastMid = [m \in Markets |-> 0]
  /\ taken = [m \in Markets |-> 0]

\* _setup seeds InventoryManager with what the venues report, and nothing else.
Seed(m, n, avg) ==
  /\ Inv!SeedPosition(m, n, avg)
  /\ taken' = [taken EXCEPT ![m] = n]
  /\ UNCHANGED <<riskVars, lastMid>>

Start ==
  /\ Inv!Start
  /\ UNCHANGED <<riskVars, lastMid, taken>>

\* Mutant: the mirror is told the quantity the fill closed, not the fill's.
ApplyFill_Closed(m, s, p, q) ==
  /\ Inv!OnFill(m, s, p, q)
  /\ Risk!OnFill(m, s, p, IF Inv!Opens(pos[m], s) THEN q ELSE Inv!Closing(pos[m], s, q),
                 lastMid[m], Inv!Gain(pos[m], s, p, q))
  /\ UNCHANGED <<lastMid, taken>>

\* Mutant: the realized PnL is asked for after the fill was applied.
ApplyFill_GainLate(m, s, p, q) ==
  /\ Inv!OnFill(m, s, p, q)
  /\ Risk!OnFill(m, s, p, q, lastMid[m], Inv!Gain(pos'[m], s, p, q))
  /\ UNCHANGED <<lastMid, taken>>

\* _apply_fill.
ApplyFill(m, s, p, q) ==
  /\ Inv!OnFill(m, s, p, q)
  /\ Risk!OnFill(m, s, p, q, lastMid[m], Inv!Gain(pos[m], s, p, q))
  /\ UNCHANGED <<lastMid, taken>>

\* The head of the strategy loop; the branch of categorical markets leaves it
\* before _last_mid is written.
MarketUpdate(m, mid) ==
  /\ running
  /\ Risk!OnMarketUpdate(m, mid)
  /\ lastMid' = IF m \in Categorical THEN lastMid ELSE [lastMid EXCEPT ![m] = mid]
  /\ UNCHANGED <<invVars, taken>>

\* The dispatch loop, after a book event.
BookUpdate ==
  /\ running
  /\ Risk!OnBookUpdate
  /\ UNCHANGED <<invVars, lastMid, taken>>

\* The risk task.
RiskTask ==
  /\ running
  /\ Risk!Check \/ Risk!Tick
  /\ UNCHANGED <<invVars, count, lastMid, taken>>

Next ==
  \/ \E m \in Markets, n \in Holdings, avg \in Prices : Seed(m, n, avg)
  \/ Start
  \/ \E m \in Markets, s \in Inv!Sides, p \in Prices, q \in Quantities : ApplyFill(m, s, p, q)
  \/ \E m \in Markets, mid \in Prices : MarketUpdate(m, mid)
  \/ BookUpdate
  \/ RiskTask

Spec == Init /\ [][Next]_vars

-----------------------------------------------------------------------------
(* What should hold.                                                       *)

\* The mirror of RiskEngine moves as the position of InventoryManager does,
\* through closes and flips; they differ by the seed only.
MirrorOffset ==
  \A m \in Markets : mirror[m].net = pos[m].net - taken[m]

\* "realized PnL is never recomputed here anymore" (engine.py:169): the two
\* components hold the same realized PnL of every market.
RealizedAgree ==
  \A m \in Markets : Equals(riskRealized[m], realized[m])

\* Two volume-weighted averages, written twice and differently (apply_fill
\* keeps one per leg, on_fill one per market), agree on the open leg of every
\* market that was not seeded.
EntryAgrees ==
  \A m \in Markets \ seeded :
    /\ mirror[m].net > 0 => Equals(mirror[m].avg, pos[m].avg["long"])
    /\ mirror[m].net < 0 => Equals(mirror[m].avg, pos[m].avg["short"])

=============================================================================
